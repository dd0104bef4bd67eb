---- MODULE LivePanelProofs ----
\* For every set of files and circuits and whatever the recorder and the templates
\* say: a relay command holds, for what a panel took for a circuit is what its ticks
\* drive; a tick drives what the model's After series show; its Before series are the
\* recording; and an imported profile plays what was recorded.  The invariants tie the
\* command to the override of the engine that took it, what was driven and shown to the
\* templates the engine still has, and the factors of a template to the recording.  The
\* last theorem rests on the arithmetic of UsageProfile, which is proved from its
\* definitions: divisors, fractions, sums over sets, and the profile made of them.
EXTENDS LivePanel, FiniteSetTheorems, WellFoundedInduction, TLAPS

Overrides == [relay : Relays \cup {None}, priority : Priorities \cup {None}]

\* What a running panel's engine is made of.
Wellformed(e) ==
    /\ e = [template |-> e.template, relay |-> e.relay, priority |-> e.priority,
            override |-> e.override]
    /\ e.override \in [Circuits -> Overrides]

\* The app holds each running panel once.
OrderInv ==
    /\ order \in Seq(Files)
    /\ \A i, j \in DOMAIN order : order[i] = order[j] => i = j

EngineInv ==
    /\ DOMAIN engine = Files
    /\ \A f \in Running : Wellformed(engine[f])

\* A command is still laid over the circuit of the panel that took it.
ToldInv ==
    /\ told \in [Files -> [Circuits -> Relays \cup {None}]]
    /\ \A f \in Files, c \in Circuits : told[f][c] # None =>
          f \in Running /\ engine[f].override[c].relay = told[f][c]

IInv == OrderInv /\ EngineInv /\ ToldInv

------------------------------------------------------------------------
\* The order of the running panels

LEMMA RunningAreFiles == OrderInv => Running \subseteq Files
BY DEF OrderInv, Running

LEMMA PlaceIsThere ==
    ASSUME OrderInv, NEW f \in Running
    PROVE  Place(f) \in DOMAIN order /\ order[Place(f)] = f
BY DEF Running, Place

\* A panel that leaves the order leaves the others in it.
LEMMA OthersStay ==
    ASSUME OrderInv, NEW f \in Running
    PROVE  /\ Without(f) \in Seq(Files)
           /\ \A i, j \in DOMAIN Without(f) : Without(f)[i] = Without(f)[j] => i = j
           /\ {Without(f)[i] : i \in DOMAIN Without(f)} \subseteq Running \ {f}
           /\ Running \ {f} \subseteq {Without(f)[i] : i \in DOMAIN Without(f)}
<1> DEFINE n == Len(order)
           p == Place(f)
<1>1. /\ n \in Nat /\ DOMAIN order = 1 .. n /\ \A i \in 1 .. n : order[i] \in Files
      /\ p \in 1 .. n /\ order[p] = f
      /\ \A i, j \in 1 .. n : order[i] = order[j] => i = j
  BY PlaceIsThere DEF OrderInv
<1>2. Without(f) = [i \in 1 .. n - 1 |-> order[IF i < p THEN i ELSE i + 1]]
  BY DEF Without
<1> HIDE DEF n, p
<1>3. /\ Without(f) \in Seq(Files) /\ DOMAIN Without(f) = 1 .. n - 1
      /\ \A i \in 1 .. n - 1 : Without(f)[i] = order[IF i < p THEN i ELSE i + 1]
  BY <1>1, <1>2
<1>4. ASSUME NEW i \in 1 .. n - 1, NEW j \in 1 .. n - 1, Without(f)[i] = Without(f)[j]
      PROVE  i = j
  BY <1>1, <1>3, <1>4
<1>5. ASSUME NEW i \in 1 .. n - 1
      PROVE  Without(f)[i] \in Running \ {f}
  <2> DEFINE k == IF i < p THEN i ELSE i + 1
  <2>1. k \in 1 .. n /\ k # p
    BY <1>1
  <2>2. Without(f)[i] = order[k]
    BY <1>3
  <2>3. order[k] \in Running /\ order[k] # f
    BY <1>1, <2>1 DEF Running
  <2> QED BY <2>2, <2>3
<1>6. ASSUME NEW g \in Running \ {f}
      PROVE  \E i \in 1 .. n - 1 : Without(f)[i] = g
  <2>1. PICK k \in 1 .. n : order[k] = g /\ k # p
    BY <1>1 DEF Running
  <2>2. CASE k < p
    BY <2>1, <2>2, <1>1, <1>3
  <2>3. CASE k > p
    <3>1. k - 1 \in 1 .. n - 1 /\ ~(k - 1 < p)
      BY <2>1, <2>3, <1>1
    <3>2. Without(f)[k - 1] = order[k]
      BY <3>1, <2>3, <1>1, <1>3
    <3> QED BY <3>1, <3>2, <2>1
  <2> QED BY <2>1, <2>2, <2>3, <1>1
<1> QED BY <1>3, <1>4, <1>5, <1>6

------------------------------------------------------------------------
\* What a step does to the invariant

\* The running panels in another order of places.
Up(places) == {places[i] : i \in DOMAIN places}

\* A panel that starts, restarts or stops forgets its commands; no other does.
LEMMA AnewKeeps ==
    ASSUME IInv, NEW f \in Files, NEW new, NEW places, Anew(f, new, places),
           places \in Seq(Files), \A i, j \in DOMAIN places : places[i] = places[j] => i = j,
           Up(places) \subseteq Running \cup {f}, Running \ {f} \subseteq Up(places),
           f \in Up(places) => Wellformed(new)
    PROVE  IInv'
<1>1. /\ order' = places /\ engine' = [engine EXCEPT ![f] = new]
      /\ told' = [told EXCEPT ![f] = [c \in Circuits |-> None]]
  BY DEF Anew
<1>2. Running' = Up(places)
  BY <1>1 DEF Running, Up
<1>3. OrderInv'
  BY <1>1 DEF OrderInv
<1>4. EngineInv'
  <2>1. DOMAIN engine' = Files
    BY <1>1 DEF IInv, EngineInv
  <2>2. ASSUME NEW g \in Running' PROVE Wellformed(engine'[g])
    <3>1. CASE g = f
      BY <3>1, <2>2, <1>1, <1>2 DEF IInv, EngineInv
    <3>2. CASE g # f
      BY <3>2, <2>2, <1>1, <1>2, RunningAreFiles DEF IInv, EngineInv
    <3> QED BY <3>1, <3>2
  <2> QED BY <2>1, <2>2 DEF EngineInv, Wellformed
<1>5. ToldInv'
  <2>1. told' \in [Files -> [Circuits -> Relays \cup {None}]]
    BY <1>1 DEF IInv, ToldInv
  <2>2. ASSUME NEW g \in Files, NEW c \in Circuits, told'[g][c] # None
        PROVE  g \in Running' /\ engine'[g].override[c].relay = told'[g][c]
    <3>1. g # f
      BY <2>2, <1>1 DEF IInv, ToldInv
    <3>2. told'[g] = told[g] /\ engine'[g] = engine[g]
      BY <3>1, <1>1 DEF IInv, ToldInv, EngineInv
    <3>3. g \in Running /\ engine[g].override[c].relay = told[g][c]
      BY <2>2, <3>2 DEF IInv, ToldInv
    <3> QED BY <3>1, <3>2, <3>3, <1>2
  <2> QED BY <2>1, <2>2 DEF ToldInv
<1> QED BY <1>3, <1>4, <1>5 DEF IInv

LEMMA BuiltIsWellformed ==
    ASSUME NEW templates
    PROVE  Wellformed(Built(templates))
BY DEF Wellformed, Built, NoOverride, Overrides

LEMMA StartKeeps ==
    ASSUME IInv, NEW f \in Files, StartPanel(f)
    PROVE  IInv'
<1> DEFINE places == Append(order, f)
<1>1. order \in Seq(Files) /\ f \notin Running
  BY DEF IInv, OrderInv, StartPanel
<1>2. /\ places \in Seq(Files) /\ DOMAIN places = 1 .. Len(order) + 1
      /\ DOMAIN order = 1 .. Len(order) /\ Len(order) \in Nat
      /\ places[Len(order) + 1] = f
      /\ \A i \in 1 .. Len(order) : places[i] = order[i]
  BY <1>1
<1>3. Anew(f, Built(saved[f]), places)
  BY DEF StartPanel
<1> HIDE DEF places
<1>4. \A i, j \in DOMAIN places : places[i] = places[j] => i = j
  BY <1>1, <1>2 DEF IInv, OrderInv, Running
<1>5. Up(places) \subseteq Running \cup {f} /\ Running \ {f} \subseteq Up(places)
  BY <1>2 DEF Running, Up
<1> QED BY <1>2, <1>3, <1>4, <1>5, AnewKeeps, BuiltIsWellformed

LEMMA ReloadKeeps ==
    ASSUME IInv, NEW f \in Files, ReloadPanel(f)
    PROVE  IInv'
<1> DEFINE others == Without(f)
           places == Append(others, f)
<1>1. OrderInv /\ f \in Running /\ Anew(f, Built(saved[f]), places)
  BY DEF IInv, ReloadPanel
<1>2. /\ others \in Seq(Files)
      /\ \A i, j \in DOMAIN others : others[i] = others[j] => i = j
      /\ Up(others) = Running \ {f}
  BY <1>1, OthersStay DEF Up
<1> HIDE DEF others
<1>3. /\ places \in Seq(Files) /\ DOMAIN places = 1 .. Len(others) + 1
      /\ DOMAIN others = 1 .. Len(others) /\ Len(others) \in Nat
      /\ places[Len(others) + 1] = f
      /\ \A i \in 1 .. Len(others) : places[i] = others[i]
  BY <1>2
<1> HIDE DEF places
<1>4. \A i, j \in DOMAIN places : places[i] = places[j] => i = j
  <2>1. \A i \in 1 .. Len(others) : others[i] # f
    BY <1>2, <1>3 DEF Up
  <2>2. ASSUME NEW i \in 1 .. Len(others) + 1, NEW j \in 1 .. Len(others) + 1,
               places[i] = places[j]
        PROVE  i = j
    <3>1. CASE i = Len(others) + 1 \/ j = Len(others) + 1
      BY <3>1, <2>1, <2>2, <1>3
    <3>2. CASE i \in 1 .. Len(others) /\ j \in 1 .. Len(others)
      BY <3>2, <2>2, <1>2, <1>3
    <3> QED BY <3>1, <3>2, <2>2, <1>3
  <2> QED BY <2>2, <1>3
<1>5. Up(places) \subseteq Running \cup {f} /\ Running \ {f} \subseteq Up(places)
  BY <1>2, <1>3 DEF Up
<1> QED BY <1>1, <1>3, <1>4, <1>5, AnewKeeps, BuiltIsWellformed

LEMMA StopKeeps ==
    ASSUME IInv, NEW f \in Files, StopPanel(f)
    PROVE  IInv'
<1> DEFINE places == Without(f)
<1>1. OrderInv /\ f \in Running /\ Anew(f, None, places)
  BY DEF IInv, StopPanel
<1>2. /\ places \in Seq(Files)
      /\ \A i, j \in DOMAIN places : places[i] = places[j] => i = j
      /\ Up(places) = Running \ {f}
  BY <1>1, OthersStay DEF Up
<1> HIDE DEF places
<1> QED BY <1>1, <1>2, AnewKeeps

\* What is laid over one circuit of an engine leaves the rest of it.
LEMMA AppliedToOne ==
    ASSUME NEW e, Wellformed(e), NEW c \in Circuits, NEW key \in {"relay", "priority"}, NEW value,
           value \in IF key = "relay" THEN Relays ELSE Priorities
    PROVE  LET a == Applied(e, c, key, value)
           IN  /\ Wellformed(a)
               /\ \A d \in Circuits : a.override[d].relay =
                     IF d = c /\ key = "relay" THEN value ELSE e.override[d].relay
<1> DEFINE over == [e.override EXCEPT ![c] = [e.override[c] EXCEPT ![key] = value]]
           a == [template |-> e.template, relay |-> e.relay, priority |-> e.priority,
                 override |-> over]
<1>1. Applied(e, c, key, value) = a
  BY DEF Applied, Wellformed
<1>2. e.override[c] \in Overrides
  BY DEF Wellformed
<1>3. over \in [Circuits -> Overrides]
  <2>1. [e.override[c] EXCEPT ![key] = value] \in Overrides
    BY <1>2 DEF Overrides
  <2> QED BY <2>1 DEF Wellformed
<1>4. \A d \in Circuits : over[d].relay =
         IF d = c /\ key = "relay" THEN value ELSE e.override[d].relay
  BY <1>2 DEF Wellformed, Overrides
<1> QED BY <1>1, <1>3, <1>4 DEF Wellformed

\* The panel the controls work on is one that runs.
LEMMA FirstRuns ==
    ASSUME IInv
    PROVE  First # None => First \in Running /\ First \in Files
BY RunningAreFiles DEF First, Running, IInv, OrderInv

\* A command is laid over the circuit of the one panel that takes it.
LEMMA SetRelayKeeps ==
    ASSUME IInv, NEW c \in Circuits, NEW relay \in Relays, SetRelay(c, relay)
    PROVE  IInv'
<1>1. order' = order /\ Running' = Running
  BY DEF SetRelay, Running
<1>2. CASE First = None
  BY <1>1, <1>2 DEF IInv, OrderInv, EngineInv, ToldInv, Wellformed, SetRelay, Pushed
<1>3. CASE First # None
  <2> DEFINE f == First
             e == Applied(engine[f], c, "relay", relay)
  <2>1. /\ f \in Running /\ f \in Files /\ Wellformed(engine[f])
        /\ engine' = [engine EXCEPT ![f] = e]
        /\ told' = [told EXCEPT ![f][c] = relay]
    BY <1>3, FirstRuns DEF SetRelay, Pushed, IInv, EngineInv
  <2>2. /\ Wellformed(e)
        /\ \A d \in Circuits : e.override[d].relay =
              IF d = c THEN relay ELSE engine[f].override[d].relay
    BY <2>1, AppliedToOne
  <2> HIDE DEF f, e
  <2>3. EngineInv'
    BY <1>1, <2>1, <2>2 DEF IInv, EngineInv, Wellformed
  <2>4. ToldInv'
    <3>1. told' \in [Files -> [Circuits -> Relays \cup {None}]]
      BY <2>1 DEF IInv, ToldInv
    <3>2. ASSUME NEW g \in Files, NEW d \in Circuits, told'[g][d] # None
          PROVE  g \in Running' /\ engine'[g].override[d].relay = told'[g][d]
      <4>1. CASE g # f
        BY <4>1, <3>2, <1>1, <2>1 DEF IInv, ToldInv, EngineInv
      <4>2. CASE g = f /\ d = c
        BY <4>2, <1>1, <2>1, <2>2 DEF IInv, ToldInv, EngineInv
      <4>3. CASE g = f /\ d # c
        BY <4>3, <3>2, <1>1, <2>1, <2>2 DEF IInv, ToldInv, EngineInv
      <4> QED BY <4>1, <4>2, <4>3
    <3> QED BY <3>1, <3>2 DEF ToldInv
  <2>5. OrderInv'
    BY <1>1 DEF IInv, OrderInv
  <2> QED BY <2>3, <2>4, <2>5 DEF IInv
<1> QED BY <1>2, <1>3

\* A priority laid over a circuit leaves its relay's command.
LEMMA PutEntityKeeps ==
    ASSUME IInv, NEW c \in Circuits, NEW typical, NEW priority \in Priorities, NEW locked,
           PutEntity(c, typical, priority, locked)
    PROVE  IInv'
<1>1. order' = order /\ Running' = Running /\ told' = told /\ Pushed(c, "priority", priority)
  BY DEF PutEntity, Persist, Running
<1>2. CASE First = None
  BY <1>1, <1>2 DEF IInv, OrderInv, EngineInv, ToldInv, Wellformed, Pushed
<1>3. CASE First # None
  <2> DEFINE f == First
             e == Applied(engine[f], c, "priority", priority)
  <2>1. /\ f \in Running /\ f \in Files /\ Wellformed(engine[f])
        /\ engine' = [engine EXCEPT ![f] = e]
    BY <1>1, <1>3, FirstRuns DEF Pushed, IInv, EngineInv
  <2>2. /\ Wellformed(e)
        /\ \A d \in Circuits : e.override[d].relay = engine[f].override[d].relay
    BY <2>1, AppliedToOne
  <2> HIDE DEF f, e
  <2>3. EngineInv'
    BY <1>1, <2>1, <2>2 DEF IInv, EngineInv, Wellformed
  <2>4. ToldInv'
    BY <1>1, <2>1, <2>2 DEF IInv, EngineInv, ToldInv
  <2>5. OrderInv'
    BY <1>1 DEF IInv, OrderInv
  <2> QED BY <2>3, <2>4, <2>5 DEF IInv
<1> QED BY <1>2, <1>3

\* A tick takes the overrides over; it does not change them.
LEMMA TickKeeps ==
    ASSUME IInv, NEW f \in Files, NEW s, Tick(f, s)
    PROVE  IInv'
<1>1. /\ f \in Running /\ order' = order /\ Running' = Running /\ told' = told
      /\ engine' = [engine EXCEPT ![f] = Overridden(engine[f])]
  BY DEF Tick, Running
<1>2. Wellformed(engine[f])
  BY <1>1 DEF IInv, EngineInv
<1>3. Wellformed(Overridden(engine[f])) /\ Overridden(engine[f]).override = engine[f].override
  <2> DEFINE e == engine[f]
             r == [c \in Circuits |-> IF e.override[c].relay = None THEN e.relay[c]
                                      ELSE e.override[c].relay]
             p == [c \in Circuits |-> IF e.override[c].priority = None THEN e.priority[c]
                                      ELSE e.override[c].priority]
  <2>1. Overridden(e) = [[e EXCEPT !.relay = r] EXCEPT !.priority = p]
    BY DEF Overridden
  <2>2. e = [template |-> e.template, relay |-> e.relay, priority |-> e.priority,
             override |-> e.override]
    BY <1>2 DEF Wellformed
  <2> HIDE DEF e, r, p
  <2>3. Overridden(e) = [template |-> e.template, relay |-> r, priority |-> p,
                         override |-> e.override]
    BY <2>1, <2>2
  <2>4. e.override \in [Circuits -> Overrides]
    BY <1>2 DEF Wellformed, e
  <2>5. Wellformed(Overridden(e)) /\ Overridden(e).override = e.override
    BY <2>3, <2>4 DEF Wellformed
  <2> QED BY <2>5 DEF e
<1>4. EngineInv'
  BY <1>1, <1>3 DEF IInv, EngineInv, Wellformed
<1>5. ToldInv'
  BY <1>1, <1>3 DEF IInv, EngineInv, ToldInv
<1>6. OrderInv'
  BY <1>1 DEF IInv, OrderInv
<1> QED BY <1>4, <1>5, <1>6 DEF IInv

LEMMA IInvInit == Init => IInv
<1> SUFFICES ASSUME Init PROVE IInv
  OBVIOUS
<1>1. order = <<>> /\ Running = {}
  BY DEF Init, Running
<1> QED BY <1>1 DEF Init, IInv, OrderInv, EngineInv, ToldInv

LEMMA IInvStep == IInv /\ [Next]_vars => IInv'
<1> SUFFICES ASSUME IInv, [Next]_vars PROVE IInv'
  OBVIOUS
<1>1. CASE UNCHANGED <<order, engine, told>>
  BY <1>1 DEF IInv, OrderInv, EngineInv, ToldInv, Running, Wellformed
<1>2. ASSUME NEW f \in Files, StartPanel(f) \/ ReloadPanel(f) \/ StopPanel(f)
      PROVE  IInv'
  BY <1>2, StartKeeps, ReloadKeeps, StopKeeps
<1>3. ASSUME NEW f \in Files, OpenFile(f) \/ Model(f)
      PROVE  IInv'
  BY <1>3, <1>1 DEF OpenFile, Model
<1>4. ASSUME NEW f \in Files, NEW s \in TickSlots, Tick(f, s)
      PROVE  IInv'
  BY <1>4, TickKeeps
<1>5. ASSUME NEW c \in Circuits, NEW r \in Relays, SetRelay(c, r)
      PROVE  IInv'
  BY <1>5, SetRelayKeeps
<1>6. ASSUME NEW c \in Circuits, NEW w \in Typicals, NEW p \in Priorities, NEW l \in BOOLEAN,
             PutEntity(c, Whole(w), p, l)
      PROVE  IInv'
  BY <1>6, PutEntityKeeps
<1>7. ASSUME NEW c \in Circuits, LeaveReplay(c) \/ \E shape \in Drawn : PutProfile(c, shape)
      PROVE  IInv'
  BY <1>7, <1>1 DEF LeaveReplay, PutProfile, Persist
<1>8. CASE Save \/ ImportProfiles
  BY <1>8, <1>1 DEF Save, ImportProfiles, Persist
<1>9. CASE UNCHANGED vars
  BY <1>9, <1>1 DEF vars
<1> QED BY <1>2, <1>3, <1>4, <1>5, <1>6, <1>7, <1>8, <1>9 DEF Next

\* A tick drives what the commands of its panel say.
LEMMA TickObeys ==
    ASSUME IInv, NEW f \in Files, NEW s, Tick(f, s), NEW c \in Circuits, told[f][c] # None
    PROVE  tick'.power[c] = IF told[f][c] = "OPEN" THEN Zero
                            ELSE Power(engine[f].template[c], Recorded[c], s, FALSE)
<1>1. f \in Running /\ engine'[f] = Overridden(engine[f])
  BY DEF Tick, IInv, EngineInv
<1>2. Wellformed(engine[f]) /\ engine[f].override[c].relay = told[f][c] /\ told[f][c] \in Relays
  BY <1>1 DEF IInv, EngineInv, ToldInv
<1>3. engine'[f].relay[c] = told[f][c] /\ engine'[f].template = engine[f].template
  BY <1>1, <1>2 DEF Overridden, Wellformed
<1>4. tick'.power[c] = Drawing(engine'[f], c, s)
  BY DEF Tick
<1> QED BY <1>2, <1>3, <1>4 DEF Drawing, Relays

------------------------------------------------------------------------
LEMMA IInvAlways == Spec => []IInv
BY IInvInit, IInvStep, PTL DEF Spec

LEMMA StepHolds ==
    IInv /\ [Next]_vars =>
        [tick' # tick /\ tick'.file # None =>
            \A c \in Circuits : told[tick'.file][c] # None =>
               tick'.power[c] = IF told[tick'.file][c] = "OPEN" THEN Zero
                                ELSE Power(engine[tick'.file].template[c], Recorded[c],
                                           tick'.slot, FALSE)]_vars
<1> SUFFICES ASSUME IInv, Next, tick' # tick, tick'.file # None,
                    NEW c \in Circuits, told[tick'.file][c] # None
             PROVE  tick'.power[c] = IF told[tick'.file][c] = "OPEN" THEN Zero
                                     ELSE Power(engine[tick'.file].template[c], Recorded[c],
                                                tick'.slot, FALSE)
  OBVIOUS
<1>1. PICK f \in Files, s \in TickSlots : Tick(f, s)
  <2>1. ASSUME NEW f \in Files, StartPanel(f) \/ ReloadPanel(f) \/ StopPanel(f)
        PROVE  FALSE
    <3>1. tick' = NoTick \/ tick' = tick
      BY <2>1 DEF StartPanel, ReloadPanel, StopPanel, Anew
    <3> QED BY <3>1 DEF NoTick
  <2>2. ASSUME NEW f \in Files, OpenFile(f) \/ Model(f)
        PROVE  FALSE
    BY <2>2 DEF OpenFile, Model
  <2>3. ASSUME NEW d \in Circuits, \/ \E r \in Relays : SetRelay(d, r)
                                   \/ \E w \in Typicals, p \in Priorities, l \in BOOLEAN :
                                        PutEntity(d, Whole(w), p, l)
                                   \/ \E shape \in Drawn : PutProfile(d, shape)
                                   \/ LeaveReplay(d)
        PROVE  FALSE
    BY <2>3 DEF SetRelay, PutEntity, PutProfile, LeaveReplay, Persist
  <2>4. ASSUME Save \/ ImportProfiles
        PROVE  FALSE
    BY <2>4 DEF Save, ImportProfiles, Persist
  <2> QED BY <2>1, <2>2, <2>3, <2>4 DEF Next
<1>2. tick'.file = f /\ tick'.slot = s
  BY <1>1 DEF Tick
<1> QED BY <1>1, <1>2, TickObeys

\* A relay command holds until another or a restart, for every set of panels and
\* circuits, whatever else is laid over the circuit and whatever is edited.
THEOREM CommandsHold == Spec => RelayHolds
BY IInvAlways, StepHolds, PTL DEF Spec, RelayHolds
------------------------------------------------------------------------
\* What a tick drove and what the what-if model showed.  Neither is computed again
\* when the panel takes an override or the editor a file, so both must go on holding
\* of the engine as it is now: its templates stay what they were until it is built
\* anew, and a relay nobody commanded stays closed.

\* The answer of the what-if model for a panel.
Answer(f, e) ==
    LET before == Series(e, Baseline(e), TRUE)
    IN  [file |-> f, before |-> before, after |-> Series(e, Circuits, FALSE),
         site |-> Site(e, before)]

\* A relay that no command was given for is as it was built.
RestInv ==
    \A f \in Running, c \in Circuits : told[f][c] = None =>
        engine[f].override[c].relay = None /\ engine[f].relay[c] = "CLOSED"

\* What was driven of a circuit without a command is what its template draws.
TickInv ==
    tick.file # None =>
        /\ tick.file \in Running /\ tick.slot \in TickSlots
        /\ \A c \in Circuits : told[tick.file][c] = None =>
              tick.power[c] = Power(engine[tick.file].template[c], Recorded[c], tick.slot, FALSE)

\* The report is the answer the model would give of the panel now.
ReportInv ==
    report.file # None =>
        report.file \in Running /\ report = Answer(report.file, engine[report.file])

\* What a step leaves of a panel that runs on.
Kept(f) ==
    /\ engine'[f].template = engine[f].template
    /\ \A c \in Circuits : told'[f][c] = None =>
          /\ told[f][c] = None
          /\ engine'[f].override[c].relay = engine[f].override[c].relay
          /\ engine[f].override[c].relay = None => engine'[f].relay[c] = engine[f].relay[c]

\* Nothing is left that was read of a panel.
Unread(f) == tick'.file # f /\ report'.file # f

LEMMA SeriesAt ==
    ASSUME NEW e, NEW members, NEW c \in members, NEW s \in Slots
    PROVE  /\ Series(e, members, TRUE)[c][s] = Power(e.template[c], Recorded[c], s, TRUE)
           /\ Series(e, members, FALSE)[c][s] = Power(e.template[c], Recorded[c], s, FALSE)
BY DEF Series

LEMMA AnswerOfTemplates ==
    ASSUME NEW f, NEW e, NEW d, e.template = d.template
    PROVE  Answer(f, e) = Answer(f, d)
<1> DEFINE series(t, members, baseline) ==
              [c \in members |-> [s \in Slots |-> Power(t[c], Recorded[c], s, baseline)]]
           before(t) == series(t, {c \in Circuits : t[c].entity}, TRUE)
           total(t, mode, s) == Sum({c \in DOMAIN before(t) : t[c].mode = mode},
                                    LAMBDA c : before(t)[c][s])
           A(t) == [file |-> f, before |-> before(t), after |-> series(t, Circuits, FALSE),
                    site |-> [s \in Slots |-> GridPower(total(t, "consumer", s),
                                                        total(t, "producer", s))]]
<1>1. Answer(f, e) = A(e.template) /\ Answer(f, d) = A(d.template)
  BY Zenon DEF Answer, Series, Site, Baseline
<1> HIDE DEF A
<1> QED BY <1>1

\* A panel that starts, restarts or stops has nothing left that was read of it.
LEMMA AnewUnreads ==
    ASSUME NEW f \in Files, NEW new, NEW places, Anew(f, new, places)
    PROVE  Unread(f)
BY LiveAssumption DEF Anew, Unread, NoTick, NoReport

\* The other panels are kept as they are.
LEMMA AnewKeepsOthers ==
    ASSUME IInv, NEW f \in Files, NEW new, NEW places, Anew(f, new, places),
           NEW g \in Files, g # f
    PROVE  Kept(g)
<1>1. engine'[g] = engine[g] /\ told'[g] = told[g]
  BY DEF Anew, IInv, EngineInv, ToldInv
<1> QED BY <1>1 DEF Kept

\* A step keeps a panel, or starts it anew.
LEMMA KeptOrBuilt ==
    ASSUME IInv, Next, NEW f \in Running'
    PROVE  \/ f \in Running /\ Kept(f)
           \/ Unread(f) /\ engine'[f] = Built(saved[f])
<1> USE DEF IInv
<1>1. CASE UNCHANGED <<order, engine, told>>
  BY <1>1 DEF Running, Kept
<1>2. ASSUME NEW g \in Files, NEW places, Anew(g, Built(saved[g]), places),
             Up(places) \subseteq Running \cup {g}
      PROVE  \/ f \in Running /\ Kept(f)
             \/ Unread(f) /\ engine'[f] = Built(saved[f])
  <2>1. Running' = Up(places) /\ engine' = [engine EXCEPT ![g] = Built(saved[g])]
    BY <1>2 DEF Anew, Running, Up
  <2>2. CASE f = g
    <3>1. engine'[f] = Built(saved[g])
      BY <2>1, <2>2 DEF EngineInv
    <3>2. Unread(f)
      BY <1>2, <2>2, AnewUnreads
    <3> QED BY <2>2, <3>1, <3>2
  <2>3. CASE f # g
    BY <1>2, <2>1, <2>3, RunningAreFiles, AnewKeepsOthers
  <2> QED BY <2>2, <2>3
<1>3. ASSUME NEW g \in Files, StartPanel(g)
      PROVE  \/ f \in Running /\ Kept(f)
             \/ Unread(f) /\ engine'[f] = Built(saved[f])
  <2>1. Up(Append(order, g)) \subseteq Running \cup {g}
    BY DEF OrderInv, Up, Running
  <2> QED BY <1>2, <1>3, <2>1 DEF StartPanel
<1>4. ASSUME NEW g \in Files, ReloadPanel(g)
      PROVE  \/ f \in Running /\ Kept(f)
             \/ Unread(f) /\ engine'[f] = Built(saved[f])
  <2> DEFINE others == Without(g)
  <2>1. others \in Seq(Files) /\ Up(others) \subseteq Running
    BY <1>4, OthersStay DEF ReloadPanel, Up
  <2> HIDE DEF others
  <2>2. Up(Append(others, g)) \subseteq Running \cup {g}
    BY <2>1 DEF Up
  <2> QED BY <1>2, <1>4, <2>2 DEF ReloadPanel, others
<1>5. ASSUME NEW g \in Files, StopPanel(g)
      PROVE  f \in Running /\ Kept(f)
  <2>1. g \in Running /\ Anew(g, None, Without(g))
    BY <1>5 DEF StopPanel
  <2>2. Running' = {Without(g)[i] : i \in DOMAIN Without(g)}
    BY <2>1 DEF Anew, Running
  <2>3. f \in Running \ {g}
    BY <2>1, <2>2, OthersStay
  <2> QED BY <2>1, <2>3, RunningAreFiles, AnewKeepsOthers
<1>6. ASSUME NEW g \in Files, NEW s \in TickSlots, Tick(g, s)
      PROVE  f \in Running /\ Kept(f)
  <2>1. f \in Running /\ f \in Files /\ told' = told /\ g \in Running
    BY <1>6, RunningAreFiles DEF Tick, Running
  <2>2. CASE f # g
    BY <2>1, <2>2, <1>6 DEF Tick, Kept, EngineInv
  <2>3. CASE f = g
    <3>1. engine'[f] = Overridden(engine[f]) /\ Wellformed(engine[f])
      BY <2>1, <2>3, <1>6 DEF Tick, EngineInv
    <3>2. /\ engine'[f].template = engine[f].template
          /\ engine'[f].override = engine[f].override
          /\ \A c \in Circuits : engine[f].override[c].relay = None =>
                engine'[f].relay[c] = engine[f].relay[c]
      BY <3>1 DEF Overridden, Wellformed
    <3> QED BY <3>2, <2>1 DEF Kept
  <2> QED BY <2>1, <2>2, <2>3
<1>7. ASSUME NEW c \in Circuits, NEW key \in {"relay", "priority"}, NEW value,
             value \in IF key = "relay" THEN Relays ELSE Priorities,
             Pushed(c, key, value), order' = order, First # None,
             told' = IF key = "relay" THEN [told EXCEPT ![First][c] = value] ELSE told
      PROVE  f \in Running /\ Kept(f)
  <2>1. f \in Running /\ f \in Files /\ First \in Running /\ First \in Files
    BY <1>7, RunningAreFiles, FirstRuns DEF Running
  <2>2. engine' = [engine EXCEPT ![First] = Applied(engine[First], c, key, value)]
    BY <1>7 DEF Pushed
  <2>3. value # None
    BY <1>7, LiveAssumption
  <2>4. CASE f # First
    BY <1>7, <2>1, <2>2, <2>4 DEF Kept, EngineInv, ToldInv
  <2>5. CASE f = First
    <3> DEFINE a == Applied(engine[f], c, key, value)
    <3>1. Wellformed(engine[f]) /\ engine'[f] = a
      BY <2>1, <2>2, <2>5 DEF EngineInv
    <3>2. a.template = engine[f].template /\ a.relay = engine[f].relay
      BY <3>1 DEF Applied, Wellformed
    <3>3. \A d \in Circuits : a.override[d].relay =
             IF d = c /\ key = "relay" THEN value ELSE engine[f].override[d].relay
      BY <3>1, <1>7, AppliedToOne
    <3> HIDE DEF a
    <3>4. \A d \in Circuits : told'[f][d] =
             IF d = c /\ key = "relay" THEN value ELSE told[f][d]
      BY <1>7, <2>1, <2>5 DEF ToldInv
    <3> QED BY <2>1, <3>1, <3>2, <3>3, <3>4, <2>3 DEF Kept
  <2> QED BY <2>1, <2>4, <2>5
<1>8. ASSUME NEW c \in Circuits, NEW r \in Relays, SetRelay(c, r)
      PROVE  f \in Running /\ Kept(f)
  <2>1. CASE First = None
    BY <1>1, <1>8, <2>1 DEF SetRelay, Pushed, Running, Kept
  <2>2. CASE First # None
    <3>1. /\ Pushed(c, "relay", r) /\ order' = order
          /\ told' = [told EXCEPT ![First][c] = r]
      BY <1>8, <2>2 DEF SetRelay
    <3> QED BY <3>1, <2>2, <1>7
  <2> QED BY <2>1, <2>2
<1>9. ASSUME NEW c \in Circuits, NEW w, NEW p \in Priorities, NEW l, PutEntity(c, w, p, l)
      PROVE  f \in Running /\ Kept(f)
  <2>1. Pushed(c, "priority", p) /\ order' = order /\ told' = told
    BY <1>9 DEF PutEntity, Persist
  <2>2. CASE First = None
    BY <2>1, <2>2 DEF Pushed, Running, Kept
  <2>3. CASE First # None
    BY <2>1, <2>3, <1>7
  <2> QED BY <2>2, <2>3
<1>10. ASSUME \/ \E g \in Files : OpenFile(g) \/ Model(g)
              \/ \E c \in Circuits : LeaveReplay(c) \/ \E shape \in Drawn : PutProfile(c, shape)
              \/ Save \/ ImportProfiles
       PROVE  UNCHANGED <<order, engine, told>>
  BY <1>10 DEF OpenFile, Model, LeaveReplay, PutProfile, Save, ImportProfiles, Persist
<1> QED BY <1>1, <1>3, <1>4, <1>5, <1>6, <1>8, <1>9, <1>10 DEF Next

\* Only four kinds of step touch the order, the last tick or the report.
LEMMA StepKinds ==
    ASSUME Next
    PROVE  \/ \E f \in Files : StartPanel(f) \/ ReloadPanel(f) \/ StopPanel(f) \/ Model(f)
           \/ \E f \in Files, s \in TickSlots : Tick(f, s)
           \/ order' = order /\ tick' = tick /\ report' = report
<1>1. ASSUME NEW f \in Files, OpenFile(f)
      PROVE  order' = order /\ tick' = tick /\ report' = report
  BY <1>1 DEF OpenFile
<1>2. ASSUME NEW c \in Circuits, \/ \E r \in Relays : SetRelay(c, r)
                                 \/ \E w \in Typicals, p \in Priorities, l \in BOOLEAN :
                                      PutEntity(c, Whole(w), p, l)
                                 \/ \E shape \in Drawn : PutProfile(c, shape)
                                 \/ LeaveReplay(c)
      PROVE  order' = order /\ tick' = tick /\ report' = report
  BY <1>2 DEF SetRelay, PutEntity, PutProfile, LeaveReplay, Persist
<1>3. ASSUME Save \/ ImportProfiles
      PROVE  order' = order /\ tick' = tick /\ report' = report
  BY <1>3 DEF Save, ImportProfiles, Persist
<1> QED BY <1>1, <1>2, <1>3 DEF Next

\* A step that ends a panel leaves nothing of it.
LEMMA EndedIsUnread ==
    ASSUME IInv, Next, NEW f \in Running, f \notin Running'
    PROVE  Unread(f)
<1> USE DEF IInv
<1>1. f \in Files
  BY RunningAreFiles
<1>2. order' # order
  BY DEF Running
<1>3. PICK g \in Files : StartPanel(g) \/ ReloadPanel(g) \/ StopPanel(g)
  BY <1>2, StepKinds DEF Model, Tick
<1>4. CASE g = f
  BY <1>3, <1>4, AnewUnreads DEF StartPanel, ReloadPanel, StopPanel
<1>5. CASE g # f
  <2>1. CASE StartPanel(g)
    <3>1. order' = Append(order, g) /\ order \in Seq(Files)
      BY <2>1 DEF StartPanel, Anew, OrderInv
    <3> QED BY <3>1 DEF Running
  <2>2. CASE ReloadPanel(g)
    <3> DEFINE others == Without(g)
    <3>1. /\ others \in Seq(Files) /\ order' = Append(others, g)
          /\ f \in Up(others)
      BY <2>2, <1>5, OthersStay DEF ReloadPanel, Anew, Up
    <3> HIDE DEF others
    <3> QED BY <3>1 DEF Running, Up
  <2>3. CASE StopPanel(g)
    <3>1. order' = Without(g) /\ Running \ {g} \subseteq Up(Without(g))
      BY <2>3, OthersStay DEF StopPanel, Anew, Up
    <3> QED BY <3>1, <1>5 DEF Running, Up
  <2> QED BY <1>3, <2>1, <2>2, <2>3
<1> QED BY <1>4, <1>5

LEMMA RestStep ==
    ASSUME IInv, RestInv, Next
    PROVE  RestInv'
<1> SUFFICES ASSUME NEW f \in Running', NEW c \in Circuits, told'[f][c] = None
             PROVE  engine'[f].override[c].relay = None /\ engine'[f].relay[c] = "CLOSED"
  BY DEF RestInv
<1>1. CASE f \in Running /\ Kept(f)
  BY <1>1 DEF Kept, RestInv
<1>2. CASE engine'[f] = Built(saved[f])
  BY <1>2 DEF Built, NoOverride
<1> QED BY <1>1, <1>2, KeptOrBuilt

\* A tick drives what the template of a circuit without a command draws.
LEMMA TickDraws ==
    ASSUME IInv, RestInv, NEW f \in Files, NEW s \in TickSlots, Tick(f, s),
           NEW c \in Circuits, told'[f][c] = None
    PROVE  tick'.power[c] = Power(engine'[f].template[c], Recorded[c], s, FALSE)
<1>1. f \in Running /\ engine'[f] = Overridden(engine[f]) /\ Wellformed(engine[f])
  BY DEF Tick, IInv, EngineInv
<1>2. told[f][c] = None
  BY DEF Tick
<1>3. engine[f].override[c].relay = None /\ engine[f].relay[c] = "CLOSED"
  BY <1>1, <1>2 DEF RestInv
<1>4. engine'[f].relay[c] = "CLOSED"
  BY <1>1, <1>3 DEF Overridden, Wellformed
<1>5. tick'.power[c] = Drawing(engine'[f], c, s)
  BY DEF Tick
<1> QED BY <1>4, <1>5 DEF Drawing

\* A step ticks, or leaves the last tick, or forgets it.
LEMMA TickChanges ==
    ASSUME Next, tick' # tick, tick'.file # None
    PROVE  \E f \in Files, s \in TickSlots : Tick(f, s)
<1>1. ASSUME NEW f \in Files, StartPanel(f) \/ ReloadPanel(f) \/ StopPanel(f)
      PROVE  FALSE
  <2>1. tick' = NoTick \/ tick' = tick
    BY <1>1 DEF StartPanel, ReloadPanel, StopPanel, Anew
  <2> QED BY <2>1 DEF NoTick
<1>2. ASSUME NEW f \in Files, Model(f)
      PROVE  FALSE
  BY <1>2 DEF Model
<1> QED BY <1>1, <1>2, StepKinds

LEMMA ReportChanges ==
    ASSUME Next, report' # report, report'.file # None
    PROVE  \E f \in Files : Model(f)
BY StepKinds DEF StartPanel, ReloadPanel, StopPanel, Anew, NoReport, Tick

LEMMA TickStep ==
    ASSUME IInv, RestInv, TickInv, Next
    PROVE  TickInv'
<1> SUFFICES ASSUME tick'.file # None PROVE TickInv'
  BY DEF TickInv
<1>1. CASE tick' # tick
  <2>1. PICK f \in Files, s \in TickSlots : Tick(f, s)
    BY <1>1, TickChanges
  <2>2. tick'.file = f /\ tick'.slot = s /\ f \in Running'
    BY <2>1 DEF Tick, Running
  <2> QED BY <2>1, <2>2, TickDraws DEF TickInv
<1>2. CASE tick' = tick
  <2> DEFINE f == tick.file
  <2>1. f \in Running /\ ~Unread(f)
    BY <1>2 DEF TickInv, Unread
  <2>2. f \in Running'
    BY <2>1, EndedIsUnread
  <2>3. Kept(f)
    BY <2>1, <2>2, KeptOrBuilt
  <2> QED BY <1>2, <2>2, <2>3 DEF TickInv, Kept
<1> QED BY <1>1, <1>2

LEMMA ReportStep ==
    ASSUME IInv, ReportInv, Next
    PROVE  ReportInv'
<1> SUFFICES ASSUME report'.file # None PROVE ReportInv'
  BY DEF ReportInv
<1>1. CASE report' # report
  <2>1. PICK f \in Files : Model(f)
    BY <1>1, ReportChanges
  <2>2. report' = Answer(f, engine[f]) /\ report'.file = f
    BY <2>1 DEF Model, Answer
  <2>3. f \in Running' /\ engine' = engine
    BY <2>1 DEF Model, Running
  <2> QED BY <2>2, <2>3 DEF ReportInv
<1>2. CASE report' = report
  <2> DEFINE f == report.file
  <2>1. f \in Running /\ ~Unread(f) /\ report = Answer(f, engine[f])
    BY <1>2 DEF ReportInv, Unread
  <2>2. f \in Running'
    BY <2>1, EndedIsUnread
  <2>3. Kept(f)
    BY <2>1, <2>2, KeptOrBuilt
  <2>4. Answer(f, engine[f]) = Answer(f, engine'[f])
    BY <2>3, AnswerOfTemplates DEF Kept
  <2> QED BY <1>2, <2>1, <2>2, <2>4 DEF ReportInv
<1> QED BY <1>1, <1>2

ShownInv == RestInv /\ TickInv /\ ReportInv

LEMMA ShownHolds == Spec => [](IInv /\ ShownInv)
<1>1. Init => ShownInv
  BY DEF Init, ShownInv, RestInv, TickInv, ReportInv, Running, NoTick, NoReport
<1>2. IInv /\ ShownInv /\ [Next]_vars => ShownInv'
  <2> SUFFICES ASSUME IInv, ShownInv, [Next]_vars PROVE ShownInv'
    OBVIOUS
  <2>1. CASE Next
    BY <2>1, RestStep, TickStep, ReportStep DEF ShownInv
  <2>2. CASE UNCHANGED vars
    <3>1. /\ Running' = Running /\ engine' = engine /\ told' = told
          /\ tick' = tick /\ report' = report
      BY <2>2 DEF vars, Running
    <3>2. RestInv' /\ TickInv'
      BY <3>1 DEF ShownInv, RestInv, TickInv
    <3>3. ReportInv'
      BY <3>1 DEF ShownInv, ReportInv
    <3> QED BY <3>2, <3>3 DEF ShownInv
  <2> QED BY <2>1, <2>2
<1> QED BY <1>1, <1>2, IInvAlways, PTL DEF Spec

\* A tick of a panel drives what the After series of the same panel shows, but for a
\* circuit whose relay was commanded, however the two and the edits interleave.
THEOREM TicksAreAsModelled == Spec => []AfterIsWhatRuns
<1>1. IInv /\ ShownInv => AfterIsWhatRuns
  <2> SUFFICES ASSUME IInv, ShownInv, tick.file # None, tick.file = report.file,
                      NEW c \in Circuits, told[tick.file][c] = None
               PROVE  tick.power[c] = report.after[c][tick.slot]
    BY DEF AfterIsWhatRuns
  <2> DEFINE e == engine[report.file]
  <2>1. report = Answer(report.file, e)
    BY DEF ShownInv, ReportInv
  <2>2. report.after = Series(e, Circuits, FALSE)
    <3>1. Answer(report.file, e).after = Series(e, Circuits, FALSE)
      BY DEF Answer
    <3> QED BY <2>1, <3>1
  <2>3. tick.slot \in Slots
    BY LiveAssumption DEF ShownInv, TickInv
  <2>4. report.after[c][tick.slot] = Power(e.template[c], Recorded[c], tick.slot, FALSE)
    <3> HIDE DEF e
    <3>1. Series(e, Circuits, FALSE)[c][tick.slot] = Power(e.template[c], Recorded[c], tick.slot, FALSE)
      BY <2>3, SeriesAt
    <3> QED BY <2>2, <3>1
  <2> QED BY <2>4 DEF ShownInv, TickInv
<1> QED BY <1>1, ShownHolds, PTL

\* The power of some circuits at an hour, of a series and of the recording.
SeriesSum(S, series, s) == Sum(S, LAMBDA c : series[c][s])
RecordedSum(S, s) == Sum(S, LAMBDA c : Whole(Recorded[c][s]))

\* A sum of a series that is the recording is the sum of the recording.
LEMMA SumOfRecording ==
    ASSUME NEW S, NEW series, NEW s, \A c \in S : series[c][s] = Whole(Recorded[c][s])
    PROVE  SeriesSum(S, series, s) = RecordedSum(S, s)
<1> DEFINE next(g, t, w) == IF t = {} THEN Zero
                            ELSE Plus(w, g[t \ {CHOOSE x \in t : TRUE}])
           first(g) == [t \in SUBSET S |-> next(g, t, series[CHOOSE x \in t : TRUE][s])]
           second(g) == [t \in SUBSET S |-> next(g, t, Whole(Recorded[CHOOSE x \in t : TRUE][s]))]
<1>1. SeriesSum(S, series, s) = (CHOOSE g : g = first(g))[S]
  BY DEF SeriesSum, Sum, MapThenFoldSet
<1>2. RecordedSum(S, s) = (CHOOSE g : g = second(g))[S]
  BY DEF RecordedSum, Sum, MapThenFoldSet
<1>3. \A g : first(g) = second(g)
  <2> TAKE g
  <2>1. ASSUME NEW t \in SUBSET S, t # {}
        PROVE  series[CHOOSE x \in t : TRUE][s] = Whole(Recorded[CHOOSE x \in t : TRUE][s])
    BY <2>1
  <2>2. ASSUME NEW t \in SUBSET S
        PROVE  next(g, t, series[CHOOSE x \in t : TRUE][s])
               = next(g, t, Whole(Recorded[CHOOSE x \in t : TRUE][s]))
    BY <2>1, <2>2
  <2> HIDE DEF next
  <2> QED BY <2>2
<1> HIDE DEF first, second
<1>4. (CHOOSE g : g = first(g)) = (CHOOSE g : g = second(g))
  BY <1>3
<1> QED BY <1>1, <1>2, <1>4

\* The Before pass plays the recording of every circuit that has one, and its site
\* counts these circuits only, whatever was edited since the import.
THEOREM BeforeIsRecorded == Spec => []BeforeIsTheRecording
<1>1. ShownInv => BeforeIsTheRecording
  <2> SUFFICES ASSUME ShownInv, report.file # None PROVE BeforeIsTheRecording
    BY DEF BeforeIsTheRecording
  <2> DEFINE e == engine[report.file]
             backed == Baseline(e)
             before == Series(e, backed, TRUE)
             sum(mode, s) == Sum({c \in backed : e.template[c].mode = mode},
                                 LAMBDA c : before[c][s])
             watts(mode, s) == Sum({c \in backed : e.template[c].mode = mode},
                                   LAMBDA c : Whole(Recorded[c][s]))
  <2>1. report.before = before /\ report.site = Site(e, before)
    <3>1. report = Answer(report.file, e)
      BY DEF ShownInv, ReportInv
    <3>2. Answer(report.file, e).before = before /\ Answer(report.file, e).site = Site(e, before)
      BY DEF Answer
    <3> QED BY <3>1, <3>2
  <2>2. ASSUME NEW s \in Slots, NEW c \in backed, Recorded[c][s] # None
        PROVE  before[c][s] = Whole(Recorded[c][s])
    <3>1. e.template[c].entity
      BY DEF Baseline
    <3> HIDE DEF e, backed
    <3>2. before[c][s] = Power(e.template[c], Recorded[c], s, TRUE)
      BY SeriesAt
    <3> QED BY <2>2, <3>1, <3>2 DEF Power
  <2>3. ASSUME NEW s \in Slots PROVE Site(e, before)[s] = GridPower(sum("consumer", s), sum("producer", s))
    <3>1. DOMAIN before = backed
      BY DEF Series
    <3> QED BY <3>1 DEF Site
  <2>4. ASSUME NEW s \in Slots, \A c \in backed : Recorded[c][s] # None, NEW mode
        PROVE  sum(mode, s) = watts(mode, s)
    <3> DEFINE S == {c \in backed : e.template[c].mode = mode}
    <3>1. \A c \in S : before[c][s] = Whole(Recorded[c][s])
      BY <2>2, <2>4
    <3> HIDE DEF S, before, e, backed
    <3>2. SeriesSum(S, before, s) = RecordedSum(S, s)
      BY <3>1, SumOfRecording
    <3> QED BY <3>2 DEF S, SeriesSum, RecordedSum
  <2>5. backed = {c \in Circuits : e.template[c].entity}
    BY DEF Baseline
  <2> HIDE DEF before, sum
  <2> QED BY <2>1, <2>2, <2>3, <2>4, <2>5 DEF BeforeIsTheRecording
<1> QED BY <1>1, ShownHolds, PTL

------------------------------------------------------------------------
\* Divisors

\* The least of some naturals.
LEMMA LeastIsOne ==
    ASSUME NEW S, S \subseteq Nat, S # {}
    PROVE  \E n \in S : \A m \in S : n <= m
<1> DEFINE Less == OpToRel(<, Nat)
<1>1. PICK n \in S : \A m \in S : ~ (<<m, n>> \in Less)
  <2>1. IsWellFoundedOn(Less, Nat)
    BY NatLessThanWellFounded
  <2> HIDE DEF Less
  <2> QED BY <2>1, WFMin, Zenon
<1>2. ASSUME NEW m \in S PROVE n <= m
  <2>1. n \in Nat /\ m \in Nat
    OBVIOUS
  <2>2. m < n => <<m, n>> \in Less
    BY <2>1 DEF OpToRel
  <2> HIDE DEF Less
  <2>3. ~ (m < n)
    BY <1>1, <2>2
  <2> QED BY <2>1, <2>3
<1> QED BY <1>2

\* Divisors, those of two numbers, and the greatest of them.
Divides(g, a) == \E p \in Nat : a = p * g
Common(a, b) == {g \in Nat \ {0} : Divides(g, a) /\ Divides(g, b)}
Top(S) == CHOOSE g \in S : \A h \in S : h <= g
Greatest(a, b) == IF a = 0 /\ b = 0 THEN 0 ELSE Top(Common(a, b))

LEMMA CommonOfRest ==
    ASSUME NEW a \in Nat, NEW b \in Nat \ {0}
    PROVE  Common(a, b) = Common(b, a % b)
<1> DEFINE k == a \div b
           r == a % b
<1>1. k \in Nat /\ r \in Nat /\ a = k * b + r
  OBVIOUS
<1> HIDE DEF k, r
<1>2. ASSUME NEW g \in Nat \ {0}, NEW p \in Nat, NEW q \in Nat, a = p * g, b = q * g
      PROVE  Divides(g, r)
  <2>1. r = (p - k * q) * g
    <3>1. r = p * g - k * (q * g)
      BY <1>1, <1>2
    <3> QED BY <3>1, <1>1
  <2>2. p - k * q \in Nat
    <3>1. p - k * q \in Int
      BY <1>1
    <3>2. p - k * q < 0 => (p - k * q) * g < 0
      BY <3>1
    <3> QED BY <1>1, <2>1, <3>1, <3>2
  <2> QED BY <2>1, <2>2 DEF Divides
<1>3. ASSUME NEW g \in Nat \ {0}, NEW q \in Nat, NEW s \in Nat, b = q * g, r = s * g
      PROVE  Divides(g, a)
  <2>1. a = (k * q + s) * g
    <3>1. a = k * (q * g) + s * g
      BY <1>1, <1>3
    <3> QED BY <3>1, <1>1
  <2>2. k * q + s \in Nat
    BY <1>1
  <2> QED BY <2>1, <2>2 DEF Divides
<1>4. Common(a, b) = Common(b, r)
  <2>1. ASSUME NEW g \in Nat \ {0}
        PROVE  Divides(g, a) /\ Divides(g, b) <=> Divides(g, b) /\ Divides(g, r)
    BY <1>2, <1>3 DEF Divides
  <2> QED BY <2>1 DEF Common
<1> QED BY <1>4 DEF r

LEMMA GreatestOfZero ==
    ASSUME NEW a \in Nat
    PROVE  Greatest(a, 0) = a
<1>1. CASE a # 0
  <2>1. a \in Common(a, 0)
    <3>1. a = 1 * a /\ 0 = 0 * a
      OBVIOUS
    <3> QED BY <1>1, <3>1 DEF Common, Divides
  <2>2. ASSUME NEW h \in Common(a, 0) PROVE h <= a
    <3>1. PICK p \in Nat : a = p * h
      BY DEF Common, Divides
    <3>2. h \in Nat /\ p # 0
      BY <1>1, <3>1 DEF Common
    <3>3. p * h = h + (p - 1) * h /\ (p - 1) * h \in Nat
      BY <3>2
    <3> QED BY <3>1, <3>2, <3>3
  <2>3. \A g \in Common(a, 0) : (\A h \in Common(a, 0) : h <= g) => g = a
    <3>1. Common(a, 0) \subseteq Nat
      BY DEF Common
    <3> QED BY <2>1, <2>2, <3>1
  <2> QED BY <1>1, <2>1, <2>2, <2>3 DEF Greatest, Top
<1> QED BY <1>1 DEF Greatest

\* Gcd is what its recursion says, since the greatest common divisor is.
LEMMA GcdStep ==
    ASSUME NEW a \in Nat, NEW b \in Nat
    PROVE  Gcd[<<a, b>>] = IF b = 0 THEN a ELSE Gcd[<<b, (a % b)>>]
<1> DEFINE Pairs == Nat \X Nat
           step(g) == [p \in Pairs |-> IF p[2] = 0 THEN p[1] ELSE g[<<p[2], (p[1] % p[2])>>]]
           great == [p \in Pairs |-> Greatest(p[1], p[2])]
<1>1. ASSUME NEW p \in Pairs
      PROVE  Greatest(p[1], p[2]) = IF p[2] = 0 THEN p[1] ELSE great[<<p[2], (p[1] % p[2])>>]
  <2> DEFINE x == p[1]
             y == p[2]
             r == x % y
  <2>1. x \in Nat /\ y \in Nat
    OBVIOUS
  <2>2. CASE y = 0
    <3> HIDE DEF x
    <3>1. Greatest(x, y) = x
      BY <2>1, <2>2, GreatestOfZero
    <3> QED BY <3>1, <2>2 DEF x
  <2>3. CASE y # 0
    <3>1. r \in Nat
      BY <2>1, <2>3
    <3>2. great[<<y, r>>] = Greatest(y, r)
      <4> HIDE DEF x, y, r
      <4>1. <<y, r>> \in Pairs /\ <<y, r>>[1] = y /\ <<y, r>>[2] = r
        BY <2>1, <3>1
      <4> QED BY <4>1
    <3>3. Common(x, y) = Common(y, r)
      <4> HIDE DEF x, y
      <4> QED BY <2>1, <2>3, CommonOfRest DEF r
    <3>4. Greatest(x, y) = Greatest(y, r)
      <4> HIDE DEF x, y, r
      <4> QED BY <2>3, <3>3, Zenon DEF Greatest
    <3> QED BY <2>3, <3>2, <3>4
  <2> QED BY <2>2, <2>3
<1>2. great = step(great)
  <2> HIDE DEF Pairs
  <2> QED BY <1>1
<1>3. Gcd = CHOOSE g : g = step(g)
  BY DEF Gcd
<1>4. Gcd = step(Gcd)
  <2> HIDE DEF step, great
  <2> QED BY <1>2, <1>3
<1>5. <<a, b>> \in Pairs /\ <<a, b>>[1] = a /\ <<a, b>>[2] = b
  OBVIOUS
<1>6. Gcd[<<a, b>>] = step(Gcd)[<<a, b>>]
  <2> HIDE DEF step
  <2> QED BY <1>4
<1> QED BY <1>5, <1>6

\* A remainder is the one below the divisor.
LEMMA RemainderIs ==
    ASSUME NEW x \in Int, NEW m \in Nat \ {0}, NEW q \in Int, NEW r \in 0 .. m - 1, x = q * m + r
    PROVE  (x % m) = r
<1> DEFINE k == x \div m
           t == x % m
<1>1. k \in Int /\ t \in 0 .. m - 1 /\ x = k * m + t
  OBVIOUS
<1> HIDE DEF k, t
<1>2. (k - q) * m = r - t
  BY <1>1
<1>3. k - q >= 1 => (k - q) * m >= m
  BY <1>1
<1>4. k - q <= -1 => (k - q) * m <= -m
  BY <1>1
<1>5. k - q = 0
  BY <1>1, <1>2, <1>3, <1>4
<1>6. t = r
  BY <1>1, <1>2, <1>5
<1> QED BY <1>6 DEF t

LEMMA ScaledRemainder ==
    ASSUME NEW a \in Nat, NEW b \in Nat \ {0}, NEW k \in Nat \ {0}
    PROVE  ((k * a) % (k * b)) = k * (a % b)
<1> DEFINE q == a \div b
           r == a % b
<1>1. q \in Nat /\ r \in 0 .. b - 1 /\ a = q * b + r
  OBVIOUS
<1> HIDE DEF q, r
<1>2. k * a = q * (k * b) + k * r
  BY <1>1
<1>3. k * b \in Nat \ {0} /\ k * a \in Nat /\ k * r \in Nat
  BY <1>1
<1>4. k * r < k * b
  BY <1>1
<1>5. ((k * a) % (k * b)) = k * r
  <2> DEFINE x == k * a
             m == k * b
             t == k * r
  <2>1. x \in Int /\ m \in Nat \ {0} /\ q \in Int /\ t \in 0 .. m - 1 /\ x = q * m + t
    BY <1>1, <1>2, <1>3, <1>4
  <2> HIDE DEF x, m, t
  <2>2. (x % m) = t
    BY <2>1, RemainderIs
  <2> QED BY <2>2 DEF x, m, t
<1> QED BY <1>5 DEF r

\* What a fraction is put in lowest terms by.
Fine(a, b) ==
    LET g == Gcd[<<a, b>>]
    IN  /\ g \in Nat /\ (a # 0 \/ b # 0 => g # 0)
        /\ Divides(g, a) /\ Divides(g, b)
        /\ \A k \in Nat \ {0} : Gcd[<<k * a, k * b>>] = k * g

LEMMA GcdIsFine ==
    ASSUME NEW a \in Nat, NEW b \in Nat
    PROVE  Fine(a, b)
<1> DEFINE Bad == {y \in Nat : \E x \in Nat : ~Fine(x, y)}
<1>1. ASSUME NEW x \in Nat PROVE Fine(x, 0)
  <2>1. Gcd[<<x, 0>>] = x
    BY GcdStep
  <2>2. \A k \in Nat \ {0} : Gcd[<<k * x, k * 0>>] = k * x
    <3> TAKE k \in Nat \ {0}
    <3>1. k * x \in Nat /\ k * 0 = 0
      OBVIOUS
    <3> QED BY <3>1, GcdStep
  <2>3. x = 1 * x /\ 0 = 0 * x
    OBVIOUS
  <2> QED BY <2>1, <2>2, <2>3 DEF Fine, Divides
<1>2. ASSUME NEW x \in Nat, NEW y \in Nat \ {0}, Fine(y, (x % y))
      PROVE  Fine(x, y)
  <2> DEFINE r == x % y
             q == x \div y
             g == Gcd[<<y, r>>]
  <2>1. r \in Nat /\ q \in Nat /\ x = q * y + r
    OBVIOUS
  <2>2. Gcd[<<x, y>>] = g
    BY GcdStep
  <2>3. /\ g \in Nat /\ g # 0 /\ Divides(g, y) /\ Divides(g, r)
        /\ \A k \in Nat \ {0} : Gcd[<<k * y, k * r>>] = k * g
    BY <1>2 DEF Fine
  <2>4. ASSUME NEW k \in Nat \ {0} PROVE Gcd[<<k * x, k * y>>] = k * g
    <3>1. k * x \in Nat /\ k * y \in Nat /\ k * y # 0
      OBVIOUS
    <3>2. ((k * x) % (k * y)) = k * r
      BY ScaledRemainder
    <3>3. Gcd[<<k * x, k * y>>] = Gcd[<<k * y, ((k * x) % (k * y))>>]
      BY <3>1, GcdStep
    <3> HIDE DEF r, g
    <3> QED BY <3>2, <3>3, <2>3
  <2> HIDE DEF r, q, g
  <2>5. Divides(g, x)
    <3>1. PICK u \in Nat, v \in Nat : y = u * g /\ r = v * g
      BY <2>3 DEF Divides
    <3>2. x = (q * u + v) * g
      <4>1. x = q * (u * g) + v * g
        BY <2>1, <3>1
      <4> QED BY <4>1, <2>1, <2>3
    <3>3. q * u + v \in Nat
      BY <2>1
    <3> QED BY <3>2, <3>3 DEF Divides
  <2> QED BY <2>2, <2>3, <2>4, <2>5 DEF Fine
<1>3. Bad = {}
  <2> SUFFICES ASSUME Bad # {} PROVE FALSE
    OBVIOUS
  <2>1. PICK y \in Bad : \A m \in Bad : y <= m
    BY LeastIsOne
  <2>2. PICK x \in Nat : ~Fine(x, y)
    OBVIOUS
  <2>3. y \in Nat /\ y # 0
    BY <1>1, <2>2
  <2>4. (x % y) \in Nat /\ (x % y) < y
    BY <2>3
  <2>5. (x % y) \notin Bad
    BY <2>1, <2>3, <2>4
  <2>6. Fine(y, (x % y))
    BY <2>3, <2>4, <2>5
  <2> QED BY <1>2, <2>2, <2>3, <2>6
<1> QED BY <1>3
------------------------------------------------------------------------
\* Fractions

\* Numerator and denominator; a fraction is what they make in lowest terms.
Terms == Nat \X (Nat \ {0})
Fracs == {Fraction(p[1], p[2]) : p \in Terms}

LEMMA FractionType ==
    ASSUME NEW a \in Nat, NEW b \in Nat \ {0}
    PROVE  Fraction(a, b) \in Fracs
<1>1. <<a, b>> \in Terms /\ <<a, b>>[1] = a /\ <<a, b>>[2] = b
  BY DEF Terms
<1> QED BY <1>1 DEF Fracs

LEMMA FracIs ==
    ASSUME NEW x \in Fracs
    PROVE  \E a \in Nat, b \in Nat \ {0} : x = Fraction(a, b)
BY DEF Fracs, Terms

\* The terms of a fraction are those it is made of, divided by one number.
LEMMA Lowest ==
    ASSUME NEW a \in Nat, NEW b \in Nat \ {0}
    PROVE  LET x == Fraction(a, b)
           IN  /\ x = [n |-> x.n, d |-> x.d] /\ x.n \in Nat /\ x.d \in Nat \ {0}
               /\ \E g \in Nat \ {0} : a = g * x.n /\ b = g * x.d
<1> DEFINE g == Gcd[<<a, b>>]
<1>1. g \in Nat \ {0} /\ Divides(g, a) /\ Divides(g, b)
  BY GcdIsFine DEF Fine
<1>2. PICK u \in Nat, v \in Nat : a = u * g /\ b = v * g
  BY <1>1 DEF Divides
<1>3. Fraction(a, b) = [n |-> a \div g, d |-> b \div g]
  BY DEF Fraction
<1> HIDE DEF g
<1>4. (u * g) \div g = u /\ (v * g) \div g = v
  BY <1>1, <1>2
<1>5. v # 0 /\ a = g * u /\ b = g * v
  BY <1>1, <1>2
<1> QED BY <1>1, <1>2, <1>3, <1>4, <1>5

\* The same fraction in other terms.
LEMMA Expanded ==
    ASSUME NEW a \in Nat, NEW b \in Nat \ {0}, NEW k \in Nat \ {0}
    PROVE  Fraction(k * a, k * b) = Fraction(a, b)
<1> DEFINE g == Gcd[<<a, b>>]
<1>1. g \in Nat \ {0} /\ Divides(g, a) /\ Divides(g, b) /\ Gcd[<<k * a, k * b>>] = k * g
  BY GcdIsFine DEF Fine
<1>2. PICK u \in Nat, v \in Nat : a = u * g /\ b = v * g
  BY <1>1 DEF Divides
<1>3. /\ Fraction(a, b) = [n |-> a \div g, d |-> b \div g]
      /\ Fraction(k * a, k * b) = [n |-> (k * a) \div (k * g), d |-> (k * b) \div (k * g)]
  BY <1>1 DEF Fraction
<1> HIDE DEF g
<1>4. (u * g) \div g = u /\ (v * g) \div g = v
  BY <1>1, <1>2
<1>5. k * a = u * (k * g) /\ k * b = v * (k * g) /\ k * g \in Nat \ {0}
  BY <1>1, <1>2
<1>6. (u * (k * g)) \div (k * g) = u /\ (v * (k * g)) \div (k * g) = v
  <2> DEFINE m == k * g
  <2>1. m \in Nat \ {0}
    BY <1>5
  <2> HIDE DEF m
  <2>2. (u * m) \div m = u /\ (v * m) \div m = v
    BY <2>1, <1>2
  <2> QED BY <2>2 DEF m
<1> QED BY <1>2, <1>3, <1>4, <1>5, <1>6

\* Fractions are equal when they are across.
LEMMA Across ==
    ASSUME NEW a \in Nat, NEW b \in Nat \ {0}, NEW c \in Nat, NEW e \in Nat \ {0}
    PROVE  Fraction(a, b) = Fraction(c, e) <=> a * e = c * b
<1>1. ASSUME a * e = c * b PROVE Fraction(a, b) = Fraction(c, e)
  <2>1. Fraction(e * a, e * b) = Fraction(a, b) /\ Fraction(b * c, b * e) = Fraction(c, e)
    BY Expanded
  <2>2. e * a = b * c /\ e * b = b * e
    BY <1>1
  <2> QED BY <2>1, <2>2
<1>2. ASSUME Fraction(a, b) = Fraction(c, e) PROVE a * e = c * b
  <2> DEFINE x == Fraction(a, b)
  <2>1. PICK g \in Nat \ {0} : a = g * x.n /\ b = g * x.d
    BY Lowest
  <2>2. PICK h \in Nat \ {0} : c = h * x.n /\ e = h * x.d
    BY <1>2, Lowest
  <2>3. x.n \in Nat /\ x.d \in Nat
    BY Lowest
  <2> HIDE DEF x
  <2>4. (g * x.n) * (h * x.d) = (h * x.n) * (g * x.d)
    BY <2>3
  <2> QED BY <2>1, <2>2, <2>4
<1> QED BY <1>1, <1>2

LEMMA FracTerms ==
    ASSUME NEW x \in Fracs
    PROVE  x.n \in Nat /\ x.d \in Nat \ {0} /\ x = Fraction(x.n, x.d)
<1>1. PICK a \in Nat, b \in Nat \ {0} : x = Fraction(a, b)
  BY FracIs
<1>2. /\ x.n \in Nat /\ x.d \in Nat \ {0}
      /\ \E g \in Nat \ {0} : a = g * x.n /\ b = g * x.d
  BY <1>1, Lowest
<1>3. PICK g \in Nat \ {0} : a = g * x.n /\ b = g * x.d
  BY <1>2
<1>4. a * x.d = x.n * b
  <2>1. (g * x.n) * x.d = x.n * (g * x.d)
    BY <1>2
  <2> QED BY <1>3, <2>1
<1>5. Fraction(a, b) = Fraction(x.n, x.d)
  <2> DEFINE c == x.n
             e == x.d
  <2>1. c \in Nat /\ e \in Nat \ {0} /\ a * e = c * b
    BY <1>2, <1>4
  <2> HIDE DEF c, e
  <2>2. Fraction(a, b) = Fraction(c, e)
    BY <2>1, Across
  <2> QED BY <2>2 DEF c, e
<1> QED BY <1>1, <1>2, <1>5

\* The arithmetic of fractions, in whatever terms.
LEMMA PlusOf ==
    ASSUME NEW a \in Nat, NEW b \in Nat \ {0}, NEW c \in Nat, NEW e \in Nat \ {0}
    PROVE  Plus(Fraction(a, b), Fraction(c, e)) = Fraction(a * e + c * b, b * e)
<1> DEFINE x == Fraction(a, b)
           y == Fraction(c, e)
<1>1. PICK g \in Nat \ {0} : a = g * x.n /\ b = g * x.d
  BY Lowest
<1>2. PICK h \in Nat \ {0} : c = h * y.n /\ e = h * y.d
  BY Lowest
<1>3. x.n \in Nat /\ x.d \in Nat \ {0} /\ y.n \in Nat /\ y.d \in Nat \ {0}
  BY Lowest
<1> HIDE DEF x, y
<1> DEFINE m == x.n * y.d + y.n * x.d
           w == x.d * y.d
<1>4. m \in Nat /\ w \in Nat \ {0} /\ g * h \in Nat \ {0}
  BY <1>3
<1>5. a * e + c * b = (g * h) * m /\ b * e = (g * h) * w
  <2>1. (g * x.n) * (h * y.d) + (h * y.n) * (g * x.d) = (g * h) * (x.n * y.d + y.n * x.d)
    BY <1>3
  <2>2. (g * x.d) * (h * y.d) = (g * h) * (x.d * y.d)
    BY <1>3
  <2> QED BY <1>1, <1>2, <2>1, <2>2
<1>6. Plus(x, y) = Fraction(m, w)
  BY DEF Plus
<1> HIDE DEF m, w
<1>7. Fraction((g * h) * m, (g * h) * w) = Fraction(m, w)
  BY <1>4, Expanded
<1> QED BY <1>5, <1>6, <1>7 DEF x, y

LEMMA TimesOf ==
    ASSUME NEW a \in Nat, NEW b \in Nat \ {0}, NEW c \in Nat, NEW e \in Nat \ {0}
    PROVE  Times(Fraction(a, b), Fraction(c, e)) = Fraction(a * c, b * e)
<1> DEFINE x == Fraction(a, b)
           y == Fraction(c, e)
<1>1. PICK g \in Nat \ {0} : a = g * x.n /\ b = g * x.d
  BY Lowest
<1>2. PICK h \in Nat \ {0} : c = h * y.n /\ e = h * y.d
  BY Lowest
<1>3. x.n \in Nat /\ x.d \in Nat \ {0} /\ y.n \in Nat /\ y.d \in Nat \ {0}
  BY Lowest
<1> HIDE DEF x, y
<1> DEFINE m == x.n * y.n
           w == x.d * y.d
<1>4. m \in Nat /\ w \in Nat \ {0} /\ g * h \in Nat \ {0}
  BY <1>3
<1>5. a * c = (g * h) * m /\ b * e = (g * h) * w
  <2>1. (g * x.n) * (h * y.n) = (g * h) * (x.n * y.n)
    BY <1>3
  <2>2. (g * x.d) * (h * y.d) = (g * h) * (x.d * y.d)
    BY <1>3
  <2> QED BY <1>1, <1>2, <2>1, <2>2
<1>6. Times(x, y) = Fraction(m, w)
  BY DEF Times
<1> HIDE DEF m, w
<1>7. Fraction((g * h) * m, (g * h) * w) = Fraction(m, w)
  BY <1>4, Expanded
<1> QED BY <1>5, <1>6, <1>7 DEF x, y

LEMMA OverOf ==
    ASSUME NEW a \in Nat, NEW b \in Nat \ {0}, NEW c \in Nat \ {0}, NEW e \in Nat \ {0}
    PROVE  Over(Fraction(a, b), Fraction(c, e)) = Fraction(a * e, b * c)
<1> DEFINE x == Fraction(a, b)
           y == Fraction(c, e)
<1>1. PICK g \in Nat \ {0} : a = g * x.n /\ b = g * x.d
  BY Lowest
<1>2. PICK h \in Nat \ {0} : c = h * y.n /\ e = h * y.d
  BY Lowest
<1>3. x.n \in Nat /\ x.d \in Nat \ {0} /\ y.n \in Nat /\ y.d \in Nat \ {0}
  BY Lowest
<1> HIDE DEF x, y
<1>8. y.n # 0
  BY <1>2, <1>3
<1> DEFINE m == x.n * y.d
           w == x.d * y.n
<1>4. m \in Nat /\ w \in Nat \ {0} /\ g * h \in Nat \ {0}
  BY <1>3, <1>8
<1>5. a * e = (g * h) * m /\ b * c = (g * h) * w
  <2>1. (g * x.n) * (h * y.d) = (g * h) * (x.n * y.d)
    BY <1>3
  <2>2. (g * x.d) * (h * y.n) = (g * h) * (x.d * y.n)
    BY <1>3
  <2> QED BY <1>1, <1>2, <2>1, <2>2
<1>6. Over(x, y) = Fraction(m, w)
  BY DEF Over
<1> HIDE DEF m, w
<1>7. Fraction((g * h) * m, (g * h) * w) = Fraction(m, w)
  BY <1>4, Expanded
<1> QED BY <1>5, <1>6, <1>7 DEF x, y

LEMMA WholeIs ==
    ASSUME NEW a \in Nat
    PROVE  Whole(a) = Fraction(a, 1) /\ Whole(a) \in Fracs
BY FractionType DEF Whole

LEMMA NoneIsZero ==
    ASSUME NEW a \in Nat, NEW b \in Nat \ {0}
    PROVE  Fraction(a, b) = Zero <=> a = 0
<1>1. Zero = Fraction(0, 1)
  BY WholeIs DEF Zero
<1>2. Fraction(a, b) = Fraction(0, 1) <=> a * 1 = 0 * b
  BY Across
<1>3. a * 1 = a /\ 0 * b = 0
  OBVIOUS
<1> QED BY <1>1, <1>2, <1>3

LEMMA ZeroType == Zero \in Fracs
BY WholeIs DEF Zero

LEMMA PlusType ==
    ASSUME NEW x \in Fracs, NEW y \in Fracs
    PROVE  Plus(x, y) \in Fracs
<1>1. PICK a \in Nat, b \in Nat \ {0} : x = Fraction(a, b)
  BY FracIs
<1>2. PICK c \in Nat, e \in Nat \ {0} : y = Fraction(c, e)
  BY FracIs
<1>3. a * e + c * b \in Nat /\ b * e \in Nat \ {0}
  OBVIOUS
<1>4. Plus(x, y) = Fraction(a * e + c * b, b * e)
  BY <1>1, <1>2, PlusOf
<1> QED BY <1>3, <1>4, FractionType

LEMMA PlusCommutes ==
    ASSUME NEW x \in Fracs, NEW y \in Fracs
    PROVE  Plus(x, y) = Plus(y, x)
<1>1. PICK a \in Nat, b \in Nat \ {0} : x = Fraction(a, b)
  BY FracIs
<1>2. PICK c \in Nat, e \in Nat \ {0} : y = Fraction(c, e)
  BY FracIs
<1>3. a * e + c * b = c * b + a * e /\ b * e = e * b
  OBVIOUS
<1>4. /\ Plus(x, y) = Fraction(a * e + c * b, b * e)
      /\ Plus(y, x) = Fraction(c * b + a * e, e * b)
  BY <1>1, <1>2, PlusOf
<1> QED BY <1>3, <1>4

LEMMA PlusAssociates ==
    ASSUME NEW x \in Fracs, NEW y \in Fracs, NEW z \in Fracs
    PROVE  Plus(Plus(x, y), z) = Plus(x, Plus(y, z))
<1>1. PICK a \in Nat, b \in Nat \ {0} : x = Fraction(a, b)
  BY FracIs
<1>2. PICK c \in Nat, e \in Nat \ {0} : y = Fraction(c, e)
  BY FracIs
<1>3. PICK f \in Nat, h \in Nat \ {0} : z = Fraction(f, h)
  BY FracIs
<1>4. /\ a * e + c * b \in Nat /\ b * e \in Nat \ {0}
      /\ c * h + f * e \in Nat /\ e * h \in Nat \ {0}
  OBVIOUS
<1>5. /\ Plus(x, y) = Fraction(a * e + c * b, b * e)
      /\ Plus(y, z) = Fraction(c * h + f * e, e * h)
  BY <1>1, <1>2, <1>3, PlusOf
<1>6. /\ Plus(Plus(x, y), z) = Fraction((a * e + c * b) * h + f * (b * e), (b * e) * h)
      /\ Plus(x, Plus(y, z)) = Fraction(a * (e * h) + (c * h + f * e) * b, b * (e * h))
  BY <1>1, <1>3, <1>4, <1>5, PlusOf
<1>7. (a * e + c * b) * h + f * (b * e) = a * (e * h) + (c * h + f * e) * b
  OBVIOUS
<1>8. (b * e) * h = b * (e * h)
  OBVIOUS
<1> QED BY <1>6, <1>7, <1>8

LEMMA PlusNothing ==
    ASSUME NEW x \in Fracs
    PROVE  Plus(Zero, x) = x /\ Plus(x, Zero) = x
<1>1. PICK a \in Nat, b \in Nat \ {0} : x = Fraction(a, b)
  BY FracIs
<1>2. Zero = Fraction(0, 1)
  BY WholeIs DEF Zero
<1>3. /\ Plus(Zero, x) = Fraction(0 * b + a * 1, 1 * b)
      /\ Plus(x, Zero) = Fraction(a * 1 + 0 * b, b * 1)
  BY <1>1, <1>2, PlusOf
<1>4. 0 * b + a * 1 = a /\ 1 * b = b /\ a * 1 + 0 * b = a /\ b * 1 = b
  OBVIOUS
<1> QED BY <1>1, <1>3, <1>4

LEMMA PlusOfSomething ==
    ASSUME NEW x \in Fracs, NEW y \in Fracs, x # Zero
    PROVE  Plus(x, y) # Zero
<1>1. PICK a \in Nat, b \in Nat \ {0} : x = Fraction(a, b)
  BY FracIs
<1>2. PICK c \in Nat, e \in Nat \ {0} : y = Fraction(c, e)
  BY FracIs
<1>3. a # 0
  BY <1>1, NoneIsZero
<1>4. a * e + c * b \in Nat /\ a * e + c * b # 0 /\ b * e \in Nat \ {0}
  <2>1. a * e \in Nat \ {0} /\ c * b \in Nat /\ b * e \in Nat \ {0}
    BY <1>3
  <2> QED BY <2>1
<1>5. Plus(x, y) = Fraction(a * e + c * b, b * e)
  BY <1>1, <1>2, PlusOf
<1> QED BY <1>4, <1>5, NoneIsZero

LEMMA TimesType ==
    ASSUME NEW x \in Fracs, NEW y \in Fracs
    PROVE  Times(x, y) \in Fracs
<1>1. PICK a \in Nat, b \in Nat \ {0} : x = Fraction(a, b)
  BY FracIs
<1>2. PICK c \in Nat, e \in Nat \ {0} : y = Fraction(c, e)
  BY FracIs
<1>3. a * c \in Nat /\ b * e \in Nat \ {0}
  OBVIOUS
<1>4. Times(x, y) = Fraction(a * c, b * e)
  BY <1>1, <1>2, TimesOf
<1> QED BY <1>3, <1>4, FractionType

LEMMA TimesDistributes ==
    ASSUME NEW x \in Fracs, NEW y \in Fracs, NEW z \in Fracs
    PROVE  Times(x, Plus(y, z)) = Plus(Times(x, y), Times(x, z))
<1>1. PICK a \in Nat, b \in Nat \ {0} : x = Fraction(a, b)
  BY FracIs
<1>2. PICK c \in Nat, e \in Nat \ {0} : y = Fraction(c, e)
  BY FracIs
<1>3. PICK f \in Nat, h \in Nat \ {0} : z = Fraction(f, h)
  BY FracIs
<1>4. /\ c * h + f * e \in Nat /\ e * h \in Nat \ {0}
      /\ a * c \in Nat /\ b * e \in Nat \ {0} /\ a * f \in Nat /\ b * h \in Nat \ {0}
  OBVIOUS
<1>5. /\ Plus(y, z) = Fraction(c * h + f * e, e * h)
      /\ Times(x, y) = Fraction(a * c, b * e) /\ Times(x, z) = Fraction(a * f, b * h)
  BY <1>1, <1>2, <1>3, PlusOf, TimesOf
<1>6. Times(x, Plus(y, z)) = Fraction(a * (c * h + f * e), b * (e * h))
  BY <1>1, <1>4, <1>5, TimesOf
<1>7. Plus(Times(x, y), Times(x, z))
      = Fraction((a * c) * (b * h) + (a * f) * (b * e), (b * e) * (b * h))
  BY <1>4, <1>5, PlusOf
<1>8. /\ (a * c) * (b * h) + (a * f) * (b * e) = b * (a * (c * h + f * e))
      /\ (b * e) * (b * h) = b * (b * (e * h))
  <2>1. (a * c) * (b * h) + (a * f) * (b * e) = b * (a * (c * h + f * e))
    OBVIOUS
  <2>2. (b * e) * (b * h) = b * (b * (e * h))
    OBVIOUS
  <2> QED BY <2>1, <2>2
<1>9. Fraction(b * (a * (c * h + f * e)), b * (b * (e * h))) = Fraction(a * (c * h + f * e), b * (e * h))
  <2>1. a * (c * h + f * e) \in Nat /\ b * (e * h) \in Nat \ {0}
    BY <1>4
  <2> QED BY <2>1, Expanded
<1> QED BY <1>6, <1>7, <1>8, <1>9

LEMMA TimesNothing ==
    ASSUME NEW x \in Fracs
    PROVE  Times(x, Zero) = Zero
<1>1. PICK a \in Nat, b \in Nat \ {0} : x = Fraction(a, b)
  BY FracIs
<1>2. Zero = Fraction(0, 1)
  BY WholeIs DEF Zero
<1>3. Times(x, Zero) = Fraction(a * 0, b * 1)
  BY <1>1, <1>2, TimesOf
<1>4. a * 0 = 0 /\ b * 1 = b
  OBVIOUS
<1> QED BY <1>3, <1>4, NoneIsZero

LEMMA OverType ==
    ASSUME NEW x \in Fracs, NEW y \in Fracs, y # Zero
    PROVE  Over(x, y) \in Fracs /\ (x # Zero => Over(x, y) # Zero)
<1>1. PICK a \in Nat, b \in Nat \ {0} : x = Fraction(a, b)
  BY FracIs
<1>2. PICK c \in Nat, e \in Nat \ {0} : y = Fraction(c, e)
  BY FracIs
<1>3. c # 0 /\ (x # Zero => a # 0)
  BY <1>1, <1>2, NoneIsZero
<1>4. a * e \in Nat /\ b * c \in Nat \ {0} /\ (a # 0 => a * e # 0)
  BY <1>3
<1>5. Over(x, y) = Fraction(a * e, b * c)
  BY <1>1, <1>2, <1>3, OverOf
<1> QED BY <1>3, <1>4, <1>5, FractionType, NoneIsZero

\* To be no less is a total order of fractions.
LEMMA NoLessIsTransitive ==
    ASSUME NEW x \in Fracs, NEW y \in Fracs, NEW z \in Fracs, ~Below(x, y), ~Below(y, z)
    PROVE  ~Below(x, z)
<1>1. /\ x.n \in Nat /\ x.d \in Nat \ {0} /\ y.n \in Nat /\ y.d \in Nat \ {0}
      /\ z.n \in Nat /\ z.d \in Nat \ {0}
  BY FracTerms
<1> DEFINE a == x.n
           b == x.d
           c == y.n
           e == y.d
           f == z.n
           h == z.d
<1>2. a * e >= c * b /\ c * h >= f * e
  BY <1>1 DEF Below
<1>3. a \in Nat /\ b \in Nat \ {0} /\ c \in Nat /\ e \in Nat \ {0} /\ f \in Nat /\ h \in Nat \ {0}
  BY <1>1
<1> HIDE DEF a, b, c, e, f, h
<1>4. (a * e) * h >= (c * b) * h
  BY <1>2, <1>3
<1>5. (c * h) * b >= (f * e) * b
  BY <1>2, <1>3
<1>6. (a * h) * e >= (f * b) * e
  <2>1. (a * h) * e = (a * e) * h /\ (c * b) * h = (c * h) * b /\ (f * b) * e = (f * e) * b
    BY <1>3
  <2>2. a * h \in Nat /\ f * b \in Nat /\ (a * e) * h \in Int /\ (c * b) * h \in Int /\ (f * e) * b \in Int
    BY <1>3
  <2> QED BY <2>1, <2>2, <1>4, <1>5
<1>7. a * h >= f * b
  <2> DEFINE p == a * h
             q == f * b
  <2>1. p \in Nat /\ q \in Nat /\ p * e >= q * e
    BY <1>3, <1>6
  <2> HIDE DEF p, q
  <2>2. p < q => (q - p) * e > 0
    BY <2>1, <1>3
  <2>3. (q - p) * e = q * e - p * e
    BY <2>1, <1>3
  <2>4. p >= q
    BY <2>1, <2>2, <2>3, <1>3
  <2> QED BY <2>4 DEF p, q
<1> QED BY <1>3, <1>7 DEF Below, a, b, c, e, f, h

LEMMA NoLessIsTotal ==
    ASSUME NEW x \in Fracs, NEW y \in Fracs
    PROVE  ~Below(x, x) /\ (~Below(x, y) \/ ~Below(y, x))
<1>1. x.n \in Nat /\ x.d \in Nat \ {0} /\ y.n \in Nat /\ y.d \in Nat \ {0}
  BY FracTerms
<1>2. x.n * y.d \in Nat /\ y.n * x.d \in Nat /\ x.n * x.d \in Nat
  BY <1>1
<1> QED BY <1>2 DEF Below

------------------------------------------------------------------------
\* Sums

\* What holds of a set when it holds of the set without any one of its elements.
LEMMA SubsetInduction ==
    ASSUME NEW S, IsFiniteSet(S), NEW G,
           \A T \in SUBSET S : (\A x \in T : T \ {x} \in G) => T \in G
    PROVE  \A T \in SUBSET S : T \in G
<1> DEFINE Bad == {T \in SUBSET S : T \notin G}
           Less == StrictSubsetOrdering(S)
<1> SUFFICES ASSUME Bad # {} PROVE FALSE
  OBVIOUS
<1>1. IsWellFoundedOn(Less, SUBSET S)
  <2>1. IsWellFoundedOn(Less, FiniteSubsetsOf(S))
    BY FS_StrictSubsetOrderingWellFounded
  <2>2. FiniteSubsetsOf(S) = SUBSET S
    BY FS_FiniteSubsetsOfFinite
  <2> HIDE DEF Less
  <2> QED BY <2>1, <2>2, Zenon
<1>2. PICK T \in Bad : \A U \in Bad : ~(<<U, T>> \in Less)
  <2>1. Bad \subseteq SUBSET S
    OBVIOUS
  <2> HIDE DEF Bad, Less
  <2> QED BY <1>1, <2>1, WFMin, Zenon
<1>3. ASSUME NEW x \in T PROVE T \ {x} \in G
  <2>1. T \ {x} \in SUBSET S /\ T \in SUBSET S /\ T \ {x} \subseteq T /\ T \ {x} # T
    OBVIOUS
  <2>2. <<T \ {x}, T>> \in Less
    BY <2>1 DEF StrictSubsetOrdering
  <2> HIDE DEF Less
  <2> QED BY <1>2, <2>1, <2>2
<1> QED BY <1>2, <1>3

\* The sum of a function over a set, and the steps it is made of.
FSum(S, F) == Sum(S, LAMBDA s : F[s])
Taken(T) == CHOOSE x \in T : TRUE
Step(F, g, T) == IF T = {} THEN Zero ELSE Plus(F[Taken(T)], g[T \ {Taken(T)}])
Summing(F, g, S) == \A T \in SUBSET S : g[T] = Step(F, g, T)

LEMMA TakenIsThere ==
    ASSUME NEW T, T # {}
    PROVE  Taken(T) \in T
BY DEF Taken

LEMMA SummingAgrees ==
    ASSUME NEW S, IsFiniteSet(S), NEW F, NEW g, NEW h, Summing(F, g, S), Summing(F, h, S)
    PROVE  \A T \in SUBSET S : g[T] = h[T]
<1> DEFINE G == {T \in SUBSET S : g[T] = h[T]}
<1>1. ASSUME NEW T \in SUBSET S, \A x \in T : T \ {x} \in G
      PROVE  g[T] = h[T]
  <2>1. g[T] = Step(F, g, T) /\ h[T] = Step(F, h, T)
    BY DEF Summing
  <2>2. T # {} => g[T \ {Taken(T)}] = h[T \ {Taken(T)}]
    BY <1>1, TakenIsThere
  <2> QED BY <2>1, <2>2 DEF Step
<1>2. \A T \in SUBSET S : T \in G
  <2>1. \A T \in SUBSET S : (\A x \in T : T \ {x} \in G) => T \in G
    BY <1>1
  <2> HIDE DEF G
  <2> QED BY <2>1, SubsetInduction
<1> QED BY <1>2

LEMMA SummingLess ==
    ASSUME NEW S, NEW F, NEW g, Summing(F, g, S), NEW T \in SUBSET S
    PROVE  Summing(F, g, T)
BY DEF Summing

LEMMA SummingExists ==
    ASSUME NEW S, IsFiniteSet(S), NEW F
    PROVE  \E g : Summing(F, g, S)
<1> DEFINE G == {T \in SUBSET S : \E g : Summing(F, g, T)}
<1>1. ASSUME NEW T \in SUBSET S, \A x \in T : \E g : Summing(F, g, T \ {x})
      PROVE  \E g : Summing(F, g, T)
  <2> DEFINE part(x) == CHOOSE g : Summing(F, g, T \ {x})
             missing(U) == CHOOSE x \in T : x \notin U
             at(U) == part(missing(U))[U]
             last == IF T = {} THEN Zero ELSE Plus(F[Taken(T)], at(T \ {Taken(T)}))
             glue == [U \in SUBSET T |-> IF U = T THEN last ELSE at(U)]
  <2>1. ASSUME NEW x \in T PROVE Summing(F, part(x), T \ {x})
    BY <1>1
  <2>2. ASSUME NEW U \in SUBSET T, U # T
        PROVE  missing(U) \in T /\ missing(U) \notin U
    BY <2>2
  <2> HIDE DEF part, missing
  <2>3. ASSUME NEW U \in SUBSET T, U # T, U # {}
        PROVE  at(U) = Plus(F[Taken(U)], at(U \ {Taken(U)}))
    <3> DEFINE x == missing(U)
               W == U \ {Taken(U)}
               y == missing(W)
    <3>1. x \in T /\ U \in SUBSET (T \ {x})
      BY <2>2, <2>3
    <3>2. W \in SUBSET U /\ W # T
      BY <2>3
    <3>3. y \in T /\ W \in SUBSET (T \ {y})
      BY <2>2, <3>2
    <3>4. Summing(F, part(x), T \ {x}) /\ Summing(F, part(y), T \ {y})
      BY <2>1, <3>1, <3>3
    <3>5. part(x)[U] = Plus(F[Taken(U)], part(x)[W])
      BY <2>3, <3>1, <3>4 DEF Summing, Step
    <3>6. part(x)[W] = part(y)[W]
      <4> HIDE DEF x, y, W
      <4>1. Summing(F, part(x), W) /\ Summing(F, part(y), W)
        <5>1. W \in SUBSET (T \ {x}) /\ W \in SUBSET (T \ {y})
          BY <3>1, <3>2, <3>3
        <5> QED BY <3>4, <5>1, SummingLess
      <4>2. IsFiniteSet(W)
        <5>1. W \in SUBSET S
          BY <3>1, <3>2
        <5> QED BY <5>1, FS_Subset
      <4> QED BY <4>1, <4>2, SummingAgrees
    <3> QED BY <3>5, <3>6
  <2>4. ASSUME NEW U \in SUBSET T PROVE glue[U] = Step(F, glue, U)
    <3> DEFINE W == U \ {Taken(U)}
    <3>1. CASE U = {} /\ U = T
      BY <3>1 DEF Step
    <3>2. CASE U = {} /\ U # T
      <4> DEFINE x == missing(U)
      <4>1. x \in T
        BY <2>2, <3>2
      <4>2. Summing(F, part(x), T \ {x})
        BY <2>1, <4>1
      <4>3. part(x)[U] = Zero
        BY <3>2, <4>2 DEF Summing, Step
      <4> QED BY <3>2, <4>3 DEF Step
    <3>3. CASE U # {}
      <4>1. Taken(U) \in U
        BY <3>3, TakenIsThere
      <4>2. W \in SUBSET T /\ W # T
        BY <4>1
      <4>3. glue[W] = at(W)
        BY <4>2
      <4>4. glue[U] = Plus(F[Taken(U)], at(W))
        BY <2>3, <3>3
      <4> QED BY <3>3, <4>3, <4>4 DEF Step
    <3> QED BY <3>1, <3>2, <3>3
  <2> HIDE DEF glue
  <2> QED BY <2>4 DEF Summing
<1>2. \A T \in SUBSET S : (\A x \in T : T \ {x} \in G) => T \in G
  <2> TAKE T \in SUBSET S
  <2> HAVE \A x \in T : T \ {x} \in G
  <2>1. \A x \in T : \E g : Summing(F, g, T \ {x})
    OBVIOUS
  <2>2. \E g : Summing(F, g, T)
    BY <1>1, <2>1
  <2> QED BY <2>2
<1>3. S \in G
  <2> HIDE DEF G
  <2>1. \A T \in SUBSET S : T \in G
    BY <1>2, SubsetInduction
  <2> QED BY <2>1
<1> QED BY <1>3

LEMMA SumIsSummed ==
    ASSUME NEW S, IsFiniteSet(S), NEW F
    PROVE  \E g : Summing(F, g, S) /\ FSum(S, F) = g[S]
<1> DEFINE next(g) == [T \in SUBSET S |-> Step(F, g, T)]
           iter == CHOOSE g : g = next(g)
<1>1. PICK g : Summing(F, g, S)
  BY SummingExists
<1> DEFINE f == [T \in SUBSET S |-> g[T]]
<1>2. f = next(f)
  <2>1. ASSUME NEW T \in SUBSET S PROVE f[T] = Step(F, f, T)
    <3>1. g[T] = Step(F, g, T)
      BY <1>1 DEF Summing
    <3>2. T \ {Taken(T)} \in SUBSET S
      OBVIOUS
    <3>3. f[T] = g[T] /\ f[T \ {Taken(T)}] = g[T \ {Taken(T)}]
      BY <3>2
    <3> HIDE DEF f
    <3> QED BY <3>1, <3>3 DEF Step
  <2>2. f = [T \in SUBSET S |-> f[T]]
    OBVIOUS
  <2> HIDE DEF f
  <2> QED BY <2>1, <2>2
<1>3. iter = next(iter)
  <2> HIDE DEF next, f
  <2> QED BY <1>2
<1>4. FSum(S, F) = iter[S]
  BY DEF FSum, Sum, MapThenFoldSet, Step, Taken
<1>5. Summing(F, iter, S)
  <2>1. ASSUME NEW T \in SUBSET S PROVE iter[T] = next(iter)[T]
    <3> HIDE DEF next, iter
    <3> QED BY <1>3
  <2>2. ASSUME NEW T \in SUBSET S PROVE iter[T] = Step(F, iter, T)
    <3> HIDE DEF iter
    <3> QED BY <2>1
  <2> HIDE DEF iter
  <2> QED BY <2>2 DEF Summing
<1> QED BY <1>4, <1>5

\* A sum takes one element after the other.
LEMMA SumStep ==
    ASSUME NEW S, IsFiniteSet(S), NEW F
    PROVE  FSum(S, F) = IF S = {} THEN Zero ELSE Plus(F[Taken(S)], FSum(S \ {Taken(S)}, F))
<1>1. PICK g : Summing(F, g, S) /\ FSum(S, F) = g[S]
  BY SumIsSummed
<1>2. g[S] = Step(F, g, S)
  BY <1>1 DEF Summing
<1>3. ASSUME S # {} PROVE g[S \ {Taken(S)}] = FSum(S \ {Taken(S)}, F)
  <2> DEFINE T == S \ {Taken(S)}
  <2>1. T \in SUBSET S /\ IsFiniteSet(T)
    BY FS_Subset
  <2> HIDE DEF T
  <2>2. PICK h : Summing(F, h, T) /\ FSum(T, F) = h[T]
    BY <2>1, SumIsSummed
  <2>3. Summing(F, g, T)
    BY <1>1, <2>1, SummingLess
  <2>4. g[T] = h[T]
    BY <2>1, <2>2, <2>3, SummingAgrees
  <2> QED BY <2>2, <2>4 DEF T
<1> QED BY <1>1, <1>2, <1>3 DEF Step

LEMMA SumOfNone ==
    ASSUME NEW F
    PROVE  FSum({}, F) = Zero
BY SumStep, FS_EmptySet

LEMMA SumType ==
    ASSUME NEW S, IsFiniteSet(S), NEW F, \A s \in S : F[s] \in Fracs
    PROVE  \A T \in SUBSET S : FSum(T, F) \in Fracs
<1> DEFINE G == {T \in SUBSET S : FSum(T, F) \in Fracs}
<1>1. ASSUME NEW T \in SUBSET S, \A x \in T : T \ {x} \in G
      PROVE  FSum(T, F) \in Fracs
  <2>1. FSum(T, F) = IF T = {} THEN Zero ELSE Plus(F[Taken(T)], FSum(T \ {Taken(T)}, F))
    BY SumStep, FS_Subset
  <2>2. CASE T # {}
    <3>1. Taken(T) \in T
      BY <2>2, TakenIsThere
    <3>2. F[Taken(T)] \in Fracs /\ FSum(T \ {Taken(T)}, F) \in Fracs
      BY <1>1, <3>1
    <3> QED BY <2>1, <2>2, <3>2, PlusType
  <2> QED BY <2>1, <2>2, ZeroType
<1>2. \A T \in SUBSET S : (\A x \in T : T \ {x} \in G) => T \in G
  BY <1>1
<1>3. \A T \in SUBSET S : T \in G
  <2> HIDE DEF G
  <2> QED BY <1>2, SubsetInduction
<1> QED BY <1>3

LEMMA PlusSwaps ==
    ASSUME NEW x \in Fracs, NEW y \in Fracs, NEW z \in Fracs
    PROVE  Plus(x, Plus(y, z)) = Plus(y, Plus(x, z))
<1>1. Plus(Plus(x, y), z) = Plus(x, Plus(y, z))
  BY PlusAssociates
<1>2. Plus(Plus(y, x), z) = Plus(y, Plus(x, z))
  BY PlusAssociates
<1>3. Plus(x, y) = Plus(y, x)
  BY PlusCommutes
<1> QED BY <1>1, <1>2, <1>3

\* A sum may take any of its elements first.
LEMMA SumPicks ==
    ASSUME NEW S, IsFiniteSet(S), NEW F, \A s \in S : F[s] \in Fracs
    PROVE  \A T \in SUBSET S : \A x \in T : FSum(T, F) = Plus(F[x], FSum(T \ {x}, F))
<1> DEFINE G == {T \in SUBSET S : \A x \in T : FSum(T, F) = Plus(F[x], FSum(T \ {x}, F))}
<1>1. ASSUME NEW T \in SUBSET S, \A x \in T : T \ {x} \in G, NEW x \in T
      PROVE  FSum(T, F) = Plus(F[x], FSum(T \ {x}, F))
  <2> DEFINE c == Taken(T)
             R == (T \ {c}) \ {x}
  <2>1. c \in T
    BY TakenIsThere
  <2>2. FSum(T, F) = Plus(F[c], FSum(T \ {c}, F))
    BY SumStep, FS_Subset
  <2> HIDE DEF c
  <2>3. CASE x # c
    <3>1. x \in T \ {c} /\ c \in T \ {x} /\ (T \ {x}) \ {c} = R
      BY <2>1, <2>3
    <3>2. FSum(T \ {c}, F) = Plus(F[x], FSum(R, F))
      BY <1>1, <2>1, <3>1
    <3>3. FSum(T \ {x}, F) = Plus(F[c], FSum((T \ {x}) \ {c}, F))
      BY <1>1, <3>1
    <3>4. F[x] \in Fracs /\ F[c] \in Fracs /\ FSum(R, F) \in Fracs
      <4>1. R \in SUBSET S /\ x \in S /\ c \in S
        BY <2>1
      <4> HIDE DEF R
      <4> QED BY <4>1, SumType
    <3> HIDE DEF R
    <3>5. Plus(F[c], Plus(F[x], FSum(R, F))) = Plus(F[x], Plus(F[c], FSum(R, F)))
      BY <3>4, PlusSwaps
    <3> QED BY <2>2, <3>1, <3>2, <3>3, <3>5
  <2> QED BY <2>2, <2>3
<1>2. \A T \in SUBSET S : (\A x \in T : T \ {x} \in G) => T \in G
  BY <1>1
<1>3. \A T \in SUBSET S : T \in G
  <2> HIDE DEF G
  <2> QED BY <1>2, SubsetInduction
<1> QED BY <1>3

LEMMA SumOfSomething ==
    ASSUME NEW S, IsFiniteSet(S), NEW F, \A s \in S : F[s] \in Fracs, NEW x \in S, F[x] # Zero
    PROVE  FSum(S, F) # Zero
<1>1. FSum(S, F) = Plus(F[x], FSum(S \ {x}, F))
  BY SumPicks
<1>2. FSum(S \ {x}, F) \in Fracs
  BY SumType
<1> QED BY <1>1, <1>2, PlusOfSomething

\* A sum of multiples is the multiple of the sum.
LEMMA SumScales ==
    ASSUME NEW S, IsFiniteSet(S), NEW F, \A s \in S : F[s] \in Fracs,
           NEW k \in Fracs, NEW M, \A s \in S : M[s] = Times(k, F[s])
    PROVE  FSum(S, M) = Times(k, FSum(S, F))
<1> DEFINE G == {T \in SUBSET S : FSum(T, M) = Times(k, FSum(T, F))}
<1>1. ASSUME NEW T \in SUBSET S, \A x \in T : T \ {x} \in G
      PROVE  FSum(T, M) = Times(k, FSum(T, F))
  <2>1. /\ FSum(T, F) = IF T = {} THEN Zero ELSE Plus(F[Taken(T)], FSum(T \ {Taken(T)}, F))
        /\ FSum(T, M) = IF T = {} THEN Zero ELSE Plus(M[Taken(T)], FSum(T \ {Taken(T)}, M))
    BY SumStep, FS_Subset
  <2>2. CASE T # {}
    <3> DEFINE c == Taken(T)
               R == T \ {c}
    <3>1. c \in T /\ R \in SUBSET S
      BY <2>2, TakenIsThere
    <3> HIDE DEF c
    <3>2. FSum(R, M) = Times(k, FSum(R, F))
      BY <1>1, <3>1
    <3> HIDE DEF R
    <3>3. F[c] \in Fracs /\ FSum(R, F) \in Fracs /\ M[c] = Times(k, F[c])
      BY <3>1, SumType
    <3>4. Times(k, Plus(F[c], FSum(R, F))) = Plus(Times(k, F[c]), Times(k, FSum(R, F)))
      BY <3>3, TimesDistributes
    <3> QED BY <2>1, <2>2, <3>2, <3>3, <3>4 DEF c, R
  <2> QED BY <2>1, <2>2, TimesNothing
<1>2. \A T \in SUBSET S : (\A x \in T : T \ {x} \in G) => T \in G
  BY <1>1
<1>3. S \in G
  <2> HIDE DEF G
  <2>1. \A T \in SUBSET S : T \in G
    BY <1>2, SubsetInduction
  <2> QED BY <2>1
<1> QED BY <1>3

LEMMA SumSplits ==
    ASSUME NEW A, NEW B, IsFiniteSet(A), IsFiniteSet(B), A \cap B = {},
           NEW F, \A s \in A \cup B : F[s] \in Fracs
    PROVE  FSum(A \cup B, F) = Plus(FSum(A, F), FSum(B, F))
<1> DEFINE G == {T \in SUBSET A : FSum(T \cup B, F) = Plus(FSum(T, F), FSum(B, F))}
<1>1. IsFiniteSet(A \cup B)
  BY FS_Union
<1>2. FSum(B, F) \in Fracs
  BY <1>1, SumType
<1>3. ASSUME NEW T \in SUBSET A, \A x \in T : T \ {x} \in G
      PROVE  FSum(T \cup B, F) = Plus(FSum(T, F), FSum(B, F))
  <2>1. CASE T = {}
    <3>1. T \cup B = B
      BY <2>1
    <3> QED BY <2>1, <3>1, <1>2, SumOfNone, PlusNothing
  <2>2. CASE T # {}
    <3>1. PICK x \in T : TRUE
      BY <2>2
    <3> DEFINE R == T \ {x}
    <3>2. FSum(R \cup B, F) = Plus(FSum(R, F), FSum(B, F))
      BY <1>3
    <3>3. (T \cup B) \ {x} = R \cup B
      OBVIOUS
    <3>4. FSum(T \cup B, F) = Plus(F[x], FSum((T \cup B) \ {x}, F))
      <4>1. T \cup B \in SUBSET (A \cup B) /\ x \in T \cup B
        OBVIOUS
      <4> QED BY <4>1, <1>1, SumPicks
    <3>5. FSum(T, F) = Plus(F[x], FSum(R, F))
      <4>1. T \in SUBSET (A \cup B)
        OBVIOUS
      <4> QED BY <4>1, <1>1, SumPicks
    <3>6. F[x] \in Fracs /\ FSum(R, F) \in Fracs
      <4>1. R \in SUBSET (A \cup B) /\ x \in A \cup B
        OBVIOUS
      <4> HIDE DEF R
      <4> QED BY <4>1, <1>1, SumType
    <3> HIDE DEF R
    <3>7. Plus(Plus(F[x], FSum(R, F)), FSum(B, F)) = Plus(F[x], Plus(FSum(R, F), FSum(B, F)))
      BY <3>6, <1>2, PlusAssociates
    <3> QED BY <3>2, <3>3, <3>4, <3>5, <3>7
  <2> QED BY <2>1, <2>2
<1>4. \A T \in SUBSET A : (\A x \in T : T \ {x} \in G) => T \in G
  BY <1>3
<1>5. A \in G
  <2> HIDE DEF G
  <2>1. \A T \in SUBSET A : T \in G
    BY <1>4, SubsetInduction
  <2> QED BY <2>1
<1> QED BY <1>5

\* The elements at one hour.
Column(S, h) == {s \in S : s[2] = h}

\* The sum over a week is the sum of what its hours sum to.
LEMMA SumByHours ==
    ASSUME NEW S, IsFiniteSet(S), NEW H, IsFiniteSet(H), \A s \in S : s[2] \in H,
           NEW F, \A s \in S : F[s] \in Fracs,
           NEW P, \A h \in H : P[h] = FSum(Column(S, h), F)
    PROVE  FSum(S, F) = FSum(H, P)
<1> DEFINE in(T) == {s \in S : s[2] \in T}
           G == {T \in SUBSET H : FSum(in(T), F) = FSum(T, P)}
<1>1. ASSUME NEW T \in SUBSET H, \A h \in T : T \ {h} \in G
      PROVE  FSum(in(T), F) = FSum(T, P)
  <2>1. FSum(T, P) = IF T = {} THEN Zero ELSE Plus(P[Taken(T)], FSum(T \ {Taken(T)}, P))
    BY SumStep, FS_Subset
  <2>2. CASE T = {}
    <3>1. in(T) = {}
      BY <2>2
    <3> HIDE DEF in
    <3> QED BY <2>1, <2>2, <3>1, SumOfNone
  <2>3. CASE T # {}
    <3> DEFINE c == Taken(T)
               A == Column(S, c)
               B == in(T \ {c})
    <3>1. c \in T
      BY <2>3, TakenIsThere
    <3> HIDE DEF c
    <3>2. FSum(B, F) = FSum(T \ {c}, P)
      BY <1>1, <3>1
    <3>3. in(T) = A \cup B /\ A \cap B = {} /\ A \in SUBSET S /\ B \in SUBSET S
      BY <3>1 DEF Column
    <3>4. P[c] = FSum(A, F)
      BY <3>1
    <3> HIDE DEF in, A, B
    <3>5. IsFiniteSet(A) /\ IsFiniteSet(B)
      BY <3>3, FS_Subset
    <3>6. FSum(A \cup B, F) = Plus(FSum(A, F), FSum(B, F))
      BY <3>3, <3>5, SumSplits
    <3> QED BY <2>1, <2>3, <3>2, <3>3, <3>4, <3>6 DEF c
  <2> QED BY <2>2, <2>3
<1>2. \A T \in SUBSET H : (\A h \in T : T \ {h} \in G) => T \in G
  <2> HIDE DEF in
  <2> QED BY <1>1
<1>3. H \in G
  <2> HIDE DEF G
  <2>1. \A T \in SUBSET H : T \in G
    BY <1>2, SubsetInduction
  <2> QED BY <2>1
<1>4. in(H) = S
  OBVIOUS
<1> HIDE DEF in
<1> QED BY <1>3, <1>4

------------------------------------------------------------------------
\* The profile of a circuit

LEMMA FiniteSlots ==
    /\ IsFiniteSet(Hours) /\ Cardinality(Hours) = HoursPerDay
    /\ IsFiniteSet(Days) /\ Cardinality(Days) = DaysPerWeek
    /\ IsFiniteSet(Slots) /\ Cardinality(Slots) = DaysPerWeek * HoursPerDay
    /\ Hours # {} /\ Days # {}
<1>1. HoursPerDay \in Nat \ {0} /\ DaysPerWeek \in Nat \ {0}
  BY UsageAssumption
<1>2. IsFiniteSet(Hours) /\ Cardinality(Hours) = HoursPerDay
  BY <1>1, FS_Interval DEF Hours
<1>3. IsFiniteSet(Days) /\ Cardinality(Days) = DaysPerWeek
  BY <1>1, FS_Interval DEF Days
<1>4. IsFiniteSet(Slots) /\ Cardinality(Slots) = DaysPerWeek * HoursPerDay
  BY <1>2, <1>3, FS_Product DEF Slots
<1>5. 0 \in Hours /\ 0 \in Days
  BY <1>1 DEF Hours, Days
<1> QED BY <1>2, <1>3, <1>4, <1>5

Recording == [Slots -> Nat \cup {None}]
Watts(recorded) == [s \in Slots |-> Whole(recorded[s])]
WattsSum(S, recorded) == Sum(S, LAMBDA s : Whole(recorded[s]))

LEMMA SumOfWatts ==
    ASSUME NEW recorded, NEW S \in SUBSET Slots
    PROVE  WattsSum(S, recorded) = FSum(S, Watts(recorded))
<1> DEFINE next(g, t, w) == IF t = {} THEN Zero
                            ELSE Plus(w, g[t \ {CHOOSE x \in t : TRUE}])
           first(g) == [t \in SUBSET S |-> next(g, t, Whole(recorded[CHOOSE x \in t : TRUE]))]
           second(g) == [t \in SUBSET S |-> next(g, t, Watts(recorded)[CHOOSE x \in t : TRUE])]
<1>1. WattsSum(S, recorded) = (CHOOSE g : g = first(g))[S]
  BY DEF WattsSum, Sum, MapThenFoldSet
<1>2. FSum(S, Watts(recorded)) = (CHOOSE g : g = second(g))[S]
  BY DEF FSum, Sum, MapThenFoldSet
<1>3. \A g : first(g) = second(g)
  <2> TAKE g
  <2>1. ASSUME NEW t \in SUBSET S, t # {}
        PROVE  Whole(recorded[CHOOSE x \in t : TRUE]) = Watts(recorded)[CHOOSE x \in t : TRUE]
    BY <2>1 DEF Watts
  <2>2. ASSUME NEW t \in SUBSET S
        PROVE  next(g, t, Whole(recorded[CHOOSE x \in t : TRUE]))
               = next(g, t, Watts(recorded)[CHOOSE x \in t : TRUE])
    BY <2>1, <2>2
  <2> HIDE DEF next
  <2> QED BY <2>2
<1> HIDE DEF first, second
<1>4. (CHOOSE g : g = first(g)) = (CHOOSE g : g = second(g))
  BY <1>3
<1> QED BY <1>1, <1>2, <1>4

LEMMA AtIs ==
    ASSUME NEW recorded, NEW S \in SUBSET Slots
    PROVE  At(recorded, S) = Over(FSum(S, Watts(recorded)), Whole(Cardinality(S)))
<1>1. At(recorded, S) = Over(WattsSum(S, recorded), Whole(Cardinality(S)))
  BY DEF At, Mean, WattsSum
<1> QED BY <1>1, SumOfWatts

LEMMA WattsType ==
    ASSUME NEW recorded \in Recording
    PROVE  /\ Seen(recorded) \subseteq Slots
           /\ \A s \in Seen(recorded) :
                 /\ Watts(recorded)[s] \in Fracs
                 /\ recorded[s] > 0 => Watts(recorded)[s] # Zero
<1>1. Seen(recorded) \subseteq Slots
  BY DEF Seen
<1>2. ASSUME NEW s \in Seen(recorded)
      PROVE  /\ Watts(recorded)[s] \in Fracs
             /\ recorded[s] > 0 => Watts(recorded)[s] # Zero
  <2>1. recorded[s] \in Nat /\ s \in Slots
    BY DEF Seen, Recording
  <2>2. Watts(recorded)[s] = Fraction(recorded[s], 1) /\ Watts(recorded)[s] \in Fracs
    BY <2>1, WholeIs DEF Watts
  <2>3. recorded[s] > 0 => recorded[s] # 0
    BY <2>1
  <2> QED BY <2>1, <2>2, <2>3, NoneIsZero
<1> QED BY <1>1, <1>2

LEMMA WholeOfSome ==
    ASSUME NEW a \in Nat \ {0}
    PROVE  Whole(a) \in Fracs /\ Whole(a) # Zero
BY WholeIs, NoneIsZero

LEMMA AtType ==
    ASSUME NEW recorded \in Recording, NEW S \in SUBSET Seen(recorded), S # {}
    PROVE  /\ At(recorded, S) \in Fracs
           /\ (\E s \in S : recorded[s] > 0) => At(recorded, S) # Zero
<1>1. S \in SUBSET Slots /\ IsFiniteSet(S)
  BY WattsType, FiniteSlots, FS_Subset
<1>2. Cardinality(S) \in Nat \ {0}
  BY <1>1, FS_CardinalityType, FS_EmptySet
<1> DEFINE F == Watts(recorded)
<1>3. \A s \in S : F[s] \in Fracs /\ (recorded[s] > 0 => F[s] # Zero)
  BY WattsType
<1> HIDE DEF F
<1>4. FSum(S, F) \in Fracs
  BY <1>1, <1>3, SumType
<1>5. (\E s \in S : recorded[s] > 0) => FSum(S, F) # Zero
  BY <1>1, <1>3, SumOfSomething
<1>6. At(recorded, S) = Over(FSum(S, F), Whole(Cardinality(S)))
  BY <1>1, AtIs DEF F
<1>7. Whole(Cardinality(S)) \in Fracs /\ Whole(Cardinality(S)) # Zero
  BY <1>2, WholeOfSome
<1> QED BY <1>4, <1>5, <1>6, <1>7, OverType

\* Some hour is the largest.
Peak(S, F) == Largest(S, LAMBDA s : F[s])

LEMMA PeakIs ==
    ASSUME NEW S, IsFiniteSet(S), S # {}, NEW F, \A s \in S : F[s] \in Fracs
    PROVE  \E x \in S : Peak(S, F) = F[x] /\ \A s \in S : ~Below(F[x], F[s])
<1> DEFINE most(x, T) == \A s \in T : ~Below(F[x], F[s])
           G == {T \in SUBSET S : T = {} \/ \E x \in T : most(x, T)}
<1>1. ASSUME NEW T \in SUBSET S, \A x \in T : T \ {x} \in G, T # {}
      PROVE  \E x \in T : most(x, T)
  <2>1. PICK c \in T : TRUE
    BY <1>1
  <2>2. CASE T \ {c} = {}
    <3>1. ~Below(F[c], F[c])
      BY NoLessIsTotal
    <3>2. \A s \in T : s = c
      BY <2>2
    <3> QED BY <3>1, <3>2
  <2>3. CASE T \ {c} # {}
    <3>1. PICK x \in T \ {c} : most(x, T \ {c})
      BY <1>1, <2>3
    <3>2. CASE ~Below(F[x], F[c])
      BY <3>1, <3>2
    <3>3. CASE Below(F[x], F[c])
      <4>1. ~Below(F[c], F[x]) /\ ~Below(F[c], F[c])
        BY <3>3, NoLessIsTotal
      <4>2. ASSUME NEW s \in T PROVE ~Below(F[c], F[s])
        <5>1. CASE s = c
          BY <4>1, <5>1
        <5>2. CASE s # c
          <6>1. ~Below(F[x], F[s]) /\ F[x] \in Fracs /\ F[c] \in Fracs /\ F[s] \in Fracs
            BY <3>1, <5>2
          <6> QED BY <4>1, <6>1, NoLessIsTransitive
        <5> QED BY <5>1, <5>2
      <4> QED BY <4>2
    <3> QED BY <3>2, <3>3
  <2> QED BY <2>2, <2>3
<1>2. \A T \in SUBSET S : (\A x \in T : T \ {x} \in G) => T \in G
  BY <1>1
<1>3. S \in G
  <2> HIDE DEF G
  <2>1. \A T \in SUBSET S : T \in G
    BY <1>2, SubsetInduction
  <2> QED BY <2>1
<1>4. PICK x \in S : most(x, S)
  BY <1>3
<1>5. Peak(S, F) \in {F[s] : s \in S} /\ \A s \in S : ~Below(Peak(S, F), F[s])
  <2> DEFINE fits(v) == \A s \in S : ~Below(v, F[s])
             V == {F[s] : s \in S}
  <2>1. Peak(S, F) = CHOOSE v \in V : fits(v)
    BY DEF Peak, Largest
  <2>2. F[x] \in V /\ fits(F[x])
    BY <1>4
  <2> HIDE DEF V, fits
  <2>3. Peak(S, F) \in V /\ fits(Peak(S, F))
    BY <2>1, <2>2
  <2> QED BY <2>3 DEF V, fits
<1> QED BY <1>5

\* Going round the day one way or the other, every hour is reached.
LEMMA NearestIs ==
    ASSUME NEW O \in SUBSET Hours, O # {}, NEW h \in Hours, NEW way \in {1, -1}
    PROVE  /\ Nearest(O, h, way) \in 1 .. HoursPerDay
           /\ ((h + way * Nearest(O, h, way)) % HoursPerDay) \in O
<1> DEFINE N == HoursPerDay
           to(k) == (h + way * k) % N
           Reached == {k \in 1 .. N : to(k) \in O}
<1>1. N \in Nat \ {0}
  BY UsageAssumption
<1>2. PICK o \in O : TRUE
  OBVIOUS
<1>3. h \in 0 .. N - 1 /\ o \in 0 .. N - 1
  BY DEF Hours
<1>4. \E k \in 1 .. N, q \in Int : h + way * k = q * N + o
  <2>1. CASE way = 1 /\ o > h
    <3>1. o - h \in 1 .. N /\ h + way * (o - h) = 0 * N + o
      BY <1>1, <1>3, <2>1
    <3> QED BY <3>1
  <2>2. CASE way = 1 /\ o <= h
    <3>1. o - h + N \in 1 .. N /\ h + way * (o - h + N) = 1 * N + o
      BY <1>1, <1>3, <2>2
    <3> QED BY <3>1
  <2>3. CASE way = -1 /\ o < h
    <3>1. h - o \in 1 .. N /\ h + way * (h - o) = 0 * N + o
      BY <1>1, <1>3, <2>3
    <3> QED BY <3>1
  <2>4. CASE way = -1 /\ o >= h
    <3>1. h - o + N \in 1 .. N /\ h + way * (h - o + N) = (-1) * N + o
      BY <1>1, <1>3, <2>4
    <3>2. -1 \in Int
      OBVIOUS
    <3> QED BY <3>1, <3>2
  <2> QED BY <1>3, <2>1, <2>2, <2>3, <2>4
<1>5. PICK k \in 1 .. N, q \in Int : h + way * k = q * N + o
  BY <1>4
<1>6. k \in Reached
  <2> DEFINE x == h + way * k
  <2>1. x \in Int
    BY <1>1, <1>3
  <2>2. x = q * N + o
    BY <1>5
  <2> HIDE DEF x, N
  <2>3. (x % N) = o
    BY <1>1, <1>3, <2>1, <2>2, RemainderIs
  <2> QED BY <2>3, <1>2 DEF x
<1>7. PICK m \in Reached : \A j \in Reached : m <= j
  <2>1. Reached \subseteq Nat
    BY <1>1
  <2> HIDE DEF Reached
  <2> QED BY <1>6, <2>1, LeastIsOne
<1>8. \A j \in 1 .. m - 1 : to(j) \notin O
  <2> SUFFICES ASSUME NEW j \in 1 .. m - 1, to(j) \in O PROVE FALSE
    OBVIOUS
  <2>1. m \in 1 .. N /\ j \in 1 .. N /\ j < m
    BY <1>1
  <2>2. j \in Reached
    BY <2>1
  <2> HIDE DEF Reached
  <2> QED BY <1>7, <2>1, <2>2
<1> DEFINE fits(l) == to(l) \in O /\ \A j \in 1 .. l - 1 : to(j) \notin O
<1>9. Nearest(O, h, way) = CHOOSE l \in 1 .. N : fits(l)
  BY DEF Nearest
<1>10. m \in 1 .. N /\ fits(m)
  BY <1>7, <1>8
<1>11. Nearest(O, h, way) \in 1 .. N /\ fits(Nearest(O, h, way))
  <2> HIDE DEF fits
  <2> QED BY <1>9, <1>10
<1> QED BY <1>11

\* What HourFactors is made of.
HourMeans(recorded) == [h \in {s[2] : s \in Seen(recorded)} |-> At(recorded, SeenAt(recorded, h))]
Filled(recorded) ==
    [h \in Hours |-> IF h \in DOMAIN HourMeans(recorded) THEN HourMeans(recorded)[h]
                     ELSE Interpolated(HourMeans(recorded), h)]

LEMMA FactorsOfFilled ==
    ASSUME NEW recorded
    PROVE  HourFactors(recorded)
           = [h \in Hours |-> Over(Filled(recorded)[h], Peak(Hours, Filled(recorded)))]
BY DEF HourFactors, HourMeans, Filled, Peak

LEMMA HourMeansType ==
    ASSUME NEW recorded \in Recording, HasProfile(recorded)
    PROVE  /\ DOMAIN HourMeans(recorded) \in SUBSET Hours
           /\ \A h \in DOMAIN HourMeans(recorded) :
                 /\ HourMeans(recorded)[h] = At(recorded, SeenAt(recorded, h))
                 /\ HourMeans(recorded)[h] \in Fracs
           /\ \E h \in DOMAIN HourMeans(recorded) : HourMeans(recorded)[h] # Zero
<1> DEFINE O == {s[2] : s \in Seen(recorded)}
<1>1. DOMAIN HourMeans(recorded) = O
  BY DEF HourMeans
<1>2. O \in SUBSET Hours
  BY WattsType DEF Slots
<1>3. ASSUME NEW h \in O
      PROVE  /\ HourMeans(recorded)[h] = At(recorded, SeenAt(recorded, h))
             /\ HourMeans(recorded)[h] \in Fracs
             /\ (\E s \in SeenAt(recorded, h) : recorded[s] > 0) => HourMeans(recorded)[h] # Zero
  <2>1. HourMeans(recorded)[h] = At(recorded, SeenAt(recorded, h))
    BY DEF HourMeans
  <2>2. SeenAt(recorded, h) \in SUBSET Seen(recorded) /\ SeenAt(recorded, h) # {}
    BY DEF SeenAt
  <2> QED BY <2>1, <2>2, AtType
<1>4. PICK s \in Seen(recorded) : recorded[s] > 0
  BY DEF HasProfile
<1>5. s[2] \in O /\ s \in SeenAt(recorded, s[2])
  BY DEF SeenAt
<1>6. HourMeans(recorded)[s[2]] # Zero
  BY <1>3, <1>4, <1>5
<1> HIDE DEF O
<1> QED BY <1>1, <1>2, <1>3, <1>5, <1>6

\* An hour that was never seen lies between two that were.
LEMMA FilledType ==
    ASSUME NEW recorded \in Recording, HasProfile(recorded)
    PROVE  /\ \A h \in Hours : Filled(recorded)[h] \in Fracs
           /\ \A h \in DOMAIN HourMeans(recorded) :
                 h \in Hours /\ Filled(recorded)[h] = HourMeans(recorded)[h]
           /\ \E h \in Hours : Filled(recorded)[h] # Zero
<1> DEFINE mean == HourMeans(recorded)
           O == DOMAIN mean
<1>1. O \in SUBSET Hours /\ O # {} /\ \A h \in O : mean[h] \in Fracs
  BY HourMeansType
<1>2. ASSUME NEW h \in Hours
      PROVE  Interpolated(mean, h) \in Fracs
  <2> DEFINE back == Nearest(O, h, -1)
             ahead == Nearest(O, h, 1)
             before == mean[(h - back) % HoursPerDay]
             after == mean[(h + ahead) % HoursPerDay]
  <2> HIDE DEF O, mean
  <2>1. HoursPerDay \in Nat \ {0} /\ h \in Int
    BY UsageAssumption DEF Hours
  <2>2. back \in 1 .. HoursPerDay /\ ((h + (-1) * back) % HoursPerDay) \in O
    BY <1>1, NearestIs
  <2>3. ahead \in 1 .. HoursPerDay /\ ((h + 1 * ahead) % HoursPerDay) \in O
    BY <1>1, NearestIs
  <2>4. Interpolated(mean, h)
        = Over(Plus(Times(after, Whole(back)), Times(before, Whole(ahead))), Whole(back + ahead))
    BY DEF Interpolated, O
  <2>5. before \in Fracs /\ after \in Fracs
    <3> DEFINE j == (h - back) % HoursPerDay
               k == (h + ahead) % HoursPerDay
    <3> HIDE DEF back, ahead
    <3>1. h + (-1) * back = h - back /\ h + 1 * ahead = h + ahead
      BY <2>1, <2>2, <2>3
    <3>2. j \in O /\ k \in O
      BY <2>2, <2>3, <3>1
    <3> HIDE DEF j, k
    <3>3. mean[j] \in Fracs /\ mean[k] \in Fracs
      BY <1>1, <3>2
    <3> QED BY <3>3 DEF j, k
  <2> HIDE DEF back, ahead, before, after
  <2>6. back \in Nat \ {0} /\ ahead \in Nat \ {0} /\ back + ahead \in Nat \ {0}
    BY <2>1, <2>2, <2>3
  <2>7. /\ Whole(back) \in Fracs /\ Whole(ahead) \in Fracs
        /\ Whole(back + ahead) \in Fracs /\ Whole(back + ahead) # Zero
    BY <2>6, WholeOfSome
  <2>8. Plus(Times(after, Whole(back)), Times(before, Whole(ahead))) \in Fracs
    BY <2>5, <2>7, TimesType, PlusType
  <2> QED BY <2>4, <2>7, <2>8, OverType
<1>3. ASSUME NEW h \in Hours
      PROVE  Filled(recorded)[h] = IF h \in O THEN mean[h] ELSE Interpolated(mean, h)
  BY DEF Filled
<1>4. PICK h \in O : mean[h] # Zero
  BY HourMeansType
<1> HIDE DEF O
<1>5. \A k \in Hours : Filled(recorded)[k] \in Fracs
  BY <1>1, <1>2, <1>3
<1>6. \A k \in O : k \in Hours /\ Filled(recorded)[k] = mean[k]
  BY <1>1, <1>3
<1> QED BY <1>4, <1>5, <1>6 DEF O

LEMMA PeakType ==
    ASSUME NEW recorded \in Recording, HasProfile(recorded)
    PROVE  Peak(Hours, Filled(recorded)) \in Fracs /\ Peak(Hours, Filled(recorded)) # Zero
<1> DEFINE F == Filled(recorded)
<1>1. \A h \in Hours : F[h] \in Fracs
  BY FilledType
<1>2. PICK k \in Hours : F[k] # Zero
  BY FilledType
<1> HIDE DEF F
<1>3. PICK x \in Hours : Peak(Hours, F) = F[x] /\ \A h \in Hours : ~Below(F[x], F[h])
  BY <1>1, FiniteSlots, PeakIs
<1>4. F[x] # Zero
  <2> SUFFICES ASSUME F[x] = Zero PROVE FALSE
    OBVIOUS
  <2>1. PICK a \in Nat, b \in Nat \ {0} : F[k] = Fraction(a, b)
    BY <1>1, FracIs
  <2>2. F[k].n \in Nat /\ F[k].d \in Nat \ {0} /\ F[k] = Fraction(F[k].n, F[k].d)
    BY <1>1, FracTerms
  <2>3. F[k].n # 0
    <3> DEFINE c == F[k].n
               e == F[k].d
    <3>1. c \in Nat /\ e \in Nat \ {0} /\ F[k] = Fraction(c, e)
      BY <2>2
    <3> HIDE DEF c, e
    <3>2. c # 0
      BY <1>2, <3>1, NoneIsZero
    <3> QED BY <3>2 DEF c
  <2>4. Zero.n = 0 /\ Zero.d \in Nat \ {0}
    <3>1. Zero.n \in Nat /\ Zero.d \in Nat \ {0} /\ Zero = Fraction(Zero.n, Zero.d)
      BY ZeroType, FracTerms
    <3> DEFINE c == Zero.n
               e == Zero.d
    <3>2. c \in Nat /\ e \in Nat \ {0} /\ Zero = Fraction(c, e)
      BY <3>1
    <3> HIDE DEF c, e
    <3>3. c = 0
      BY <3>2, NoneIsZero
    <3> QED BY <3>1, <3>3 DEF c
  <2>5. ~(Zero.n * F[k].d < F[k].n * Zero.d)
    BY <1>3 DEF Below
  <2>6. F[k].n * Zero.d > 0 /\ 0 * F[k].d = 0
    BY <2>2, <2>3, <2>4
  <2> QED BY <2>4, <2>5, <2>6
<1> QED BY <1>1, <1>3, <1>4 DEF F

\* The factors of a circuit that drew are fractions, some of them not nothing.
LEMMA FactorsType ==
    ASSUME NEW recorded \in Recording, HasProfile(recorded)
    PROVE  LET F == HourFactors(recorded)
           IN  /\ \A h \in Hours : F[h] \in Fracs
               /\ FSum(Hours, F) \in Fracs /\ FSum(Hours, F) # Zero
<1> DEFINE F == HourFactors(recorded)
           G == Filled(recorded)
           p == Peak(Hours, G)
<1>1. \A h \in Hours : F[h] = Over(G[h], p)
  BY FactorsOfFilled
<1>2. p \in Fracs /\ p # Zero
  BY PeakType
<1>3. \A h \in Hours : G[h] \in Fracs
  BY FilledType
<1>4. PICK k \in Hours : G[k] # Zero
  BY FilledType
<1> HIDE DEF F, G, p
<1>5. \A h \in Hours : F[h] \in Fracs
  BY <1>1, <1>2, <1>3, OverType
<1>6. F[k] # Zero
  BY <1>1, <1>2, <1>3, <1>4, OverType
<1>7. FSum(Hours, F) \in Fracs
  BY <1>5, FiniteSlots, SumType
<1>8. FSum(Hours, F) # Zero
  BY <1>5, <1>6, FiniteSlots, SumOfSomething
<1> QED BY <1>5, <1>7, <1>8 DEF F

\* To divide is to multiply by what one makes of it.
LEMMA OverIsTimes ==
    ASSUME NEW x \in Fracs, NEW p \in Fracs, p # Zero
    PROVE  /\ Over(Whole(1), p) \in Fracs
           /\ Over(x, p) = Times(Over(Whole(1), p), x)
<1>1. PICK a \in Nat, b \in Nat \ {0} : x = Fraction(a, b)
  BY FracIs
<1>2. PICK c \in Nat, e \in Nat \ {0} : p = Fraction(c, e)
  BY FracIs
<1>3. c # 0
  BY <1>2, NoneIsZero
<1>4. Whole(1) = Fraction(1, 1)
  BY WholeIs
<1>5. 1 * e \in Nat /\ 1 * c \in Nat \ {0} /\ (1 * e) * a = a * e /\ (1 * c) * b = b * c
  BY <1>3
<1>6. Over(Whole(1), p) = Fraction(1 * e, 1 * c)
  BY <1>2, <1>3, <1>4, OverOf
<1>7. Times(Over(Whole(1), p), x) = Fraction((1 * e) * a, (1 * c) * b)
  BY <1>1, <1>5, <1>6, TimesOf
<1>8. Over(x, p) = Fraction(a * e, b * c)
  BY <1>1, <1>2, <1>3, OverOf
<1> QED BY <1>5, <1>6, <1>7, <1>8, FractionType

LEMMA SumOfParts ==
    ASSUME NEW S, IsFiniteSet(S), NEW F, \A s \in S : F[s] \in Fracs,
           NEW p \in Fracs, p # Zero, NEW M, \A s \in S : M[s] = Over(F[s], p)
    PROVE  FSum(S, M) = Over(FSum(S, F), p)
<1> DEFINE k == Over(Whole(1), p)
<1>1. k \in Fracs
  BY ZeroType, OverIsTimes
<1>2. \A s \in S : M[s] = Times(k, F[s])
  BY OverIsTimes
<1> HIDE DEF k
<1>3. FSum(S, M) = Times(k, FSum(S, F))
  BY <1>1, <1>2, SumScales
<1>4. FSum(S, F) \in Fracs
  BY SumType
<1> QED BY <1>3, <1>4, OverIsTimes DEF k

\* What is scaled to a mean has that mean.
LEMMA ScaledToMean ==
    ASSUME NEW t \in Fracs, NEW s \in Fracs, s # Zero, NEW n \in Nat \ {0}
    PROVE  /\ Over(s, Whole(n)) \in Fracs /\ Over(s, Whole(n)) # Zero
           /\ Over(t, Over(s, Whole(n))) \in Fracs
           /\ Over(Times(Over(t, Over(s, Whole(n))), s), Whole(n)) = t
<1>1. PICK a \in Nat, b \in Nat \ {0} : t = Fraction(a, b)
  BY FracIs
<1>2. PICK c \in Nat, e \in Nat \ {0} : s = Fraction(c, e)
  BY FracIs
<1>3. c # 0 /\ Whole(n) = Fraction(n, 1)
  BY <1>2, NoneIsZero, WholeIs
<1>4. c * 1 \in Nat \ {0} /\ e * n \in Nat \ {0}
  BY <1>3
<1>5. Over(s, Whole(n)) = Fraction(c * 1, e * n)
  BY <1>2, <1>3, OverOf
<1>6. Over(t, Over(s, Whole(n))) = Fraction(a * (e * n), b * (c * 1))
  BY <1>1, <1>4, <1>5, OverOf
<1>7. a * (e * n) \in Nat /\ b * (c * 1) \in Nat \ {0}
  BY <1>3, <1>4
<1>8. Times(Over(t, Over(s, Whole(n))), s) = Fraction((a * (e * n)) * c, (b * (c * 1)) * e)
  BY <1>2, <1>6, <1>7, TimesOf
<1>9. (a * (e * n)) * c \in Nat /\ (b * (c * 1)) * e \in Nat \ {0}
  BY <1>3, <1>7
<1>10. Over(Times(Over(t, Over(s, Whole(n))), s), Whole(n))
       = Fraction(((a * (e * n)) * c) * 1, ((b * (c * 1)) * e) * n)
  BY <1>3, <1>8, <1>9, OverOf
<1>11. /\ ((a * (e * n)) * c) * 1 = ((e * n) * c) * a
       /\ ((b * (c * 1)) * e) * n = ((e * n) * c) * b
       /\ (e * n) * c \in Nat \ {0}
  BY <1>3, <1>4
<1>12. Fraction(((e * n) * c) * a, ((e * n) * c) * b) = Fraction(a, b)
  BY <1>11, Expanded
<1> QED BY <1>1, <1>4, <1>5, <1>6, <1>7, <1>10, <1>11, <1>12, FractionType, NoneIsZero

\* The shape of a day at its mean power is the day, each hour at its own.
LEMMA ShapeOfDay ==
    ASSUME NEW s \in Fracs, s # Zero, NEW m \in Fracs, NEW p \in Fracs, p # Zero,
           NEW days \in Nat \ {0}, NEW hours \in Nat \ {0}
    PROVE  Times(Over(Over(s, Whole(days * hours)),
                      Over(Over(Over(s, Whole(days)), p), Whole(hours))),
                 Over(m, p)) = m
<1>1. PICK a \in Nat, b \in Nat \ {0} : s = Fraction(a, b)
  BY FracIs
<1>2. PICK c \in Nat, e \in Nat \ {0} : m = Fraction(c, e)
  BY FracIs
<1>3. PICK f \in Nat, h \in Nat \ {0} : p = Fraction(f, h)
  BY FracIs
<1>4. a \in Nat \ {0} /\ f \in Nat \ {0}
  BY <1>1, <1>3, NoneIsZero
<1>5. /\ days * hours \in Nat \ {0}
      /\ Whole(days) = Fraction(days, 1) /\ Whole(hours) = Fraction(hours, 1)
      /\ Whole(days * hours) = Fraction(days * hours, 1)
  BY WholeIs
<1>6. Over(s, Whole(days * hours)) = Fraction(a * 1, b * (days * hours))
  BY <1>1, <1>5, OverOf
<1>7. Over(s, Whole(days)) = Fraction(a * 1, b * days)
  BY <1>1, <1>5, OverOf
<1>8. a * 1 \in Nat \ {0} /\ b * days \in Nat \ {0} /\ b * (days * hours) \in Nat \ {0}
  BY <1>4, <1>5
<1>9. Over(Over(s, Whole(days)), p) = Fraction((a * 1) * h, (b * days) * f)
  BY <1>3, <1>4, <1>7, <1>8, OverOf
<1>10. (a * 1) * h \in Nat \ {0} /\ (b * days) * f \in Nat \ {0}
  BY <1>4, <1>8
<1>11. Over(Over(Over(s, Whole(days)), p), Whole(hours))
       = Fraction(((a * 1) * h) * 1, ((b * days) * f) * hours)
  BY <1>5, <1>9, <1>10, OverOf
<1>12. ((a * 1) * h) * 1 \in Nat \ {0} /\ ((b * days) * f) * hours \in Nat \ {0}
  BY <1>10
<1> DEFINE u == ((b * days) * f) * hours
           v == ((a * 1) * h) * 1
           w == b * (days * hours)
<1>13. Over(Over(s, Whole(days * hours)), Over(Over(Over(s, Whole(days)), p), Whole(hours)))
       = Fraction((a * 1) * u, w * v)
  <2>1. u \in Nat \ {0} /\ v \in Nat \ {0} /\ w \in Nat \ {0}
    BY <1>8, <1>12
  <2>2. Over(Over(Over(s, Whole(days)), p), Whole(hours)) = Fraction(v, u)
    BY <1>11
  <2>3. Over(s, Whole(days * hours)) = Fraction(a * 1, w)
    BY <1>6
  <2> HIDE DEF u, v, w
  <2> QED BY <1>8, <2>1, <2>2, <2>3, OverOf
<1>14. Over(m, p) = Fraction(c * h, e * f)
  BY <1>2, <1>3, <1>4, OverOf
<1>15. (a * 1) * u \in Nat /\ w * v \in Nat \ {0} /\ c * h \in Nat /\ e * f \in Nat \ {0}
  <2>1. u \in Nat \ {0} /\ v \in Nat \ {0} /\ w \in Nat \ {0}
    BY <1>8, <1>12
  <2> HIDE DEF u, v, w
  <2> QED BY <2>1, <1>4
<1>16. Times(Fraction((a * 1) * u, w * v), Fraction(c * h, e * f))
       = Fraction(((a * 1) * u) * (c * h), (w * v) * (e * f))
  <2> DEFINE x == (a * 1) * u
             y == w * v
             i == c * h
             j == e * f
  <2>1. x \in Nat /\ y \in Nat \ {0} /\ i \in Nat /\ j \in Nat \ {0}
    BY <1>15
  <2> HIDE DEF x, y, i, j
  <2>2. Times(Fraction(x, y), Fraction(i, j)) = Fraction(x * i, y * j)
    BY <2>1, TimesOf
  <2> QED BY <2>2 DEF x, y, i, j
<1> DEFINE k == (w * v) * f
<1>17. k \in Nat \ {0}
  <2>1. w * v \in Nat \ {0}
    BY <1>15
  <2> HIDE DEF w, v
  <2> QED BY <2>1, <1>4
<1>18. ((a * 1) * u) * (c * h) = k * c
  OBVIOUS
<1>19. (w * v) * (e * f) = k * e
  OBVIOUS
<1>20. Fraction(k * c, k * e) = Fraction(c, e)
  <2> HIDE DEF k
  <2> QED BY <1>17, Expanded
<1> HIDE DEF k, u, v, w
<1> QED BY <1>2, <1>13, <1>14, <1>16, <1>18, <1>19, <1>20

------------------------------------------------------------------------
\* What an imported profile plays

HourMean(F) == Mean(Hours, LAMBDA h : F[h])

LEMMA HourMeanIs ==
    ASSUME NEW F
    PROVE  HourMean(F) = Over(FSum(Hours, F), Whole(HoursPerDay))
BY FiniteSlots DEF HourMean, Mean, FSum

\* The factors of a day, scaled to a mean, have it.
LEMMA ProfileAverages ==
    ASSUME NEW recorded \in Recording, HasProfile(recorded), NEW t \in Fracs,
           NEW G, \A h \in Hours : G[h] = Times(Over(t, HourMean(HourFactors(recorded))),
                                                HourFactors(recorded)[h])
    PROVE  HourMean(HourFactors(recorded)) # Zero /\ HourMean(G) = t
<1> DEFINE F == HourFactors(recorded)
           s == FSum(Hours, F)
           m == HourMean(F)
<1>1. (\A h \in Hours : F[h] \in Fracs) /\ s \in Fracs /\ s # Zero
  BY FactorsType
<1>2. m = Over(s, Whole(HoursPerDay))
  BY HourMeanIs
<1>3. HoursPerDay \in Nat \ {0}
  BY UsageAssumption
<1> HIDE DEF F, m
<1>4. \A h \in Hours : G[h] = Times(Over(t, m), F[h])
  BY DEF F, m
<1> HIDE DEF s
<1>5. m # Zero /\ Over(t, m) \in Fracs /\ Over(Times(Over(t, m), s), Whole(HoursPerDay)) = t
  BY <1>1, <1>2, <1>3, ScaledToMean
<1>6. FSum(Hours, G) = Times(Over(t, m), s)
  BY <1>1, <1>4, <1>5, FiniteSlots, SumScales DEF s
<1>7. HourMean(G) = Over(FSum(Hours, G), Whole(HoursPerDay))
  BY HourMeanIs
<1> QED BY <1>5, <1>6, <1>7 DEF F, m

\* Where every hour was seen, each plays the mean of that hour.
LEMMA ProfilePlays ==
    ASSUME NEW recorded \in Recording, HasProfile(recorded), Seen(recorded) = Slots, NEW h \in Hours
    PROVE  Times(Over(At(recorded, Seen(recorded)), HourMean(HourFactors(recorded))),
                 HourFactors(recorded)[h])
           = At(recorded, SeenAt(recorded, h))
<1> DEFINE F == HourFactors(recorded)
           W == Watts(recorded)
           G == Filled(recorded)
           p == Peak(Hours, G)
           s == FSum(Slots, W)
           P == [k \in Hours |-> FSum(Column(Slots, k), W)]
<1>1. HoursPerDay \in Nat \ {0} /\ DaysPerWeek \in Nat \ {0}
  BY UsageAssumption
<1>2. \A x \in Slots : W[x] \in Fracs
  BY WattsType
<1>3. ASSUME NEW k \in Hours
      PROVE  /\ SeenAt(recorded, k) = Column(Slots, k)
             /\ Cardinality(SeenAt(recorded, k)) = DaysPerWeek
             /\ SeenAt(recorded, k) # {} /\ SeenAt(recorded, k) \in SUBSET Slots
  <2>1. SeenAt(recorded, k) = Column(Slots, k)
    BY DEF SeenAt, Column
  <2>2. Column(Slots, k) = Days \X {k}
    BY DEF Slots, Column
  <2>3. IsFiniteSet({k}) /\ Cardinality({k}) = 1
    BY FS_Singleton
  <2>4. Cardinality(Days \X {k}) = DaysPerWeek * 1
    BY <2>3, FiniteSlots, FS_Product
  <2>5. DaysPerWeek * 1 = DaysPerWeek
    BY <1>1
  <2>6. Days \X {k} # {}
    <3>1. PICK d \in Days : TRUE
      BY FiniteSlots
    <3>2. <<d, k>> \in Days \X {k}
      OBVIOUS
    <3> QED BY <3>2
  <2> QED BY <2>1, <2>2, <2>4, <2>5, <2>6 DEF Column
<1>4. \A k \in Hours : k \in DOMAIN HourMeans(recorded)
  <2> TAKE k \in Hours
  <2>1. PICK x \in SeenAt(recorded, k) : TRUE
    BY <1>3
  <2>2. x \in Seen(recorded) /\ x[2] = k
    BY DEF SeenAt
  <2> QED BY <2>2 DEF HourMeans
<1>5. \A k \in Hours : /\ G[k] = At(recorded, SeenAt(recorded, k)) /\ G[k] \in Fracs
  BY <1>4, FilledType, HourMeansType
<1>6. p \in Fracs /\ p # Zero
  BY PeakType
<1>7. \A k \in Hours : F[k] = Over(G[k], p)
  BY FactorsOfFilled
<1>8. s \in Fracs /\ s # Zero
  <2>1. s \in Fracs
    BY <1>2, FiniteSlots, SumType
  <2>2. PICK x \in Slots : recorded[x] > 0
    BY DEF HasProfile
  <2>3. W[x] # Zero
    BY <2>2, WattsType
  <2> HIDE DEF W
  <2>4. s # Zero
    BY <1>2, <2>3, FiniteSlots, SumOfSomething
  <2> QED BY <2>1, <2>4
<1>9. s = FSum(Hours, P)
  <2>1. \A x \in Slots : x[2] \in Hours
    BY DEF Slots
  <2>2. \A k \in Hours : P[k] = FSum(Column(Slots, k), W)
    OBVIOUS
  <2> HIDE DEF P, W
  <2> QED BY <1>2, <2>1, <2>2, FiniteSlots, SumByHours
<1>10. \A k \in Hours : G[k] = Over(P[k], Whole(DaysPerWeek))
  <2> TAKE k \in Hours
  <2>1. At(recorded, SeenAt(recorded, k)) = Over(FSum(SeenAt(recorded, k), W), Whole(DaysPerWeek))
    BY <1>3, AtIs
  <2>2. P[k] = FSum(SeenAt(recorded, k), W)
    BY <1>3
  <2> HIDE DEF P, G, W
  <2> QED BY <1>5, <2>1, <2>2
<1>11. \A k \in Hours : P[k] \in Fracs
  <2> TAKE k \in Hours
  <2>1. Column(Slots, k) \in SUBSET Slots
    BY DEF Column
  <2> HIDE DEF W
  <2>2. FSum(Column(Slots, k), W) \in Fracs
    BY <1>2, <2>1, FiniteSlots, SumType
  <2> QED BY <2>2
<1>12. Whole(DaysPerWeek) \in Fracs /\ Whole(DaysPerWeek) # Zero
  BY <1>1, WholeOfSome
<1> HIDE DEF F, W, G, p, P
<1>13. FSum(Hours, G) = Over(s, Whole(DaysPerWeek))
  BY <1>9, <1>10, <1>11, <1>12, FiniteSlots, SumOfParts DEF s
<1>14. FSum(Hours, F) = Over(FSum(Hours, G), p)
  BY <1>5, <1>6, <1>7, FiniteSlots, SumOfParts
<1>15. HourMean(F) = Over(Over(Over(s, Whole(DaysPerWeek)), p), Whole(HoursPerDay))
  BY <1>13, <1>14, HourMeanIs
<1>16. At(recorded, Seen(recorded)) = Over(s, Whole(DaysPerWeek * HoursPerDay))
  BY FiniteSlots, AtIs DEF s, W
<1> HIDE DEF s
<1>17. Times(Over(Over(s, Whole(DaysPerWeek * HoursPerDay)),
                  Over(Over(Over(s, Whole(DaysPerWeek)), p), Whole(HoursPerDay))),
             Over(G[h], p)) = G[h]
  <2> DEFINE m == G[h]
  <2>1. m \in Fracs
    BY <1>5
  <2> HIDE DEF m
  <2>2. Times(Over(Over(s, Whole(DaysPerWeek * HoursPerDay)),
                   Over(Over(Over(s, Whole(DaysPerWeek)), p), Whole(HoursPerDay))),
              Over(m, p)) = m
    BY <1>1, <1>6, <1>8, <2>1, ShapeOfDay
  <2> QED BY <2>2 DEF m
<1>18. F[h] = Over(G[h], p) /\ G[h] = At(recorded, SeenAt(recorded, h))
  BY <1>5, <1>7
<1> QED BY <1>15, <1>16, <1>17, <1>18 DEF F

------------------------------------------------------------------------
\* The templates

\* The editor's book and the files.
Books == open \in Files /\ Book(edit) /\ saved = [f \in Files |-> saved[f]]
         /\ \A f \in Files : Book(saved[f])

TemplatesInv == Books /\ \A f \in Running : Book(engine[f].template)

LEMMA SoundAlike ==
    ASSUME NEW c, NEW t, Sound(t, c), NEW u, FullTemplate(u),
           u.mode = t.mode, u.typical = t.typical, u.day = t.day, u.cycle = t.cycle
    PROVE  Sound(u, c)
BY DEF Sound, AsImported

LEMMA BookOfOne ==
    ASSUME NEW b, Book(b), NEW c \in Circuits, NEW t, Sound(t, c)
    PROVE  Book([b EXCEPT ![c] = t])
BY DEF Book

\* The days a profile calls active are days of the week.
LEMMA ActiveAreDays ==
    ASSUME NEW recorded
    PROVE  ActiveDays(recorded) \subseteq Days
<1> DEFINE days == {s[1] : s \in Seen(recorded)}
<1>1. days \subseteq Days
  BY DEF Seen, Slots
<1>2. ActiveDays(recorded) \subseteq days
  BY DEF ActiveDays
<1> QED BY <1>1, <1>2

LEMMA ProfiledIsSound ==
    ASSUME NEW c \in Circuits, NEW t, Sound(t, c), HasProfile(Recorded[c])
    PROVE  Sound(Profiled(t, Recorded[c]), c)
<1> DEFINE u == Profiled(t, Recorded[c])
           day == [factors |-> HourFactors(Recorded[c]), drawn |-> None, peak |-> {},
                   active |-> ActiveDays(Recorded[c])]
           typical == IF t.mode = "consumer" THEN At(Recorded[c], Seen(Recorded[c])) ELSE t.typical
<1>1. FullTemplate(t)
  BY DEF Sound
<1>2. u = [t EXCEPT !.typical = typical, !.day = day, !.cycle = "duty", !.modified = FALSE]
  BY DEF Profiled
<1>3. FullDay(day) /\ day.active \subseteq Days
  BY ActiveAreDays DEF FullDay
<1> HIDE DEF day, typical, u
<1>4. u = [mode |-> t.mode, typical |-> typical, own |-> t.own, most |-> t.most, day |-> day,
           cycle |-> "duty", smart |-> t.smart, modified |-> FALSE, entity |-> t.entity,
           priority |-> t.priority, locked |-> t.locked]
  BY <1>1, <1>2 DEF FullTemplate
<1>5. /\ FullTemplate(u) /\ u.day = day /\ u.cycle = "duty" /\ u.typical = typical
      /\ u.mode = t.mode
  BY <1>4 DEF FullTemplate
<1>6. AsImported(u, c)
  BY <1>3, <1>5 DEF AsImported, typical
<1>7. Sound(u, c)
  BY <1>3, <1>5, <1>6 DEF Sound
<1> QED BY <1>7 DEF u

LEMMA PersistKeeps ==
    ASSUME Books, NEW b, Book(b), Persist(b)
    PROVE  Books'
<1>1. edit' = b /\ saved' = [saved EXCEPT ![open] = b] /\ open' = open
  BY DEF Persist
<1>2. \A f \in Files : saved'[f] = IF f = open THEN b ELSE saved[f]
  BY <1>1 DEF Books
<1>3. saved' = [f \in Files |-> saved'[f]]
  BY <1>1 DEF Books
<1> QED BY <1>1, <1>2, <1>3 DEF Books, Book

LEMMA BooksKept ==
    ASSUME Books, UNCHANGED <<saved, open, edit>>
    PROVE  Books'
BY DEF Books, Book

LEMMA PutEntityBooks ==
    ASSUME Books, NEW c \in Circuits, NEW w, NEW p, NEW l, PutEntity(c, w, p, l)
    PROVE  Books'
<1> DEFINE t == edit[c]
           own == IF w = t.typical THEN None ELSE w
           edited == [t EXCEPT !.own = own, !.priority = p, !.locked = l]
           touched == edited.modified \/ (t.entity /\ edited # t)
           u == [edited EXCEPT !.modified = touched]
<1>1. Sound(t, c) /\ FullTemplate(t)
  BY DEF Books, Book, Sound
<1>2. Persist([edit EXCEPT ![c] = u])
  BY DEF PutEntity
<1> HIDE DEF own
<1>3. edited = [mode |-> t.mode, typical |-> t.typical, own |-> own, most |-> t.most, day |-> t.day,
                cycle |-> t.cycle, smart |-> t.smart, modified |-> t.modified, entity |-> t.entity,
                priority |-> p, locked |-> l]
  <2>1. edited = [t EXCEPT !.own = own, !.priority = p, !.locked = l]
    OBVIOUS
  <2> HIDE DEF t, edited
  <2> QED BY <1>1, <2>1 DEF FullTemplate
<1> HIDE DEF t, edited, touched
<1>4. u = [mode |-> t.mode, typical |-> t.typical, own |-> own, most |-> t.most, day |-> t.day,
           cycle |-> t.cycle, smart |-> t.smart, modified |-> touched, entity |-> t.entity,
           priority |-> p, locked |-> l]
  BY <1>3
<1> HIDE DEF u
<1>5. Sound(u, c)
  <2>1. /\ FullTemplate(u) /\ u.mode = t.mode /\ u.typical = t.typical
        /\ u.day = t.day /\ u.cycle = t.cycle
    BY <1>4 DEF FullTemplate
  <2> QED BY <1>1, <2>1, SoundAlike
<1>6. Book([edit EXCEPT ![c] = u])
  BY <1>5, BookOfOne DEF Books
<1> QED BY <1>2, <1>6, PersistKeeps

LEMMA LeaveReplayBooks ==
    ASSUME Books, NEW c \in Circuits, LeaveReplay(c)
    PROVE  Books'
<1> DEFINE t == edit[c]
           u == [t EXCEPT !.modified = TRUE]
<1>1. Sound(t, c) /\ FullTemplate(t)
  BY DEF Books, Book, Sound
<1>2. Persist([edit EXCEPT ![c] = u])
  BY DEF LeaveReplay
<1> HIDE DEF t
<1>3. u = [mode |-> t.mode, typical |-> t.typical, own |-> t.own, most |-> t.most, day |-> t.day,
           cycle |-> t.cycle, smart |-> t.smart, modified |-> TRUE, entity |-> t.entity,
           priority |-> t.priority, locked |-> t.locked]
  <2>1. u = [t EXCEPT !.modified = TRUE]
    OBVIOUS
  <2> HIDE DEF u
  <2> QED BY <1>1, <2>1 DEF FullTemplate
<1> HIDE DEF u
<1>4. Sound(u, c)
  <2>1. /\ FullTemplate(u) /\ u.mode = t.mode /\ u.typical = t.typical
        /\ u.day = t.day /\ u.cycle = t.cycle
    BY <1>3 DEF FullTemplate
  <2> QED BY <1>1, <2>1, SoundAlike
<1>5. Book([edit EXCEPT ![c] = u])
  BY <1>4, BookOfOne DEF Books
<1> QED BY <1>2, <1>5, PersistKeeps

LEMMA PutProfileBooks ==
    ASSUME Books, NEW c \in Circuits, NEW shape, PutProfile(c, shape)
    PROVE  Books'
<1> DEFINE t == edit[c]
           day == IF t.day = None THEN [factors |-> None, drawn |-> shape, peak |-> {}, active |-> {}]
                  ELSE [t.day EXCEPT !.drawn = shape]
           touched == t.entity \/ t.modified
           u == [[t EXCEPT !.modified = touched] EXCEPT !.day = day]
<1>1. Sound(t, c) /\ FullTemplate(t) /\ (t.day # None => FullDay(t.day))
  BY DEF Books, Book, Sound
<1>2. edit' = [edit EXCEPT ![c] = u] /\ saved' = saved /\ open' = open
  <2>1. edit = [d \in Circuits |-> edit[d]]
    BY DEF Books, Book
  <2>2. /\ edit' = [edit EXCEPT ![c].modified = edit[c].entity \/ @,
                            ![c].day = IF @ = None
                                       THEN [factors |-> None, drawn |-> shape, peak |-> {},
                                             active |-> {}]
                                       ELSE [@ EXCEPT !.drawn = shape]]
        /\ saved' = saved /\ open' = open
    BY DEF PutProfile
  <2> QED BY <1>1, <2>1, <2>2 DEF FullTemplate
<1>3. t.day # None =>
         day = [factors |-> t.day.factors, drawn |-> shape, peak |-> t.day.peak,
                active |-> t.day.active]
  <2> HIDE DEF t
  <2> QED BY <1>1 DEF FullDay
<1>4. t.day = None => day = [factors |-> None, drawn |-> shape, peak |-> {}, active |-> {}]
  OBVIOUS
<1> HIDE DEF t, day, touched
<1>5. u = [mode |-> t.mode, typical |-> t.typical, own |-> t.own, most |-> t.most, day |-> day,
           cycle |-> t.cycle, smart |-> t.smart, modified |-> touched, entity |-> t.entity,
           priority |-> t.priority, locked |-> t.locked]
  <2>1. u = [[t EXCEPT !.modified = touched] EXCEPT !.day = day]
    OBVIOUS
  <2> HIDE DEF u
  <2> QED BY <1>1, <2>1 DEF FullTemplate
<1> HIDE DEF u
<1>6. /\ FullTemplate(u) /\ u.mode = t.mode /\ u.typical = t.typical
      /\ u.day = day /\ u.cycle = t.cycle
  BY <1>5 DEF FullTemplate
<1>7. FullDay(day)
  BY <1>3, <1>4 DEF FullDay
<1>8. AsImported(u, c)
  <2>1. CASE t.day = None
    BY <1>4, <1>6, <2>1 DEF AsImported
  <2>2. CASE t.day # None
    <3>1. day.factors = t.day.factors /\ day.active = t.day.active
      BY <1>3, <2>2
    <3> QED BY <1>1, <1>6, <2>2, <3>1 DEF AsImported, Sound
  <2> QED BY <2>1, <2>2
<1>9. Sound(u, c)
  BY <1>6, <1>7, <1>8 DEF Sound
<1>10. Book([edit EXCEPT ![c] = u])
  BY <1>9, BookOfOne DEF Books
<1> QED BY <1>2, <1>10 DEF Books, Book

LEMMA ImportBooks ==
    ASSUME Books, ImportProfiles
    PROVE  Books'
<1> DEFINE b == saved[open]
           known == {c \in Circuits : b[c].entity /\ HasProfile(Recorded[c])}
           new == [c \in Circuits |-> IF c \in known THEN Profiled(b[c], Recorded[c]) ELSE b[c]]
<1>1. Persist(new)
  BY DEF ImportProfiles
<1>2. Book(b)
  BY DEF Books
<1> HIDE DEF b
<1>3. ASSUME NEW c \in Circuits PROVE Sound(new[c], c)
  <2>1. Sound(b[c], c)
    BY <1>2 DEF Book
  <2>2. CASE c \in known
    <3>1. HasProfile(Recorded[c])
      BY <2>2
    <3> QED BY <2>1, <2>2, <3>1, ProfiledIsSound
  <2> QED BY <2>1, <2>2
<1>4. Book(new)
  <2>1. new = [c \in Circuits |-> new[c]]
    OBVIOUS
  <2> HIDE DEF new
  <2> QED BY <1>3, <2>1 DEF Book
<1> QED BY <1>1, <1>4, PersistKeeps

LEMMA BooksStep ==
    ASSUME Books, Next
    PROVE  Books'
<1>1. ASSUME NEW f \in Files, StartPanel(f) \/ ReloadPanel(f) \/ StopPanel(f) \/ Model(f)
      PROVE  Books'
  BY <1>1, BooksKept DEF StartPanel, ReloadPanel, StopPanel, Anew, Model
<1>2. ASSUME NEW f \in Files, OpenFile(f)
      PROVE  Books'
  BY <1>2 DEF OpenFile, Books, Book
<1>3. ASSUME NEW f \in Files, NEW s \in TickSlots, Tick(f, s)
      PROVE  Books'
  BY <1>3, BooksKept DEF Tick
<1>4. ASSUME NEW c \in Circuits, NEW r \in Relays, SetRelay(c, r)
      PROVE  Books'
  BY <1>4, BooksKept DEF SetRelay
<1>5. ASSUME NEW c \in Circuits, NEW w \in Typicals, NEW p \in Priorities, NEW l \in BOOLEAN,
             PutEntity(c, Whole(w), p, l)
      PROVE  Books'
  BY <1>5, PutEntityBooks
<1>6. ASSUME NEW c \in Circuits, NEW shape \in Drawn, PutProfile(c, shape)
      PROVE  Books'
  BY <1>6, PutProfileBooks
<1>7. CASE Save
  BY <1>7, PersistKeeps DEF Save, Books
<1>8. ASSUME NEW c \in Circuits, LeaveReplay(c)
      PROVE  Books'
  BY <1>8, LeaveReplayBooks
<1>9. CASE ImportProfiles
  BY <1>9, ImportBooks
<1> QED BY <1>1, <1>2, <1>3, <1>4, <1>5, <1>6, <1>7, <1>8, <1>9 DEF Next

LEMMA TemplatesStep ==
    ASSUME IInv, TemplatesInv, Next
    PROVE  TemplatesInv'
<1>1. Books'
  BY BooksStep DEF TemplatesInv
<1>2. ASSUME NEW f \in Running' PROVE Book(engine'[f].template)
  <2>1. f \in Files
    <3>1. OrderInv'
      BY IInvStep DEF IInv
    <3> QED BY <3>1 DEF OrderInv, Running
  <2>2. CASE f \in Running /\ Kept(f)
    BY <2>2 DEF TemplatesInv, Kept
  <2>3. CASE engine'[f] = Built(saved[f])
    <3>1. engine'[f].template = saved[f]
      BY <2>3 DEF Built
    <3> QED BY <2>1, <3>1 DEF TemplatesInv, Books
  <2> QED BY <1>2, <2>2, <2>3, KeptOrBuilt
<1> QED BY <1>1, <1>2 DEF TemplatesInv, Book

LEMMA TemplatesHold == Spec => []TemplatesInv
<1>1. Init => TemplatesInv
  <2> SUFFICES ASSUME Init PROVE TemplatesInv
    OBVIOUS
  <2>1. Running = {}
    BY DEF Init, Running
  <2>2. Books
    BY ShippedAssumption DEF Init, Books
  <2> QED BY <2>1, <2>2 DEF TemplatesInv
<1>2. IInv /\ TemplatesInv /\ [Next]_vars => TemplatesInv'
  <2> SUFFICES ASSUME IInv, TemplatesInv, [Next]_vars PROVE TemplatesInv'
    OBVIOUS
  <2>1. CASE Next
    BY <2>1, TemplatesStep
  <2>2. CASE UNCHANGED vars
    <3>1. Books'
      BY <2>2, BooksKept DEF vars, TemplatesInv
    <3>2. Running' = Running /\ engine' = engine
      BY <2>2 DEF vars, Running
    <3> QED BY <3>1, <3>2 DEF TemplatesInv, Book
  <2> QED BY <2>1, <2>2
<1> QED BY <1>1, <1>2, IInvAlways, PTL DEF Spec

------------------------------------------------------------------------
\* A circuit that left replay after an import

\* A template that has the recorder's profile and the circuit's typical power.
Replaying(t, c) ==
    /\ t.modified /\ t.mode = "consumer" /\ ~t.smart /\ t.own = None
    /\ t.day # None /\ t.day.drawn = None
    /\ t.day.factors # None /\ t.day.factors = HourFactors(Recorded[c])
    /\ \A s \in Slots : ~Below(t.most, Shaped(t.typical, t.day, s))

\* What it draws at an hour of an active day.
LEMMA ReplayPower ==
    ASSUME NEW c \in Circuits, NEW t, Sound(t, c), Replaying(t, c),
           NEW d \in IF t.day.active = {} THEN Days ELSE t.day.active, NEW h \in Hours
    PROVE  LET F == HourFactors(Recorded[c])
           IN  Power(t, Recorded[c], <<d, h>>, FALSE)
               = Times(Over(At(Recorded[c], Seen(Recorded[c])), HourMean(F)), F[h])
<1> DEFINE F == HourFactors(Recorded[c])
           w == At(Recorded[c], Seen(Recorded[c]))
           s == <<d, h>>
           x == Times(Over(w, HourMean(F)), F[h])
<1>1. /\ HasProfile(Recorded[c]) /\ t.cycle = "duty" /\ t.day.active \subseteq Days /\ t.typical = w
  BY DEF Sound, AsImported, Replaying
<1>2. s \in Slots /\ s[1] = d /\ s[2] = h
  BY <1>1 DEF Slots
<1>3. HourMean(F) # Zero
  <2>1. Recorded[c] \in Recording
    BY LiveAssumption DEF Recording
  <2> DEFINE G == [k \in Hours |-> Times(Over(Zero, HourMean(F)), F[k])]
  <2>2. \A k \in Hours : G[k] = Times(Over(Zero, HourMean(F)), F[k])
    OBVIOUS
  <2> HIDE DEF G
  <2> QED BY <1>1, <2>1, <2>2, ZeroType, ProfileAverages
<1>4. Mean(Hours, LAMBDA k : t.day.factors[k]) = HourMean(F)
  <2>1. t.day.factors = F
    BY DEF Replaying
  <2>2. Mean(Hours, LAMBDA k : t.day.factors[k]) = HourMean(t.day.factors)
    BY DEF HourMean
  <2> HIDE DEF F
  <2> QED BY <2>1, <2>2
<1>5. Shaped(t.typical, t.day, s) = x
  <2>1. t.day # None /\ t.day.factors # None /\ t.day.factors = F
    BY DEF Replaying
  <2>2. ~(t.day.active # {} /\ s[1] \notin t.day.active)
    BY <1>2
  <2>3. Shaped(t.typical, t.day, s)
        = LET mean == Mean(Hours, LAMBDA k : t.day.factors[k])
          IN  IF mean = Zero THEN Zero ELSE Times(Over(t.typical, mean), t.day.factors[s[2]])
    <3> HIDE DEF F, s
    <3> QED BY <2>1, <2>2 DEF Shaped
  <2> HIDE DEF F, w, s
  <2> QED BY <1>1, <1>2, <1>3, <1>4, <2>1, <2>3
<1>6. Power(t, Recorded[c], s, FALSE) = Synthetic(t, s)
  <2> HIDE DEF s
  <2> QED BY DEF Power, Replaying
<1>7. Cycled(Shaped(t.typical, t.day, s), t, s) = Shaped(t.typical, t.day, s)
  <2> HIDE DEF s
  <2> QED BY <1>1 DEF Cycled, Replaying
<1>8. Spared(Shaped(t.typical, t.day, s), t, s) = Shaped(t.typical, t.day, s)
  <2> HIDE DEF s
  <2> QED BY DEF Spared, Replaying
<1>9. Clamped(Shaped(t.typical, t.day, s), t.most) = Shaped(t.typical, t.day, s)
  <2> HIDE DEF s
  <2> QED BY <1>2 DEF Clamped, Replaying
<1>10. Synthetic(t, s) = Shaped(t.typical, t.day, s)
  <2>1. t.mode # "producer" /\ t.own = None
    BY DEF Replaying
  <2> HIDE DEF s
  <2> QED BY <1>7, <1>8, <1>9, <2>1 DEF Synthetic
<1> HIDE DEF s, x
<1> QED BY <1>5, <1>6, <1>10 DEF s, x

\* The hours of a day of a series.
DayOf(after, d) == [h \in Hours |-> after[<<d, h>>]]
DaySum(S, after, d) == Sum(S, LAMBDA h : after[<<d, h>>])

LEMMA SumOfDay ==
    ASSUME NEW after, NEW d
    PROVE  DaySum(Hours, after, d) = FSum(Hours, DayOf(after, d))
<1> DEFINE next(g, t, w) == IF t = {} THEN Zero
                            ELSE Plus(w, g[t \ {CHOOSE x \in t : TRUE}])
           first(g) == [t \in SUBSET Hours |-> next(g, t, after[<<d, CHOOSE x \in t : TRUE>>])]
           second(g) == [t \in SUBSET Hours |-> next(g, t, DayOf(after, d)[CHOOSE x \in t : TRUE])]
<1>1. DaySum(Hours, after, d) = (CHOOSE g : g = first(g))[Hours]
  BY DEF DaySum, Sum, MapThenFoldSet
<1>2. FSum(Hours, DayOf(after, d)) = (CHOOSE g : g = second(g))[Hours]
  BY DEF FSum, Sum, MapThenFoldSet
<1>3. \A g : first(g) = second(g)
  <2> TAKE g
  <2>1. ASSUME NEW t \in SUBSET Hours, t # {}
        PROVE  after[<<d, CHOOSE x \in t : TRUE>>] = DayOf(after, d)[CHOOSE x \in t : TRUE]
    BY <2>1 DEF DayOf
  <2>2. ASSUME NEW t \in SUBSET Hours
        PROVE  next(g, t, after[<<d, CHOOSE x \in t : TRUE>>])
               = next(g, t, DayOf(after, d)[CHOOSE x \in t : TRUE])
    BY <2>1, <2>2
  <2> HIDE DEF next
  <2> QED BY <2>2
<1> HIDE DEF first, second
<1>4. (CHOOSE g : g = first(g)) = (CHOOSE g : g = second(g))
  BY <1>3
<1> QED BY <1>1, <1>2, <1>4

\* Whatever was imported, edited and saved since, in files shipped without a profile or
\* with the recorder's own: a circuit that leaves replay goes on as it was recorded.
THEOREM ReplaysWhatWasSeen == Spec => []ReplaysAsSeen
<1>1. ShownInv /\ TemplatesInv => ReplaysAsSeen
  <2> SUFFICES ASSUME ShownInv, TemplatesInv, report.file # None, NEW c \in Circuits,
                      Replaying(engine[report.file].template[c], c)
               PROVE  LET t == engine[report.file].template[c]
                          seen == Seen(Recorded[c])
                          plays(d, h) == report.after[c][<<d, h>>]
                      IN  \A d \in IF t.day.active = {} THEN Days ELSE t.day.active :
                             /\ Mean(Hours, LAMBDA h : plays(d, h)) = At(Recorded[c], seen)
                             /\ seen = Slots => \A h \in Hours :
                                   plays(d, h) = At(Recorded[c], SeenAt(Recorded[c], h))
    BY DEF ReplaysAsSeen, Replaying
  <2> DEFINE e == engine[report.file]
             t == e.template[c]
             seen == Seen(Recorded[c])
             F == HourFactors(Recorded[c])
             w == At(Recorded[c], seen)
             after == report.after[c]
  <2>1. Sound(t, c)
    BY DEF ShownInv, ReportInv, TemplatesInv, Book
  <2>2. HasProfile(Recorded[c]) /\ t.day.active \subseteq Days
    BY <2>1 DEF Sound, AsImported, Replaying
  <2>3. Recorded[c] \in Recording
    BY LiveAssumption DEF Recording
  <2>4. w \in Fracs
    <3>1. seen # {}
      BY <2>2 DEF HasProfile
    <3> QED BY <2>3, <3>1, AtType
  <2>5. report.after = Series(e, Circuits, FALSE)
    <3>1. report = Answer(report.file, e)
      BY DEF ShownInv, ReportInv
    <3>2. Answer(report.file, e).after = Series(e, Circuits, FALSE)
      BY DEF Answer
    <3> QED BY <3>1, <3>2
  <2> SUFFICES ASSUME NEW d \in IF t.day.active = {} THEN Days ELSE t.day.active
               PROVE  /\ Mean(Hours, LAMBDA h : after[<<d, h>>]) = w
                      /\ seen = Slots => \A h \in Hours :
                            after[<<d, h>>] = At(Recorded[c], SeenAt(Recorded[c], h))
    OBVIOUS
  <2>6. ASSUME NEW h \in Hours
        PROVE  after[<<d, h>>] = Times(Over(w, HourMean(F)), F[h])
    <3>1. <<d, h>> \in Slots
      BY <2>2 DEF Slots
    <3>2. Power(t, Recorded[c], <<d, h>>, FALSE) = Times(Over(w, HourMean(F)), F[h])
      BY <2>1, ReplayPower
    <3>3. Series(e, Circuits, FALSE)[c][<<d, h>>] = Power(t, Recorded[c], <<d, h>>, FALSE)
      <4> DEFINE s == <<d, h>>
      <4> HIDE DEF e, s
      <4>1. Series(e, Circuits, FALSE)[c][s] = Power(e.template[c], Recorded[c], s, FALSE)
        BY <3>1, SeriesAt DEF s
      <4> QED BY <4>1 DEF s
    <3> QED BY <2>5, <3>2, <3>3
  <2> HIDE DEF after, w, F
  <2>7. Mean(Hours, LAMBDA h : after[<<d, h>>]) = w
    <3> DEFINE G == DayOf(after, d)
    <3>1. \A h \in Hours : G[h] = Times(Over(w, HourMean(F)), F[h])
      BY <2>6 DEF DayOf
    <3>2. Mean(Hours, LAMBDA h : after[<<d, h>>]) = Over(DaySum(Hours, after, d), Whole(HoursPerDay))
      BY FiniteSlots DEF Mean, DaySum
    <3>3. HourMean(G) = Over(FSum(Hours, G), Whole(HoursPerDay))
      BY HourMeanIs
    <3>4. Mean(Hours, LAMBDA h : after[<<d, h>>]) = HourMean(G)
      BY <3>2, <3>3, SumOfDay
    <3> HIDE DEF G
    <3>5. HourMean(G) = w
      BY <2>2, <2>3, <2>4, <3>1, ProfileAverages DEF F
    <3> QED BY <3>4, <3>5
  <2>8. ASSUME seen = Slots, NEW h \in Hours
        PROVE  after[<<d, h>>] = At(Recorded[c], SeenAt(Recorded[c], h))
    <3>1. Times(Over(At(Recorded[c], Seen(Recorded[c])), HourMean(HourFactors(Recorded[c]))),
                HourFactors(Recorded[c])[h])
          = At(Recorded[c], SeenAt(Recorded[c], h))
      BY <2>2, <2>3, <2>8, ProfilePlays
    <3>2. after[<<d, h>>] = Times(Over(w, HourMean(F)), F[h])
      BY <2>6
    <3> QED BY <3>1, <3>2 DEF w, F
  <2> QED BY <2>7, <2>8
<1> QED BY <1>1, ShownHolds, TemplatesHold, PTL
====
