--------------------------- MODULE SimulationTime ---------------------------
(***************************************************************************)
(* What time it is in a panel, and what the panel's recorder replays at    *)
(* that time: the clock (clock.py), the recorder data source (recorder.py) *)
(* and the engine that joins them (engine.py), from the panel's start to   *)
(* its stop, with the dashboard's time controls and its modelling view,    *)
(* which may replace the recorded series while the panel replays them.     *)
(*                                                                         *)
(* Times are integers.  A statistics period lasts Period, and the recorder *)
(* returns it once it is over.  An entity's power at a time stands for the *)
(* mean it was recorded with; the noise added to what is replayed is left  *)
(* out, and interpolation rounds down.                                     *)
(***************************************************************************)
EXTENDS Integers, FiniteSets, FiniteSetsExt

CONSTANTS
    Entities,     \* recorder entities the panel's circuits name
    Times,        \* bound: the times Now may be set to
    Speeds,       \* the accelerations the dashboard's slider offers
    FirstWall, LastWall,  \* bound: the wall clock
    Never,        \* no start time
    Params,       \* the simulation_params a config may hold
    History,      \* for each entity, the periods its sensor was recorded in
    Recorded,     \* the mean of each entity in each period
    Period,       \* the length of a statistics period
    Lag,          \* _FALLBACK_THRESHOLD_S
    Lookback,     \* _HOURLY_LOOKBACK
    Horizons,     \* the lookbacks the modelling view asks for
    MaxViews      \* bound: modelling views loading at once

ASSUME TimeAssumption ==
    /\ Times \subseteq Int
    /\ Speeds \subseteq Nat
    /\ FirstWall \in Int /\ LastWall \in Int /\ FirstWall <= LastWall
    /\ Never \notin Times
    /\ Params \subseteq [use: BOOLEAN, accel: Speeds, start: Times \union {Never}]
    /\ History \in [Entities -> SUBSET Int]
    /\ \A e \in Entities : IsFiniteSet(History[e])
    /\ \A e \in Entities : Recorded[e] \in [History[e] -> Int]
    /\ Period \in Nat /\ Lag \in Nat /\ Lookback \in Nat
    /\ Horizons \subseteq Nat /\ MaxViews \in Nat

Walls == FirstWall..LastWall

VARIABLES
    wall,        \* time.time()
    panel,       \* "stopped", "loading", "starting", "running"
    since,       \* when the load under way began
    series,      \* RecorderDataSource._series: the periods held of each entity
    expansions,  \* ensure_lookback()s awaiting their statistics
    useSim,      \* _use_simulation_time
    realStart,   \* _real_start_time
    offset,      \* _time_offset
    accel        \* _time_acceleration

clock == <<useSim, realStart, offset, accel>>
vars == <<wall, panel, since, series, expansions, clock>>

\* Types, and what they owe to the wall clock: the clock is anchored in the
\* past, and nothing is held that was not over when it was fetched.
SimTypeOK ==
    /\ wall \in Walls
    /\ panel \in {"stopped", "loading", "starting", "running"}
    /\ since \in Walls
    /\ series \in [Entities -> SUBSET Int]
    /\ \A e \in Entities : \A p \in series[e] : p \in History[e] /\ p + Period <= wall
    /\ expansions \subseteq [since: Walls, lookback: Horizons]
    /\ useSim \in BOOLEAN
    /\ realStart \in Int /\ realStart <= wall
    /\ offset \in Int
    /\ accel \in Speeds \union {1}

Init ==
    /\ wall = FirstWall
    /\ panel = "stopped"
    /\ since = FirstWall
    /\ series = [e \in Entities |-> {}]
    /\ expansions = {}
    /\ useSim = FALSE
    /\ realStart = FirstWall
    /\ offset = 0
    /\ accel = 1

CurrentTime ==
    IF useSim THEN realStart + offset + (wall - realStart) * accel ELSE wall

\* The multiplier in force.
Rate == IF useSim THEN accel ELSE 1

-----------------------------------------------------------------------------
(***************************************************************************)
(* The recorder.                                                           *)
(***************************************************************************)

\* What the history provider answers now to a query that began at `from'.
Statistics(e, from, lookback) ==
    {p \in History[e] : from - lookback <= p /\ p + Period <= wall}

\* load(): an entity with no data keeps what it had.
Load(from, lookback) ==
    series' = [e \in Entities |-> IF Statistics(e, from, lookback) = {} THEN series[e]
                                  ELSE Statistics(e, from, lookback)]

Held == UNION {series[e] : e \in Entities}

IsLoaded == Held # {}

Coverage == Max(Held) - Min(Held)

\* Mutant of Clamp: the threshold itself is clamped.
ClampInclusive(e, t) ==
    IF t - Max(series[e]) \in 1..Lag THEN Max(series[e]) ELSE t

\* A time just past the window reads as its end.
Clamp(e, t) ==
    IF t - Max(series[e]) \in 1..(Lag - 1) THEN Max(series[e]) ELSE t

OutsideWindow(e, t) == t < Min(series[e]) \/ t > Max(series[e])

\* Any other time outside it is wrapped into it, for looping playback.
Wrap(e, t) ==
    IF OutsideWindow(e, t)
    THEN Min(series[e]) + ((t - Min(series[e])) % (Max(series[e]) - Min(series[e])))
    ELSE t

\* get_power(), for an entity that has data.
GetPower(e, t) ==
    LET s == series[e]
        u == Wrap(e, Clamp(e, t))
        p == Max({x \in s : x <= u})
        q == Min({x \in s : x > u})
        v == Recorded[e]
    IN  IF Max(s) = Min(s) THEN v[Min(s)]
        ELSE IF u = Max(s) THEN v[u]
        ELSE v[p] + ((u - p) * (v[q] - v[p])) \div (q - p)

-----------------------------------------------------------------------------
(***************************************************************************)
(* The panel's life.                                                       *)
(***************************************************************************)
Pass ==
    /\ wall < LastWall
    /\ wall' = wall + 1
    /\ UNCHANGED <<panel, since, series, expansions, clock>>

BeginStart ==
    /\ panel = "stopped"
    /\ panel' = "loading"
    /\ since' = wall
    /\ UNCHANGED <<wall, series, expansions, clock>>

\* The recorder has its data, or the panel does without, and the engine is
\* built with a clock that started just now.
StartLoaded ==
    /\ panel = "loading"
    /\ panel' = "starting"
    /\ Load(since, Lookback) \/ UNCHANGED series
    /\ useSim' = FALSE
    /\ realStart' = wall
    /\ offset' = 0
    /\ accel' = 1
    /\ since' = FirstWall
    /\ UNCHANGED <<wall, expansions>>

\* Mutant of Anchor: the clock is anchored at the time it was set to.
AnchorInTheFuture(t) ==
    /\ useSim' = TRUE
    /\ realStart' = t
    /\ offset' = 0

\* set_time() to a time that can be read: anchor the clock at it, now.
Anchor(t) ==
    /\ useSim' = TRUE
    /\ realStart' = wall
    /\ offset' = t - wall

\* The engine is ready: the clock is the config's, and, where there is recorded
\* data, stands at the end of it.
Initialize(p) ==
    /\ panel = "starting"
    /\ panel' = "running"
    /\ accel' = p.accel
    /\ IF IsLoaded
       THEN Anchor(Max(Held))
       ELSE /\ useSim' = p.use
            /\ offset' = IF p.use /\ p.start # Never THEN p.start - realStart ELSE 0
            /\ UNCHANGED realStart
    /\ UNCHANGED <<wall, since, series, expansions>>

\* A stopped panel's engine, with its clock and recorder, is gone.
Stop ==
    /\ panel \in {"starting", "running"}
    /\ panel' = "stopped"
    /\ series' = [e \in Entities |-> {}]
    /\ expansions' = {}
    /\ useSim' = FALSE
    /\ realStart' = FirstWall
    /\ offset' = 0
    /\ accel' = 1
    /\ UNCHANGED <<wall, since>>

-----------------------------------------------------------------------------
(***************************************************************************)
(* The dashboard's time controls.                                          *)
(***************************************************************************)
SetTime(t) ==
    /\ panel = "running"
    /\ Anchor(t)
    /\ UNCHANGED <<wall, panel, since, series, expansions, accel>>

\* set_time() to what is not a time: back to the wall clock.
SetTimeRefused ==
    /\ panel = "running"
    /\ useSim' = FALSE
    /\ realStart' = wall
    /\ UNCHANGED <<wall, panel, since, series, expansions, offset, accel>>

TimeSet == SetTimeRefused \/ \E t \in Times : SetTime(t)

\* Mutant of SetAcceleration: the new multiplier applies since the old anchor.
SetAccelerationFromTheStart(a) ==
    /\ panel = "running"
    /\ accel' = a
    /\ useSim' = TRUE
    /\ IF useSim THEN UNCHANGED <<realStart, offset>>
       ELSE realStart' = wall /\ offset' = 0
    /\ UNCHANGED <<wall, panel, since, series, expansions>>

\* The time_acceleration setter.  Not yet simulating time, it begins to; else
\* the clock is anchored anew at the time it shows.
SetAcceleration(a) ==
    /\ panel = "running"
    /\ accel' = a
    /\ useSim' = TRUE
    /\ realStart' = wall
    /\ offset' = IF useSim THEN CurrentTime - wall ELSE 0
    /\ UNCHANGED <<wall, panel, since, series, expansions>>

-----------------------------------------------------------------------------
(***************************************************************************)
(* The modelling view: compute_modeling_data() awaits ensure_lookback(),   *)
(* which replaces the series the panel is replaying.                       *)
(***************************************************************************)
Expand(h) ==
    /\ panel = "running"
    /\ IsLoaded
    /\ Coverage < h
    /\ Cardinality(expansions) < MaxViews
    /\ expansions' = expansions \union {[since |-> wall, lookback |-> h]}
    /\ UNCHANGED <<wall, panel, since, series, clock>>

ExpansionLoaded(x) ==
    /\ Load(x.since, x.lookback)
    /\ expansions' = expansions \ {x}
    /\ UNCHANGED <<wall, panel, since, clock>>

ExpansionFails(x) ==
    /\ expansions' = expansions \ {x}
    /\ UNCHANGED <<wall, panel, since, series, clock>>

-----------------------------------------------------------------------------
Next ==
    \/ Pass
    \/ BeginStart \/ StartLoaded \/ (\E p \in Params : Initialize(p)) \/ Stop
    \/ TimeSet
    \/ \E a \in Speeds : SetAcceleration(a)
    \/ \E h \in Horizons : Expand(h)
    \/ \E x \in expansions : ExpansionLoaded(x) \/ ExpansionFails(x)

Spec == Init /\ [][Next]_vars

-----------------------------------------------------------------------------
(***************************************************************************)
(* Properties.                                                             *)
(***************************************************************************)

\* While a panel runs, its time moves with the wall clock at the rate in force,
\* and by nothing else but set_time: a change of speed, or the first move from
\* wall time to simulated time, neither jumps it nor takes it back.
ClockKeepsItsRate ==
    [][panel = "running" /\ panel' = "running" /\ ~TimeSet
         => CurrentTime' - CurrentTime = Rate * (wall' - wall)]_vars

\* Two periods of an entity with none held between them.
Adjacent(s, p, q) == p <= q /\ \A x \in s : x <= p \/ x >= q

\* What is replayed at u from between p and q is nothing the sensor did not show.
Between(e, t, p, q) ==
    LET a == Recorded[e][p]
        b == Recorded[e][q]
    IN  GetPower(e, t) \in Min({a, b})..Max({a, b})

\* Whatever time it is, and whatever has replaced the series meanwhile, what is
\* replayed lies between two neighbouring records around that time; around the
\* last one for a time just past the window; around a time a whole number of
\* windows away for any other.
ReplayIsRecorded ==
    panel = "running" =>
        \A e \in {x \in Entities : series[x] # {}} :
            LET s == series[e]
                first == Min(s)
                last == Max(s)
            IN  \E p, q \in s, u \in first..last :
                    /\ p <= u /\ u <= q /\ Adjacent(s, p, q)
                    /\ u \in s => p = q
                    /\ Between(e, CurrentTime, p, q)
                    /\ CurrentTime \in first..last => u = CurrentTime
                    /\ CurrentTime - last \in 1..(Lag - 1) => u = last
                    /\ first < last => \/ CurrentTime - last \in 1..(Lag - 1)
                                       \/ (CurrentTime - u) % (last - first) = 0
=============================================================================
