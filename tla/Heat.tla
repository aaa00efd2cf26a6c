-------------------------------- MODULE Heat --------------------------------
(***************************************************************************)
(* The heat of a page: what page_access adds, what pipeline_observe takes  *)
(* away, what the field engine moves (field.c), and the class state_heat   *)
(* gives (state.c).  No step of it looks at another page, so one page is   *)
(* enough.                                                                 *)
(*                                                                         *)
(* Reals are integers in units of 1/One, rounded up or down, whichever: a  *)
(* step may take either neighbour.  A state is its heat component x and    *)
(* the length w of the other two, which move along the versor only and     *)
(* keep their ratio.                                                       *)
(***************************************************************************)
EXTENDS Integers, Sequences

CONSTANTS
    One,         \* units in one
    TickMs,      \* rt->tick_interval_ms, which is also dt
    ClockStamps, \* accesses are stamped with the clock of the ticks
    MaxHeat      \* bound on x: a page is not accessed beyond it

MaxNorm == MaxHeat + One \div 2     \* no state gets this far

ASSUME HeatAssumption ==
    /\ One \in Nat \ {0} /\ MaxHeat \in Nat /\ MaxHeat > 2 * One
    /\ TickMs \in 1 .. 1000 /\ ClockStamps \in BOOLEAN

VARIABLES
    x, w,       \* state.raw
    level,      \* heat.level
    quiet,      \* (history) for how long no access: "none", "short", or
                \* "long", for more than a second
    accessed,   \* (history) page_access ran since the last tick
    busy,       \* (history) there was an access before the last tick
    ran,        \* (history) the operators that the last tick applied
    decayed     \* (history) the last tick decayed the heat

heatVars == <<x, w, level, quiet, accessed, busy, ran, decayed>>

-----------------------------------------------------------------------------
(* Numbers                                                                 *)

Round(n, d) == (2 * n + d) \div (2 * d)       \* to the nearest
Rounded(n, d) == {n \div d, -((-n) \div d)}   \* down and up

\* vec3_norm of the state: two of Newton's steps from a near guess.
Norm(heat, rest) ==
    LET square == heat * heat + rest * rest
        guess == IF heat > rest THEN heat + rest \div 2 ELSE rest + heat \div 2
        better == (guess + square \div guess) \div 2
    IN  (better + square \div better) \div 2

-----------------------------------------------------------------------------
(* state_heat: value > 0.8, value > 0.3, both sides squared.               *)

Squares(heat, rest) == heat * heat + rest * rest + One * One

Level(heat, rest) ==
    CASE 100 * heat * heat > 64 * Squares(heat, rest) -> "hot"
      [] 100 * heat * heat <= 9 * Squares(heat, rest) -> "cold"
      [] OTHER -> "warm"

-----------------------------------------------------------------------------
(* The field engine.  Its one field has no force: an operator is what it    *)
(* makes of the magnitude m, in ten-thousandths of a unit per second.       *)

Operator(apply, m) ==
    CASE apply \in {"physics", "vortex", "wave", "entanglement", "ai"} -> 0
      [] apply = "behavior"    -> 1000 * (One - m)
      [] apply = "control"     -> 20000 * (One - m)
      [] apply = "blackhole"   -> -2000 * m
      [] apply = "whitehole"   -> 2000 * m
      [] apply = "measurement" -> 1000 * m

\* operator_create: the types its switch does not know are physics.
Known == {"physics", "ai", "behavior", "diffusion", "control", "blackhole",
          "whitehole", "vortex", "wave", "entanglement", "measurement"}

Create(type, strength) ==
    [type |-> type, strength |-> strength,
     apply |-> IF type \in Known THEN type ELSE "physics"]

\* field_engine_init
Registered ==
    << Create("physics", 100), Create("behavior", 50), Create("control", 80),
       Create("blackhole", 30), Create("whitehole", 30), Create("vortex", 20),
       Create("wave", 10), Create("reaction_diffusion", 5),
       Create("entanglement", 15), Create("measurement", 5) >>

Applied == {Registered[k].apply: k \in DOMAIN Registered}

FieldStrength == 10         \* hundredths
Diffusion(m) == One \div 2 - m    \* hundredths of a unit per second

\* field_engine_apply: the length of the change along the versor in dt, in
\* ten-thousandths of a unit.
Push == [m \in 0 .. MaxNorm |->
    LET sum[k \in 0 .. Len(Registered)] ==
          IF k = 0 THEN 0
          ELSE sum[k - 1] + (Operator(Registered[k].apply, m) * Registered[k].strength) \div 100
        perSecond == (sum[Len(Registered)] * FieldStrength) \div 100 + 100 * Diffusion(m)
    IN  Round(perSecond * TickMs, 1000)]

\* field_engine_step_page
Moved(part, m, push) == {part + d: d \in Rounded((part * push) \div 100, 100 * m)}

-----------------------------------------------------------------------------
(* page_alloc starts a page at heat 0.1, cmd_gui at up to 1; rate and width  *)
(* are 0.01.                                                                *)

HeatInit ==
    /\ x \in {One \div 10, One} /\ w \in Rounded(141 * One, 10000)
    /\ level = Level(x, w)
    /\ quiet = "long" /\ accessed = FALSE /\ busy = FALSE
    /\ ran = {} /\ decayed = FALSE

\* page_access, at most once between two ticks.
Access ==
    /\ ~accessed /\ x < MaxHeat
    /\ x' = x + One \div 20 /\ level' = Level(x', w)
    /\ quiet' = "none" /\ accessed' = TRUE
    /\ UNCHANGED <<w, busy, ran, decayed>>

\* Mutant: the heat is left as it is.
ObservedUndecayed(old) == {x}

\* Mutant: the age is not looked at.
ObservedAlwaysDecayed(old) ==
    {IF d < One \div 100 THEN One \div 100 ELSE d: d \in Rounded(95 * x, 100)}

\* pipeline_observe
Observed(old) ==
    IF ~old THEN {x}
    ELSE {IF d < One \div 100 THEN One \div 100 ELSE d: d \in Rounded(95 * x, 100)}

\* A second is any number of ticks.
Quieter == CASE quiet = "none" -> {"short"}
             [] quiet = "short" -> {"short", "long"}
             [] quiet = "long" -> {"long"}

\* timestamp_ns - last_access_ts is more than a second.  cmd_demo stamps
\* accesses with the cycle's number, which is far from the clock.
Old(q) == q = "long" \/ ~ClockStamps

\* pipeline_tick: observe, and commit with the states it left.
Tick ==
    /\ quiet' \in Quieter
    /\ decayed' = Old(quiet')
    /\ \E heat \in Observed(decayed'):
         LET m == Norm(heat, w)
             push == Push[m]
         IN  /\ x' \in Moved(heat, m, push)
             /\ w' \in Moved(w, m, push)
             /\ level' = Level(x', w')
    /\ busy' = accessed /\ accessed' = FALSE
    /\ ran' = Applied

HeatNext == Access \/ Tick

\* The ticks go on.
HeatSpec == HeatInit /\ [][HeatNext]_heatVars /\ WF_heatVars(Tick)

-----------------------------------------------------------------------------
(* Properties                                                              *)

(* A page that is left alone for ever becomes cold and stays cold, however    *)
(* hot it was (pipeline.c:44-54, state.c:22-46): the decay of the heat wins   *)
(* over the field engine, which pulls every state towards length one all the *)
(* time (field.c:188-220).                                                   *)
IdleCools == <>[](quiet = "long") => <>[](level = "cold")

(* A page that is accessed before every tick becomes hot, from whatever heat *)
(* (page.c:145-148), although the same pull shortens what is longer than one. *)
BusyHeats == <>[]busy => <>(level = "hot")

(* "Decay heat if not accessed recently" (pipeline.c:48): a tick decays the   *)
(* heat of a page only when its last access is more than a second back.      *)
DecaysOnlyIdle == decayed /\ ~accessed => quiet = "long"

(* "Register cosmic operators" (field.c:157): the evolution of a page applies *)
(* every operator that field_engine_init registers.                          *)
OperatorsApply ==
    ran # {} => \A k \in DOMAIN Registered: Registered[k].type \in ran
=============================================================================
