-------------------------- MODULE DashboardProofs --------------------------
(***************************************************************************)
(* Theorems about cmd_gui and its two threads, for every set of pages,     *)
(* tiers and durations, and without a bound on samples or moves.           *)
(***************************************************************************)
EXTENDS Dashboard, SequenceTheorems, FiniteSetTheorems, TLAPS

\* From here to there, cmd_gui has its tables.
Between == {"pages", "spawn", "window", "poll", "sample", "draw", "stop", "join"}

\* NoUseAfterFree says nothing of how far each thread is from the other's
\* end: the thread exists between its creation and the join only, and the
\* frees are behind the join.
LifeInv ==
    /\ main \in Between \cup {"faults"} => Tables \subseteq live
    /\ main \in Between => "pf" \in live
    /\ main \in {"tables", "faults", "pages", "spawn"} => thread = "none"
    /\ thread \notin {"none", "ended"} => main \in Between

(* Setting up: each step that goes on has made what the next ones use.     *)
LEMMA SetupStep ==
    ASSUME LifeInv, Setup
    PROVE  LifeInv'
<1> USE DEF LifeInv, Between, Tables, mainOnly, shared
<1>1. CASE InitTables
  BY <1>1 DEF InitTables
<1>2. CASE InitFaults
  BY <1>2 DEF InitFaults
<1>3. CASE CreatePages
  BY <1>3 DEF CreatePages
<1>4. CASE Spawn
  BY <1>4 DEF Spawn
<1>5. CASE OpenWindow
  BY <1>5 DEF OpenWindow
<1> QED
  BY <1>1, <1>2, <1>3, <1>4, <1>5 DEF Setup

(* Frames and the closing of the window free nothing.                      *)
LEMMA FrameStep ==
    ASSUME LifeInv, Frame \/ CloseWindow
    PROVE  LifeInv'
<1> USE DEF LifeInv, Between, guiOnly, shared
<1>1. CASE Poll
  BY <1>1 DEF Poll
<1>2. CASE Sample
  BY <1>2 DEF Sample
<1>3. CASE DrawTier
  BY <1>3 DEF DrawTier
<1>4. CASE EndFrame
  BY <1>4 DEF EndFrame
<1>5. CASE CloseWindow
  BY <1>5 DEF CloseWindow
<1> QED
  BY <1>1, <1>2, <1>3, <1>4, <1>5 DEF Frame

(* The pipeline's thread leaves main and live alone, and comes back to life *)
(* never.                                                                  *)
LEMMA ThreadStep ==
    ASSUME LifeInv, PipelineThread
    PROVE  LifeInv'
<1>1. thread \notin {"none", "ended"} /\ UNCHANGED <<main, live>>
  BY DEF PipelineThread, TestRunning, MoveOut, MoveIn, EndTick, Publish, threadOnly, guiFrame
<1>2. main \in Between
  BY <1>1 DEF LifeInv
<1>3. main \notin {"tables", "faults", "pages", "spawn"}
  BY <1>1 DEF LifeInv
<1> QED
  BY <1>1, <1>2, <1>3 DEF LifeInv

(* What is freed is freed behind the join.                                 *)
LEMMA ShutdownStep ==
    ASSUME LifeInv, Shutdown
    PROVE  LifeInv'
<1> USE DEF LifeInv, Between, mainOnly, shared
<1>1. CASE Stop
  BY <1>1 DEF Stop
<1>2. CASE Join
  BY <1>2 DEF Join
<1>3. CASE Free
  <2>1. thread \in {"none", "ended"}
    BY <1>3 DEF Free
  <2>2. main' \in {"free", "exited"} /\ thread' = thread
    BY <1>3 DEF Free
  <2> QED
    BY <2>1, <2>2
<1> QED
  BY <1>1, <1>2, <1>3 DEF Shutdown

(* The invariant holds throughout.                                         *)
LEMMA LifeInvariant == Spec => []LifeInv
<1>1. Init => LifeInv
  BY DEF Init, LifeInv, Between
<1>2. LifeInv /\ [Next]_vars => LifeInv'
  <2> SUFFICES ASSUME LifeInv, [Next]_vars PROVE LifeInv'
    OBVIOUS
  <2>1. CASE Setup
    BY <2>1, SetupStep
  <2>2. CASE Frame \/ CloseWindow
    BY <2>2, FrameStep
  <2>3. CASE PipelineThread
    BY <2>3, ThreadStep
  <2>4. CASE Shutdown
    BY <2>4, ShutdownStep
  <2>5. CASE Exited \/ UNCHANGED vars
    BY <2>5 DEF Exited, vars, LifeInv
  <2> QED
    BY <2>1, <2>2, <2>3, <2>4, <2>5 DEF Next
<1> QED
  BY <1>1, <1>2, PTL DEF Spec

(* Neither thread uses what cmd_gui has freed, wherever the other is when   *)
(* the window is closed (main.c:1731-1742).                                *)
THEOREM NothingUsedAfterFree == Spec => []NoUseAfterFree
<1>1. LifeInv => NoUseAfterFree
  BY DEF LifeInv, NoUseAfterFree, Between
<1> QED
  BY <1>1, LifeInvariant, PTL

-----------------------------------------------------------------------------
(* The chart.                                                              *)

Measurement == [cycle: Nat, vram: Nat]

\* The chart, sample by sample, and the types of what is sampled.
ChartInv ==
    /\ duration \in Nat /\ stats \in Nat /\ snap \in [set: BOOLEAN, vram: Nat]
    /\ window \in Seq(Measurement) /\ samples \in Seq(Measurement)
    /\ Len(window) = IF Len(samples) <= Window THEN Len(samples) ELSE Window
    /\ \A n \in 1 .. Len(window) : window[n] = samples[Len(samples) - Len(window) + n]

(* A sample more: the window grows or is shifted.                          *)
LEMMA ChartSample ==
    ASSUME ChartInv, Sample
    PROVE  ChartInv'
<1>1. /\ window \in Seq(Measurement) /\ samples \in Seq(Measurement)
      /\ Len(window) \in Nat /\ Len(samples) \in Nat /\ Window \in Nat \ {0}
      /\ UNCHANGED <<duration, stats, snap>>
      /\ Len(window) = IF Len(samples) <= Window THEN Len(samples) ELSE Window
      /\ \A n \in 1 .. Len(window) : window[n] = samples[Len(samples) - Len(window) + n]
  BY DashboardAssumption, LenProperties DEF ChartInv, Sample, guiOnly, shared
<1>2. Measured \in Measurement
  <2>1. duration \in Nat /\ snap.vram \in Nat
    BY DEF ChartInv
  <2> QED
    BY <2>1 DEF Measured, Measurement
<1>3. CASE UNCHANGED <<window, samples>>
  BY <1>1, <1>3 DEF ChartInv
<1>4. CASE window' = Pushed(window, Measured) /\ samples' = Append(samples, Measured)
  <2> DEFINE new == Measured
  <2>0. new \in Measurement /\ samples' = Append(samples, new)
    BY <1>2, <1>4
  <2>a. window' = IF Len(window) < Window THEN Append(window, new) ELSE Append(Tail(window), new)
    BY <1>4 DEF Pushed
  <2> HIDE DEF new
  <2>1. /\ samples' \in Seq(Measurement) /\ Len(samples') = Len(samples) + 1
        /\ \A n \in 1 .. Len(samples) : samples'[n] = samples[n]
        /\ samples'[Len(samples) + 1] = new
    BY <1>1, <2>0, AppendProperties
  <2>2. CASE Len(window) < Window
    <3>1. /\ window' \in Seq(Measurement) /\ Len(window') = Len(window) + 1
          /\ \A n \in 1 .. Len(window) : window'[n] = window[n]
          /\ window'[Len(window) + 1] = new
      BY <1>1, <2>0, <2>2, <2>a, AppendProperties
    <3>2. Len(window) = Len(samples) /\ Len(samples) < Window
      BY <1>1, <2>2
    <3>3. Len(window') = IF Len(samples') <= Window THEN Len(samples') ELSE Window
      BY <1>1, <2>1, <3>1, <3>2
    <3>4. ASSUME NEW n \in 1 .. Len(window')
          PROVE  window'[n] = samples'[Len(samples') - Len(window') + n]
      <4>0. n \in Int /\ Len(samples') = Len(window')
        BY <1>1, <2>1, <3>1, <3>2
      <4>1. Len(samples') - Len(window') + n = n
        BY <1>1, <3>1, <4>0
      <4>2. n \in 1 .. Len(window) \/ n = Len(window) + 1
        BY <1>1, <3>1
      <4>3. n \in 1 .. Len(window) => window[n] = samples[n]
        BY <1>1, <3>2
      <4> QED
        BY <2>1, <3>1, <3>2, <4>1, <4>2, <4>3
    <3> QED
      BY <1>1, <2>1, <3>1, <3>3, <3>4 DEF ChartInv
  <2>3. CASE Len(window) >= Window
    <3>1. Len(window) = Window /\ Len(samples) >= Window /\ window # << >>
      BY <1>1, <2>3
    <3>2. /\ Tail(window) \in Seq(Measurement) /\ Len(Tail(window)) = Window - 1
          /\ \A n \in 1 .. Window - 1 : Tail(window)[n] = window[n + 1]
      BY <1>1, <3>1, HeadTailProperties
    <3> DEFINE w == Tail(window)
    <3>b. window' = Append(w, new)
      BY <1>1, <2>3, <2>a
    <3> HIDE DEF w
    <3>3. /\ window' \in Seq(Measurement) /\ Len(window') = Len(w) + 1
          /\ \A n \in 1 .. Len(w) : window'[n] = w[n]
          /\ window'[Len(w) + 1] = new
      BY <2>0, <3>2, <3>b, AppendProperties DEF w
    <3>4. /\ Len(window') = Window
          /\ \A n \in 1 .. Window - 1 : window'[n] = window[n + 1]
          /\ window'[Window] = new
      BY <1>1, <3>2, <3>3 DEF w
    <3>5. Len(window') = IF Len(samples') <= Window THEN Len(samples') ELSE Window
      BY <1>1, <2>1, <3>1, <3>4
    <3>6. ASSUME NEW n \in 1 .. Len(window')
          PROVE  window'[n] = samples'[Len(samples') - Len(window') + n]
      <4>1. CASE n = Window
        BY <1>1, <2>1, <3>4, <4>1
      <4>2. CASE n \in 1 .. Window - 1
        <5>0. n + 1 \in 1 .. Len(window) /\ Len(window) = Window
          BY <1>1, <3>1, <4>2
        <5>1. window[n + 1] = samples[Len(samples) - Window + (n + 1)]
          BY <1>1, <5>0, Zenon
        <5>2. /\ Len(samples') - Len(window') + n = Len(samples) - Window + (n + 1)
              /\ Len(samples) - Window + (n + 1) \in 1 .. Len(samples)
          BY <1>1, <2>1, <3>1, <3>4, <4>2
        <5> QED
          BY <2>1, <3>4, <4>2, <5>1, <5>2
      <4> QED
        BY <1>1, <3>4, <4>1, <4>2
    <3> QED
      BY <1>1, <2>1, <3>3, <3>5, <3>6 DEF ChartInv
  <2> QED
    BY <1>1, <2>2, <2>3
<1> QED
  BY <1>3, <1>4 DEF Sample

(* Every other step leaves the samples alone.                              *)
LEMMA ChartStep == ChartInv /\ [Next]_vars => ChartInv'
<1> SUFFICES ASSUME ChartInv, [Next]_vars PROVE ChartInv'
  OBVIOUS
<1> USE DEF ChartInv
<1>1. CASE Sample
  BY <1>1, ChartSample
<1>2. CASE Setup \/ Shutdown \/ CloseWindow \/ Exited \/ UNCHANGED vars
  <2>1. UNCHANGED <<duration, stats, snap, window, samples>>
    BY <1>2 DEF Setup, Shutdown, InitTables, InitFaults, CreatePages, Spawn, OpenWindow,
       Stop, Join, Free, CloseWindow, Exited, vars, mainOnly, shared
  <2> QED
    BY <2>1
<1>3. CASE Poll \/ DrawTier \/ EndFrame
  <2>1. UNCHANGED <<duration, stats, snap, window, samples>>
    BY <1>3 DEF Poll, DrawTier, EndFrame, guiOnly, shared
  <2> QED
    BY <2>1
<1>4. CASE PipelineThread
  <2>1. UNCHANGED <<window, samples>>
    BY <1>4 DEF PipelineThread, TestRunning, MoveOut, MoveIn, EndTick, Publish, threadOnly,
       guiFrame
  <2>2. stats' \in Nat /\ duration' \in Nat
    <3>1. CASE TestRunning \/ Publish \/ \E p \in Pages : MoveOut(p)
      BY <3>1 DEF TestRunning, Publish, MoveOut, shared
    <3>2. CASE EndTick
      BY <3>2, DashboardAssumption DEF EndTick
    <3>3. CASE \E t \in Tiers : MoveIn(t)
      BY <3>3 DEF MoveIn
    <3> QED
      BY <1>4, <3>1, <3>2, <3>3 DEF PipelineThread
  <2>3. UNCHANGED snap \/ snap' = [set |-> TRUE, vram |-> stats]
    BY <1>4 DEF PipelineThread, TestRunning, MoveOut, MoveIn, EndTick, Publish, shared
  <2>4. snap' \in [set: BOOLEAN, vram: Nat]
    <3>1. stats \in Nat /\ snap \in [set: BOOLEAN, vram: Nat]
      OBVIOUS
    <3>2. [set |-> TRUE, vram |-> stats] \in [set: BOOLEAN, vram: Nat]
      BY <3>1
    <3> QED
      BY <2>3, <3>1, <3>2
  <2> QED
    BY <2>1, <2>2, <2>4
<1> QED
  BY <1>1, <1>2, <1>3, <1>4 DEF Next, Frame

(* The smaller of two numbers.                                             *)
LEMMA MinOfTwo ==
    ASSUME NEW a \in Nat, NEW b \in Nat
    PROVE  Min({a, b}) = IF b <= a THEN b ELSE a
<1> DEFINE m == IF b <= a THEN b ELSE a
<1>1. m \in {a, b} /\ \A y \in {a, b} : m <= y
  OBVIOUS
<1>2. \A x \in {a, b} : (\A y \in {a, b} : x <= y) => x = m
  OBVIOUS
<1> HIDE DEF m
<1>3. Min({a, b}) = m
  BY <1>1, <1>2 DEF Min
<1> QED
  BY <1>3 DEF m

(* The chart is the last samples in their order (gui.c:503-533), for every  *)
(* length of the window and however many samples there were.                *)
THEOREM ChartIsLatest == Spec => []WindowIsLatest
<1>1. Init => ChartInv
  BY DashboardAssumption DEF Init, ChartInv
<1>2. ChartInv => WindowIsLatest
  <2> SUFFICES ASSUME ChartInv PROVE WindowIsLatest
    OBVIOUS
  <2> DEFINE first == Len(samples) - Len(window) + 1
             last == Len(samples)
  <2>1. /\ window \in Seq(Measurement) /\ samples \in Seq(Measurement)
        /\ Len(window) \in Nat /\ Len(samples) \in Nat /\ Window \in Nat \ {0}
        /\ Len(window) = IF Len(samples) <= Window THEN Len(samples) ELSE Window
        /\ \A n \in 1 .. Len(window) : window[n] = samples[Len(samples) - Len(window) + n]
    BY DashboardAssumption, LenProperties DEF ChartInv
  <2>2. first \in Int /\ last \in Int /\ first >= 1 /\ last - first + 1 = Len(window)
    BY <2>1
  <2>3. \A n \in first .. last : samples[n] \in Measurement
    BY <2>1, <2>2, ElementOfSeq
  <2>4. /\ SubSeq(samples, first, last) \in Seq(Measurement)
        /\ Len(SubSeq(samples, first, last)) = IF first <= last THEN last - first + 1 ELSE 0
        /\ \A n \in 1 .. last - first + 1 :
              SubSeq(samples, first, last)[n] = samples[first + n - 1]
    BY <2>2, <2>3, SubSeqProperties
  <2>5. Len(SubSeq(samples, first, last)) = Len(window)
    BY <2>1, <2>2, <2>4
  <2>6. ASSUME NEW n \in 1 .. Len(window)
        PROVE  window[n] = SubSeq(samples, first, last)[n]
    <3>1. first + n - 1 = Len(samples) - Len(window) + n
      BY <2>1
    <3>2. n \in 1 .. last - first + 1
      BY <2>2
    <3> HIDE DEF first, last
    <3>3. SubSeq(samples, first, last)[n] = samples[first + n - 1]
      BY <2>4, <3>2
    <3> QED
      BY <2>1, <3>1, <3>3
  <2>7. window = SubSeq(samples, first, last)
    BY <2>1, <2>4, <2>5, <2>6, SeqEqual
  <2>8. Len(window) = Min({Window, Len(samples)})
    BY <2>1, MinOfTwo
  <2> QED
    BY <2>7, <2>8 DEF WindowIsLatest
<1> QED
  BY <1>1, <1>2, ChartStep, PTL DEF Spec

-----------------------------------------------------------------------------
(* The tiers of a frame.                                                   *)

\* The page that has left its tier and not come to the next.
OnTheWay == CHOOSE q \in moving : TRUE

\* A tier counts the pages on it, but for the one on its way; what a still
\* frame has drawn is what the tiers count.
TierInv ==
    /\ tier \in [Pages -> Tiers] /\ used \in [Tiers -> Int]
    /\ moving \subseteq Pages
    /\ thread = "arrive" => \E p \in Pages : moving = {p}
    /\ \A t \in Tiers :
          used[t] = IF thread = "arrive" /\ tier[OnTheWay] = t THEN Population(t) - 1
                                                               ELSE Population(t)
    /\ still => thread # "arrive"
    /\ drawn \in Seq(Int) /\ Len(drawn) <= Cardinality(Tiers)
    /\ still => \A n \in DOMAIN drawn : drawn[n] = Population(n - 1)

(* A page that comes to a tier is one more there and one less where it was.  *)
LEMMA PopulationMoves ==
    ASSUME tier \in [Pages -> Tiers], NEW p \in Pages, NEW t \in Tiers, t # tier[p],
           tier' = [tier EXCEPT ![p] = t]
    PROVE  \A s \in Tiers :
              /\ Population(s) \in Nat
              /\ Population(s)' = IF s = t THEN Population(s) + 1
                                  ELSE IF s = tier[p] THEN Population(s) - 1 ELSE Population(s)
<1> SUFFICES ASSUME NEW s \in Tiers
             PROVE  /\ Population(s) \in Nat
                    /\ Population(s)' = IF s = t THEN Population(s) + 1
                                        ELSE IF s = tier[p] THEN Population(s) - 1
                                        ELSE Population(s)
  OBVIOUS
<1> DEFINE S == {q \in Pages : tier[q] = s}
<1>1. S \in SUBSET Pages
  OBVIOUS
<1>2. {q \in Pages : tier'[q] = s} = IF s = t THEN S \cup {p}
                                     ELSE IF s = tier[p] THEN S \ {p} ELSE S
  OBVIOUS
<1>3. p \in S <=> s = tier[p]
  OBVIOUS
<1>4. Population(s) = Cardinality(S) /\ Population(s)' = Cardinality({q \in Pages : tier'[q] = s})
  BY DEF Population
<1> HIDE DEF S
<1>5. IsFiniteSet(S) /\ Cardinality(S) \in Nat
  BY <1>1, DashboardAssumption, FS_Subset, FS_CardinalityType
<1>6. /\ Cardinality(S \cup {p}) = IF p \in S THEN Cardinality(S) ELSE Cardinality(S) + 1
      /\ Cardinality(S \ {p}) = IF p \in S THEN Cardinality(S) - 1 ELSE Cardinality(S)
  BY <1>5, FS_AddElement, FS_RemoveElement
<1> QED
  BY <1>2, <1>3, <1>4, <1>5, <1>6

(* The two halves of a move, and the rest of a tick.                       *)
LEMMA TierThread ==
    ASSUME TierInv, PipelineThread
    PROVE  TierInv'
<1>1. /\ tier \in [Pages -> Tiers] /\ used \in [Tiers -> Int] /\ moving \subseteq Pages
      /\ thread = "arrive" => \E p \in Pages : moving = {p}
      /\ \A t \in Tiers :
            used[t] = IF thread = "arrive" /\ tier[OnTheWay] = t THEN Population(t) - 1
                                                                 ELSE Population(t)
      /\ still => thread # "arrive"
      /\ drawn \in Seq(Int) /\ Len(drawn) <= Cardinality(Tiers)
      /\ still => \A n \in DOMAIN drawn : drawn[n] = Population(n - 1)
  BY DEF TierInv
<1>2. CASE TestRunning \/ EndTick \/ Publish
  <2>1. /\ UNCHANGED <<tier, used, drawn, still>> /\ thread # "arrive" /\ thread' # "arrive"
        /\ moving' \subseteq Pages
    BY <1>1, <1>2 DEF TestRunning, EndTick, Publish, shared, threadOnly, guiFrame
  <2>2. \A t : Population(t)' = Population(t)
    BY <2>1 DEF Population
  <2> QED
    BY <1>1, <2>1, <2>2 DEF TierInv
<1>3. ASSUME NEW p \in Pages, MoveOut(p) PROVE TierInv'
  <2>1. /\ used' = [used EXCEPT ![tier[p]] = @ - 1]
        /\ moving' = {p} /\ thread = "migrate" /\ thread' = "arrive" /\ still' = FALSE
        /\ UNCHANGED <<tier, drawn>>
    BY <1>3 DEF MoveOut, guiFrame
  <2>2. OnTheWay' = p
    BY <2>1 DEF OnTheWay
  <2>3. \A t : Population(t)' = Population(t)
    BY <2>1 DEF Population
  <2>4. ASSUME NEW t \in Tiers
        PROVE  used'[t] = IF tier[p] = t THEN Population(t) - 1 ELSE Population(t)
    BY <1>1, <2>1
  <2>5. used' \in [Tiers -> Int]
    BY <1>1, <2>1
  <2> QED
    BY <1>1, <2>1, <2>2, <2>3, <2>4, <2>5 DEF TierInv
<1>4. ASSUME NEW t \in Tiers, MoveIn(t) PROVE TierInv'
  <2> DEFINE p == OnTheWay
  <2>1. /\ thread = "arrive" /\ thread' = "migrate" /\ t # tier[p]
        /\ tier' = [tier EXCEPT ![p] = t] /\ used' = [used EXCEPT ![t] = @ + 1]
        /\ moving' = {q \in Pages : q > p} /\ UNCHANGED <<drawn, still>>
    BY <1>4 DEF MoveIn, OnTheWay, threadOnly, guiFrame
  <2>2. p \in Pages
    BY <1>1, <2>1 DEF OnTheWay
  <2> HIDE DEF p
  <2>3. \A s \in Tiers :
           /\ Population(s) \in Nat
           /\ Population(s)' = IF s = t THEN Population(s) + 1
                               ELSE IF s = tier[p] THEN Population(s) - 1 ELSE Population(s)
    BY <1>1, <2>1, <2>2, PopulationMoves
  <2>4. \A s \in Tiers : used[s] = IF tier[p] = s THEN Population(s) - 1 ELSE Population(s)
    BY <1>1, <2>1 DEF p
  <2>5. ASSUME NEW s \in Tiers PROVE used'[s] = Population(s)'
    BY <1>1, <2>1, <2>3, <2>4
  <2>6. tier' \in [Pages -> Tiers] /\ used' \in [Tiers -> Int]
    BY <1>1, <2>1, <2>2
  <2>7. ~still'
    BY <1>1, <2>1
  <2>8. moving' \subseteq Pages
    BY <2>1
  <2> QED
    BY <1>1, <2>1, <2>5, <2>6, <2>7, <2>8 DEF TierInv
<1> QED
  BY <1>2, <1>3, <1>4 DEF PipelineThread

(* The main thread draws what is there, and moves nothing.                 *)
LEMMA TierMain ==
    ASSUME TierInv, LifeInv, [Next]_vars, ~PipelineThread
    PROVE  TierInv'
<1>0. /\ still => thread # "arrive"
      /\ still => \A n \in DOMAIN drawn : drawn[n] = Population(n - 1)
  BY DEF TierInv
<1>1. /\ used \in [Tiers -> Int]
      /\ \A t \in Tiers :
            used[t] = IF thread = "arrive" /\ tier[OnTheWay] = t THEN Population(t) - 1
                                                                 ELSE Population(t)
      /\ drawn \in Seq(Int) /\ Len(drawn) <= Cardinality(Tiers)
  BY DEF TierInv
<1>2. UNCHANGED <<tier, used, moving>>
  BY DEF Next, Setup, Frame, Shutdown, InitTables, InitFaults, CreatePages, Spawn, OpenWindow,
     Stop, Join, Free, CloseWindow, Exited, Poll, Sample, DrawTier, EndFrame, vars, mainOnly,
     guiOnly, shared
<1>3. (thread = "arrive") <=> (thread' = "arrive")
  <2>1. CASE Spawn
    BY <2>1 DEF Spawn, LifeInv
  <2>2. CASE ~Spawn
    <3>1. UNCHANGED thread
      BY <2>2 DEF Next, Setup, Frame, Shutdown, InitTables, InitFaults, CreatePages, OpenWindow,
         Stop, Join, Free, CloseWindow, Exited, Poll, Sample, DrawTier, EndFrame, vars,
         mainOnly, guiOnly
    <3> QED
      BY <3>1
  <2> QED
    BY <2>1, <2>2
<1>4. (\A t : Population(t)' = Population(t)) /\ OnTheWay' = OnTheWay
  BY <1>2 DEF Population, OnTheWay
<1>5. /\ drawn' \in Seq(Int) /\ Len(drawn') <= Cardinality(Tiers)
      /\ still' => thread' # "arrive" /\ \A n \in DOMAIN drawn' : drawn'[n] = Population(n - 1)
  <2>0. Cardinality(Tiers) \in Nat
    BY DashboardAssumption, FS_CardinalityType
  <2>1. CASE Poll
    <3>1. drawn' = << >> /\ still' = (thread # "arrive") /\ thread' = thread
      BY <2>1 DEF Poll, guiOnly
    <3>2. still' => thread' # "arrive"
      BY <3>1, Zenon
    <3>3. /\ drawn' \in Seq(Int) /\ Len(drawn') <= Cardinality(Tiers)
          /\ \A n \in DOMAIN drawn' : drawn'[n] = Population(n - 1)
      BY <2>0, <3>1
    <3> QED
      BY <3>2, <3>3, Zenon
  <2>2. CASE DrawTier
    <3> DEFINE h == Len(drawn)
               next == used[h]
    <3>1. /\ drawn' = Append(drawn, next) /\ h < Cardinality(Tiers) /\ UNCHANGED <<still, thread>>
      BY <2>2 DEF DrawTier, guiOnly
    <3>2. h \in Nat /\ DOMAIN drawn = 1 .. h
      BY <1>1, LenProperties
    <3>3. h \in Tiers
      BY <2>0, <3>1, <3>2, DashboardAssumption
    <3>4. next \in Int /\ (still => next = Population(h))
      <4> HIDE DEF h
      <4>1. /\ used[h] \in Int
            /\ used[h] = IF thread = "arrive" /\ tier[OnTheWay] = h THEN Population(h) - 1
                                                                   ELSE Population(h)
        BY <1>1, <3>3
      <4>2. still => used[h] = Population(h)
        BY <1>0, <4>1, Zenon
      <4> QED
        BY <4>1, <4>2, Zenon
    <3> HIDE DEF next
    <3>5. /\ drawn' \in Seq(Int) /\ Len(drawn') = h + 1
          /\ \A m \in 1 .. h : drawn'[m] = drawn[m]
          /\ drawn'[h + 1] = next
      BY <1>1, <3>1, <3>4, AppendProperties
    <3> HIDE DEF h
    <3>6. DOMAIN drawn' = 1 .. h + 1
      BY <3>2, <3>5, LenProperties
    <3>7. ASSUME still, NEW m \in DOMAIN drawn' PROVE drawn'[m] = Population(m - 1)
      <4>1. CASE m = h + 1
        <5>1. m - 1 = h
          BY <3>2, <4>1
        <5> QED
          BY <3>4, <3>5, <3>7, <4>1, <5>1
      <4>2. CASE m \in 1 .. h
        <5>1. drawn[m] = Population(m - 1)
          BY <1>0, <3>2, <3>7, <4>2
        <5> QED
          BY <3>5, <4>2, <5>1
      <4> QED
        BY <3>2, <3>6, <4>1, <4>2
    <3>8. Len(drawn') <= Cardinality(Tiers)
      BY <2>0, <3>1, <3>2, <3>5
    <3> QED
      <4>1. /\ still' = still /\ thread' = thread
            /\ drawn' \in Seq(Int) /\ Len(drawn') <= Cardinality(Tiers)
        BY <3>1, <3>5, <3>8
      <4> QED
        BY <1>0, <3>7, <4>1, Zenon
  <2>3. CASE UNCHANGED <<drawn, still>>
    <3>1. still' = still /\ drawn' = drawn
      BY <2>3
    <3> QED
      BY <1>0, <1>1, <1>3, <3>1, Zenon
  <2>4. Poll \/ DrawTier \/ UNCHANGED <<drawn, still>>
    BY DEF Next, Setup, Frame, Shutdown, InitTables, InitFaults, CreatePages, Spawn, OpenWindow,
     Stop, Join, Free, CloseWindow, Exited, Sample, EndFrame, vars, mainOnly, guiOnly
  <2> QED
    BY <2>1, <2>2, <2>3, <2>4
<1> QED
  BY <1>0, <1>1, <1>2, <1>3, <1>4, <1>5 DEF TierInv

(* A frame that no move disturbs shows in every tier the pages that are     *)
(* there (gui.c:360-376, migrate.c:158-182), for every number of pages and   *)
(* tiers: a move takes a page out of one count and adds it to the other, and *)
(* only between the two is a page in none.                                   *)
THEOREM StillFramesAreWhole == Spec => []StillFrameIsWhole
<1>1. Init => TierInv
  <2> SUFFICES ASSUME Init PROVE TierInv
    OBVIOUS
  <2>1. Cardinality(Tiers) \in Nat
    BY DashboardAssumption, FS_CardinalityType
  <2>2. ASSUME NEW t \in Tiers PROVE Population(t) \in Nat
    <3>1. {p \in Pages : tier[p] = t} \in SUBSET Pages
      OBVIOUS
    <3>2. IsFiniteSet({p \in Pages : tier[p] = t})
      BY <3>1, DashboardAssumption, FS_Subset
    <3> QED
      BY <3>2, FS_CardinalityType DEF Population
  <2>3. \A t \in Tiers : used[t] = Population(t)
    BY DEF Init
  <2>4. used \in [Tiers -> Int]
    BY <2>2 DEF Init
  <2> QED
    BY <2>1, <2>3, <2>4 DEF Init, TierInv
<1>2. TierInv => StillFrameIsWhole
  BY DEF TierInv, StillFrameIsWhole
<1>3. TierInv /\ LifeInv /\ [Next]_vars => TierInv'
  BY TierThread, TierMain
<1> QED
  BY <1>1, <1>2, <1>3, LifeInvariant, PTL DEF Spec
=============================================================================
