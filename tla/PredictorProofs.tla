-------------------------- MODULE PredictorProofs --------------------------
(***************************************************************************)
(* Theorems about the predictor's array, for every capacity of the table   *)
(* and of the array, with and without failing reallocs, and without a      *)
(* bound on allocations and ticks.                                         *)
(***************************************************************************)
EXTENDS Predictor, SequenceTheorems, TLAPS

Predictions == [life: Nat, tick: Nat]
PageRecords == [id: Nat, life: Nat]
StateRecords == [id: Nat, prediction: Predictions]

PredictorType ==
    /\ pages \in Seq(PageRecords) /\ lives \in Nat
    /\ states \in Seq(StateRecords)
    /\ capacity \in Nat /\ tick \in Nat /\ at \in Nat \ {0}
    /\ pc = "learn" => at <= Len(pages) /\ HasState(pages[at].id)

PredictorInv == PredictorType /\ OneStatePerId

(* The array never grows beyond its limit.                                 *)
LEMMA DoubledBounded ==
    ASSUME NEW c \in Nat, c <= MaxStates
    PROVE  Doubled(c) \in Nat /\ Doubled(c) <= MaxStates
  BY PredictorAssumption DEF Doubled

(* A state that is appended for an id without one keeps the ids apart.     *)
LEMMA AppendKeepsApart ==
    ASSUME PredictorInv, NEW id \in Nat, ~HasState(id),
           states' = Append(states, [id |-> id, prediction |-> NoPrediction])
    PROVE  /\ states' \in Seq(StateRecords)
           /\ Len(states') = Len(states) + 1
           /\ \A j, k \in DOMAIN states': states'[j].id = states'[k].id => j = k
           /\ \A jd: HasState(jd) => HasState(jd)'
<1> DEFINE new == [id |-> id, prediction |-> NoPrediction]
<1>1. new \in StateRecords /\ new.id = id
  BY DEF NoPrediction, Predictions, StateRecords
<1>2. states \in Seq(StateRecords)
  BY DEF PredictorInv, PredictorType
<1> HIDE DEF new
<1>3. /\ states' \in Seq(StateRecords)
      /\ Len(states') = Len(states) + 1
      /\ DOMAIN states' = 1 .. Len(states) + 1 /\ DOMAIN states = 1 .. Len(states)
      /\ \A k \in 1 .. Len(states): states'[k] = states[k]
      /\ states'[Len(states) + 1] = new
  BY <1>1, <1>2 DEF new
<1>4. \A k \in 1 .. Len(states): states[k].id # id
  BY <1>3 DEF HasState, Has
<1>5. \A j, k \in 1 .. Len(states): states[j].id = states[k].id => j = k
  BY <1>3 DEF PredictorInv, OneStatePerId
<1>6. Len(states) \in Nat
  BY <1>2
<1>7. ASSUME NEW j \in DOMAIN states', NEW k \in DOMAIN states', states'[j].id = states'[k].id
      PROVE  j = k
  BY <1>1, <1>3, <1>4, <1>5, <1>6, <1>7
<1>8. ASSUME NEW jd, HasState(jd) PROVE HasState(jd)'
  BY <1>3, <1>6, <1>8 DEF HasState, Has
<1> QED
  BY <1>3, <1>7, <1>8

(* predictor_get, whichever way it returns.                                *)
LEMMA GetStep ==
    ASSUME PredictorInv, NEW id \in Nat, Get(id)
    PROVE  /\ states' \in Seq(StateRecords) /\ capacity' \in Nat
           /\ OneStatePerId'
<1>1. /\ states \in Seq(StateRecords) /\ capacity \in Nat
      /\ Len(states) \in Nat /\ Len(states) <= capacity /\ capacity <= MaxStates
      /\ MaxStates \in Nat
  BY PredictorAssumption DEF PredictorInv, PredictorType, OneStatePerId
<1>2. CASE UNCHANGED <<states, capacity>>
  BY <1>1, <1>2 DEF PredictorInv, OneStatePerId
<1>3. CASE /\ ~HasState(id)
           /\ states' = Append(states, [id |-> id, prediction |-> NoPrediction])
           /\ \/ Len(states) < capacity /\ UNCHANGED capacity
              \/ Len(states) < Doubled(capacity) /\ capacity' = Doubled(capacity)
  <2>1. /\ states' \in Seq(StateRecords)
        /\ Len(states') = Len(states) + 1
        /\ \A j, k \in DOMAIN states': states'[j].id = states'[k].id => j = k
    BY <1>3, AppendKeepsApart
  <2>2. Doubled(capacity) \in Nat /\ Doubled(capacity) <= MaxStates
    BY <1>1, DoubledBounded
  <2>3. capacity' \in Nat /\ Len(states') <= capacity' /\ capacity' <= MaxStates
    BY <1>1, <1>3, <2>1, <2>2
  <2> QED
    BY <2>1, <2>3 DEF OneStatePerId
<1> QED
  BY <1>2, <1>3 DEF Get

(* predictor_step stores a prediction in one state, and keeps its id.       *)
LEMMA LearnStep ==
    ASSUME PredictorInv, Learn
    PROVE  PredictorInv'
<1> DEFINE k == IndexOf(pages[at].id)
<1>1. /\ states' = [states EXCEPT ![k].prediction = NewPrediction]
      /\ pc' = "predict" /\ at' = at + 1 /\ pc = "learn"
      /\ UNCHANGED <<pages, lives, capacity, tick>>
  BY DEF Learn
<1>2. /\ pages \in Seq(PageRecords) /\ at \in 1 .. Len(pages) /\ tick \in Nat
      /\ states \in Seq(StateRecords)
  BY <1>1 DEF PredictorInv, PredictorType
<1>3. NewPrediction \in Predictions
  <2>1. pages[at] \in PageRecords
    BY <1>2
  <2>2. pages[at].life \in Nat
    BY <2>1 DEF PageRecords
  <2> QED
    BY <1>2, <2>2 DEF NewPrediction, Predictions
<1>4. k \in DOMAIN states
  BY <1>1 DEF PredictorInv, PredictorType, HasState, Has, IndexOf
<1> HIDE DEF k
<1>5. /\ states' \in Seq(StateRecords) /\ Len(states') = Len(states)
      /\ DOMAIN states' = DOMAIN states
      /\ \A j \in DOMAIN states: states'[j].id = states[j].id
  <2>1. \A j \in DOMAIN states: states[j] \in StateRecords
    BY <1>2
  <2>2. [states[k] EXCEPT !.prediction = NewPrediction] \in StateRecords
    BY <2>1, <1>3, <1>4 DEF StateRecords
  <2>3. /\ DOMAIN states' = DOMAIN states
        /\ \A j \in DOMAIN states: j # k => states'[j] = states[j]
        /\ states'[k] = [states[k] EXCEPT !.prediction = NewPrediction]
    BY <1>1, <1>2, <1>4
  <2>4. states'[k].id = states[k].id
    BY <2>1, <2>3, <1>4 DEF StateRecords
  <2>5. \A j \in DOMAIN states: states'[j] \in StateRecords
    BY <2>1, <2>2, <2>3
  <2>6. states' = [j \in 1 .. Len(states) |-> states'[j]]
    <3>1. states = [j \in 1 .. Len(states) |-> states[j]]
      BY <1>2
    <3>2. DOMAIN states = 1 .. Len(states)
      BY <1>2
    <3>3. states' = [j \in DOMAIN states |->
                        IF j = k THEN [states[j] EXCEPT !.prediction = NewPrediction] ELSE states[j]]
      BY <1>1
    <3>4. states' = [j \in 1 .. Len(states) |->
                        IF j = k THEN [states[j] EXCEPT !.prediction = NewPrediction] ELSE states[j]]
      BY <3>2, <3>3
    <3> QED
      BY <3>4
  <2>7. states' \in Seq(StateRecords) /\ Len(states') = Len(states)
    BY <1>2, <2>5, <2>6
  <2> QED
    BY <2>3, <2>4, <2>7
<1>6. OneStatePerId'
  BY <1>1, <1>5 DEF PredictorInv, OneStatePerId
<1> QED
  BY <1>1, <1>2, <1>5, <1>6 DEF PredictorInv, PredictorType

(* The steps that leave the array alone.                                    *)
LEMMA OtherStep ==
    ASSUME PredictorInv, \/ Alloc \/ StartTick \/ NextStep
                         \/ \E k \in DOMAIN pages: Free(k)
    PROVE  PredictorInv'
<1>1. UNCHANGED <<states, capacity>> /\ pc' # "learn"
  BY DEF Alloc, StartTick, NextStep, Free
<1>2. OneStatePerId'
  BY <1>1 DEF PredictorInv, OneStatePerId
<1>3. CASE Alloc
  <2>1. pages \in Seq(PageRecords) /\ lives \in Nat /\ Len(pages) \in Nat
    BY DEF PredictorInv, PredictorType
  <2>2. [id |-> Len(pages) + 1, life |-> lives + 1] \in PageRecords
    BY <2>1 DEF PageRecords
  <2>3. pages' \in Seq(PageRecords) /\ lives' \in Nat
    BY <1>3, <2>1, <2>2 DEF Alloc
  <2> QED
    BY <1>1, <1>2, <1>3, <2>3 DEF Alloc, PredictorInv, PredictorType
<1>4. CASE StartTick \/ NextStep
  BY <1>1, <1>2, <1>4 DEF StartTick, NextStep, PredictorInv, PredictorType
<1>5. ASSUME NEW k \in DOMAIN pages, Free(k)
      PROVE  PredictorInv'
  <2>1. /\ pages \in Seq(PageRecords) /\ k \in 1 .. Len(pages)
        /\ pages' = [j \in 1 .. Len(pages) - 1 |-> IF j < k THEN pages[j] ELSE pages[j + 1]]
        /\ UNCHANGED <<lives, tick, at>>
    BY <1>5 DEF Free, PredictorInv, PredictorType
  <2>2. pages' \in Seq(PageRecords)
    <3>1. Len(pages) - 1 \in Nat
      BY <2>1
    <3>2. \A j \in 1 .. Len(pages) - 1:
             (IF j < k THEN pages[j] ELSE pages[j + 1]) \in PageRecords
      BY <2>1
    <3> QED
      BY <2>1, <3>1, <3>2
  <2> QED
    BY <1>1, <1>2, <2>1, <2>2 DEF PredictorInv, PredictorType
<1> QED
  BY <1>3, <1>4, <1>5

(* Looking a page up, in any step of the tick.                              *)
LEMMA LookupStep ==
    ASSUME PredictorInv, Lookup \/ Touch
    PROVE  PredictorInv'
<1>1. /\ at \in 1 .. Len(pages) /\ pages \in Seq(PageRecords)
      /\ Get(pages[at].id) /\ UNCHANGED <<pages, lives, tick>>
      /\ at' \in {at, at + 1}
      /\ pc' = "learn" => at' = at /\ Has(states', pages[at].id)
  BY DEF Lookup, Touch, PredictorInv, PredictorType
<1>2. pages[at].id \in Nat
  <2>1. pages[at] \in PageRecords
    BY <1>1
  <2> QED
    BY <2>1 DEF PageRecords
<1>3. /\ states' \in Seq(StateRecords) /\ capacity' \in Nat
      /\ OneStatePerId'
  BY <1>1, <1>2, GetStep
<1> QED
  BY <1>1, <1>3 DEF PredictorInv, PredictorType, HasState

(* The invariant holds throughout.                                          *)
LEMMA PredictorInvariant == PredictorSpec => []PredictorInv
<1>1. PredictorInit => PredictorInv
  BY PredictorAssumption DEF PredictorInit, PredictorInv, PredictorType, OneStatePerId
<1>2. PredictorInv /\ [PredictorNext]_predictorVars => PredictorInv'
  <2> SUFFICES ASSUME PredictorInv, [PredictorNext]_predictorVars PROVE PredictorInv'
    OBVIOUS
  <2>1. CASE Alloc \/ StartTick \/ NextStep \/ \E k \in DOMAIN pages: Free(k)
    BY <2>1, OtherStep
  <2>2. CASE Lookup \/ Touch
    BY <2>2, LookupStep
  <2>3. CASE Learn
    BY <2>3, LearnStep
  <2>4. CASE UNCHANGED predictorVars
    BY <2>4 DEF predictorVars, PredictorInv, PredictorType, OneStatePerId, HasState, Has
  <2> QED
    BY <2>1, <2>2, <2>3, <2>4 DEF PredictorNext
<1> QED
  BY <1>1, <1>2, PTL DEF PredictorSpec

(* Whatever is allocated, freed and refused, no page id has two states, and  *)
(* the array keeps within its limits (predictor.c:104-139).                  *)
THEOREM StatesStayApart == PredictorSpec => []OneStatePerId
<1>1. PredictorInv => OneStatePerId
  BY DEF PredictorInv
<1> QED
  BY <1>1, PredictorInvariant, PTL

-----------------------------------------------------------------------------
(* What an update compares.                                                *)

\* The tick in which the prediction for the page at a place was made: this
\* one when pipeline_predict has passed the place, the one before until then.
MadeIn(a) == IF pc \in {"predict", "learn"} /\ a >= at THEN tick - 1 ELSE tick

\* Where no id was given twice, a page's state holds the page's own prediction,
\* and of the last pass of pipeline_predict over it: LearnsFromLastTick says
\* this of the comparison only.
FreshInv ==
    ~reused =>
        /\ \A a, b \in DOMAIN pages : pages[a].id = pages[b].id => a = b
        /\ \A a \in DOMAIN pages, c \in DOMAIN states :
              states[c].id = pages[a].id /\ states[c].prediction # NoPrediction =>
                  states[c].prediction = [life |-> pages[a].life, tick |-> MadeIn(a)]
        /\ learnt # Nothing => learnt.from = [life |-> learnt.life, tick |-> tick - 1]

(* predictor_get makes states without a prediction only.                    *)
LEMMA GetMakesNoPrediction ==
    ASSUME PredictorInv, NEW id \in Nat, Get(id)
    PROVE  \A c \in DOMAIN states' : \/ states'[c].prediction = NoPrediction
                                     \/ c \in DOMAIN states /\ states'[c] = states[c]
<1>1. states \in Seq(StateRecords)
  BY DEF PredictorInv, PredictorType
<1> DEFINE new == [id |-> id, prediction |-> NoPrediction]
<1>2. UNCHANGED states \/ states' = Append(states, new)
  BY DEF Get
<1>3. new.prediction = NoPrediction
  OBVIOUS
<1>4. CASE states' = Append(states, new)
  <2> HIDE DEF new
  <2>1. \A c \in DOMAIN states' : (c \in DOMAIN states /\ states'[c] = states[c]) \/ states'[c] = new
    BY <1>1, <1>4
  <2> QED
    BY <1>3, <2>1
<1> QED
  BY <1>2, <1>4

(* predictor_step stores the new prediction in the page's own state.        *)
LEMMA LearnStores ==
    ASSUME PredictorInv, Learn
    PROVE  \E m \in DOMAIN states :
              /\ states[m].id = pages[at].id
              /\ DOMAIN states' = DOMAIN states
              /\ \A c \in DOMAIN states :
                    /\ states'[c].id = states[c].id
                    /\ states'[c].prediction = IF c = m THEN NewPrediction
                                                        ELSE states[c].prediction
              /\ learnt' = IF states[m].prediction = NoPrediction THEN Nothing
                           ELSE [life |-> pages[at].life, from |-> states[m].prediction]
<1> DEFINE m == IndexOf(pages[at].id)
<1>1. /\ states' = [states EXCEPT ![m].prediction = NewPrediction]
      /\ learnt' = IF states[m].prediction = NoPrediction THEN Nothing
                   ELSE [life |-> pages[at].life, from |-> states[m].prediction]
  BY DEF Learn
<1>2. m \in DOMAIN states /\ states[m].id = pages[at].id
  BY DEF Learn, PredictorInv, PredictorType, HasState, Has, IndexOf
<1> HIDE DEF m
<1>3. \A c \in DOMAIN states : states[c] \in StateRecords
  BY DEF PredictorInv, PredictorType
<1>4. /\ DOMAIN states' = DOMAIN states
      /\ \A c \in DOMAIN states :
            states'[c] = IF c = m THEN [states[c] EXCEPT !.prediction = NewPrediction]
                                  ELSE states[c]
  BY <1>1
<1>5. ASSUME NEW c \in DOMAIN states
      PROVE  /\ states'[c].id = states[c].id
             /\ states'[c].prediction = IF c = m THEN NewPrediction
                                                 ELSE states[c].prediction
  BY <1>3, <1>4 DEF StateRecords
<1> QED
  BY <1>1, <1>2, <1>4, <1>5

(* Every step keeps a prediction with its page and its tick.                *)
LEMMA FreshStep == PredictorInv /\ FreshInv /\ [PredictorNext]_predictorVars => FreshInv'
<1> SUFFICES ASSUME PredictorInv, FreshInv, [PredictorNext]_predictorVars, ~reused'
             PROVE  FreshInv'
  BY DEF FreshInv
<1>0. ~reused
  BY DEF PredictorNext, predictorVars, Alloc, Free, StartTick, Lookup, Learn, Touch, NextStep
<1>1. /\ \A a, b \in DOMAIN pages : pages[a].id = pages[b].id => a = b
      /\ \A a \in DOMAIN pages, c \in DOMAIN states :
            states[c].id = pages[a].id /\ states[c].prediction # NoPrediction =>
                states[c].prediction = [life |-> pages[a].life, tick |-> MadeIn(a)]
      /\ learnt # Nothing => learnt.from = [life |-> learnt.life, tick |-> tick - 1]
  BY <1>0 DEF FreshInv
<1>2. /\ pages \in Seq(PageRecords) /\ Len(pages) \in Nat /\ DOMAIN pages = 1 .. Len(pages)
      /\ tick \in Nat /\ at \in Nat \ {0}
      /\ \A a \in DOMAIN pages : pages[a].id \in Nat
  <2>1. /\ pages \in Seq(PageRecords) /\ Len(pages) \in Nat /\ DOMAIN pages = 1 .. Len(pages)
        /\ tick \in Nat /\ at \in Nat \ {0}
    BY LenProperties DEF PredictorInv, PredictorType
  <2>2. \A a \in DOMAIN pages : pages[a] \in PageRecords
    BY <2>1, ElementOfSeq
  <2> QED
    BY <2>1, <2>2 DEF PageRecords
<1>3. CASE Alloc
  <2> DEFINE new == [id |-> Len(pages) + 1, life |-> lives + 1]
  <2>1. /\ pages' = Append(pages, new) /\ pc = "idle"
        /\ UNCHANGED <<states, tick, pc, at, learnt>>
        /\ ~HasState(Len(pages) + 1)
        /\ \A a \in DOMAIN pages : pages[a].id # Len(pages) + 1
    BY <1>3 DEF Alloc
  <2>2. new.id = Len(pages) + 1
    OBVIOUS
  <2> HIDE DEF new
  <2>3. /\ DOMAIN pages' = 1 .. Len(pages) + 1 /\ pages'[Len(pages) + 1] = new
        /\ \A a \in 1 .. Len(pages) : pages'[a] = pages[a]
    BY <1>2, <2>1
  <2>4. ASSUME NEW a \in DOMAIN pages', NEW b \in DOMAIN pages', pages'[a].id = pages'[b].id
        PROVE  a = b
    BY <1>1, <1>2, <2>1, <2>2, <2>3, <2>4
  <2>5. ASSUME NEW a \in DOMAIN pages', NEW c \in DOMAIN states,
               states[c].id = pages'[a].id
        PROVE  a \in DOMAIN pages /\ pages'[a] = pages[a]
    <3>1. states[c].id # Len(pages) + 1
      BY <2>1 DEF HasState, Has
    <3> QED
      BY <1>2, <2>2, <2>3, <2>5, <3>1
  <2>6. \A a : MadeIn(a)' = MadeIn(a)
    BY <2>1 DEF MadeIn
  <2>7. \A a \in DOMAIN pages', c \in DOMAIN states' :
            states'[c].id = pages'[a].id /\ states'[c].prediction # NoPrediction =>
                states'[c].prediction = [life |-> pages'[a].life, tick |-> MadeIn(a)']
    BY <1>1, <2>1, <2>5, <2>6
  <2> QED
    BY <1>1, <2>1, <2>4, <2>7 DEF FreshInv
<1>4. ASSUME NEW m \in DOMAIN pages, Free(m) PROVE FreshInv'
  <2>1. /\ pages' = [a \in 1 .. Len(pages) - 1 |-> IF a < m THEN pages[a] ELSE pages[a + 1]]
        /\ pc = "idle" /\ UNCHANGED <<states, tick, pc, at, learnt>>
    BY <1>4 DEF Free
  <2> DEFINE from(a) == IF a < m THEN a ELSE a + 1
  <2>2. \A a \in DOMAIN pages' : from(a) \in DOMAIN pages /\ pages'[a] = pages[from(a)]
    BY <1>2, <2>1
  <2>3. \A a, b \in DOMAIN pages' : from(a) = from(b) => a = b
    BY <1>2, <2>1
  <2> HIDE DEF from
  <2>4. \A a, b : MadeIn(a)' = MadeIn(b)
    BY <2>1 DEF MadeIn
  <2>5. \A a, b \in DOMAIN pages' : pages'[a].id = pages'[b].id => a = b
    BY <1>1, <2>2, <2>3
  <2>6. \A a \in DOMAIN pages', c \in DOMAIN states' :
            states'[c].id = pages'[a].id /\ states'[c].prediction # NoPrediction =>
                states'[c].prediction = [life |-> pages'[a].life, tick |-> MadeIn(a)']
    <3>1. ASSUME NEW a \in DOMAIN pages', NEW c \in DOMAIN states,
                 states[c].id = pages'[a].id, states[c].prediction # NoPrediction
          PROVE  states[c].prediction = [life |-> pages'[a].life, tick |-> MadeIn(a)']
      <4>1. /\ from(a) \in DOMAIN pages /\ pages'[a] = pages[from(a)]
            /\ MadeIn(a)' = MadeIn(from(a))
        BY <2>2, <2>4
      <4>2. states[c].prediction = [life |-> pages[from(a)].life, tick |-> MadeIn(from(a))]
        BY <1>1, <3>1, <4>1
      <4> QED
        BY <4>1, <4>2
    <3> QED
      BY <2>1, <3>1
  <2> QED
    BY <1>1, <2>1, <2>5, <2>6 DEF FreshInv
<1>5. CASE StartTick
  <2>1. /\ pc = "idle" /\ pc' = "predict" /\ at' = 1 /\ tick' = tick + 1 /\ learnt' = Nothing
        /\ UNCHANGED <<pages, states>>
    BY <1>5 DEF StartTick
  <2>2. \A a \in DOMAIN pages : MadeIn(a)' = MadeIn(a)
    BY <1>2, <2>1 DEF MadeIn
  <2>3. \A a \in DOMAIN pages', c \in DOMAIN states' :
            states'[c].id = pages'[a].id /\ states'[c].prediction # NoPrediction =>
                states'[c].prediction = [life |-> pages'[a].life, tick |-> MadeIn(a)']
    BY <1>1, <2>1, <2>2
  <2> QED
    BY <1>1, <2>1, <2>3 DEF FreshInv
<1>6. CASE Lookup \/ Touch
  <2>1. /\ at \in DOMAIN pages /\ Get(pages[at].id) /\ UNCHANGED <<pages, tick, learnt>>
    BY <1>2, <1>6 DEF Lookup, Touch
  <2>2. \A c \in DOMAIN states' : \/ states'[c].prediction = NoPrediction
                                  \/ c \in DOMAIN states /\ states'[c] = states[c]
    BY <1>2, <2>1, GetMakesNoPrediction
  <2>3. ASSUME NEW a \in DOMAIN pages, MadeIn(a)' # MadeIn(a)
        PROVE  \A c \in DOMAIN states' : states'[c].id # pages[a].id
    <3>1. CASE Touch
      BY <2>3, <3>1 DEF Touch, MadeIn
    <3>2. CASE Lookup
      <4>1. /\ pc = "predict" /\ UNCHANGED tick
            /\ \/ pc' = "learn" /\ UNCHANGED at
               \/ pc' = "predict" /\ at' = at + 1 /\ ~Has(states', pages[at].id)
        BY <3>2 DEF Lookup
      <4>2. a = at /\ ~Has(states', pages[at].id)
        BY <1>2, <2>3, <4>1 DEF MadeIn
      <4> QED
        BY <4>2 DEF Has
    <3> QED
      BY <1>6, <3>1, <3>2
  <2>4. \A a \in DOMAIN pages', c \in DOMAIN states' :
            states'[c].id = pages'[a].id /\ states'[c].prediction # NoPrediction =>
                states'[c].prediction = [life |-> pages'[a].life, tick |-> MadeIn(a)']
    BY <1>1, <2>1, <2>2, <2>3
  <2> QED
    BY <1>1, <2>1, <2>4 DEF FreshInv
<1>7. CASE Learn
  <2>1. PICK m \in DOMAIN states :
              /\ states[m].id = pages[at].id
              /\ DOMAIN states' = DOMAIN states
              /\ \A c \in DOMAIN states :
                    /\ states'[c].id = states[c].id
                    /\ states'[c].prediction = IF c = m THEN NewPrediction
                                                        ELSE states[c].prediction
              /\ learnt' = IF states[m].prediction = NoPrediction THEN Nothing
                           ELSE [life |-> pages[at].life, from |-> states[m].prediction]
    BY <1>7, LearnStores
  <2>2. /\ pc = "learn" /\ pc' = "predict" /\ at' = at + 1 /\ at \in DOMAIN pages
        /\ UNCHANGED <<pages, tick>>
    BY <1>2, <1>7 DEF Learn, PredictorInv, PredictorType
  <2>3. /\ MadeIn(at) = tick - 1
        /\ \A a \in DOMAIN pages : MadeIn(a)' = IF a = at THEN tick ELSE MadeIn(a)
    BY <1>2, <2>2 DEF MadeIn
  <2>4. ASSUME NEW a \in DOMAIN pages, NEW c \in DOMAIN states,
               states'[c].id = pages[a].id, states'[c].prediction # NoPrediction
        PROVE  states'[c].prediction = [life |-> pages[a].life, tick |-> MadeIn(a)']
    <3>1. CASE c = m
      <4>1. a = at
        BY <1>1, <2>1, <2>2, <2>4, <3>1
      <4>2. states'[c].prediction = NewPrediction
        BY <2>1, <3>1
      <4> QED
        BY <2>2, <2>3, <4>1, <4>2 DEF NewPrediction
    <3>2. CASE c # m
      <4>1. a # at
        BY <2>1, <2>4, <3>2 DEF PredictorInv, OneStatePerId
      <4> QED
        BY <1>1, <2>1, <2>3, <2>4, <3>2, <4>1
    <3> QED
      BY <3>1, <3>2
  <2>5. ASSUME learnt' # Nothing
        PROVE  learnt'.from = [life |-> learnt'.life, tick |-> tick - 1]
    <3>1. /\ states[m].prediction # NoPrediction
          /\ learnt' = [life |-> pages[at].life, from |-> states[m].prediction]
      BY <2>1, <2>5
    <3>2. states[m].prediction = [life |-> pages[at].life, tick |-> tick - 1]
      BY <1>1, <2>1, <2>2, <2>3, <3>1
    <3>3. learnt'.life = pages[at].life /\ learnt'.from = states[m].prediction
      BY <3>1
    <3> QED
      BY <3>2, <3>3
  <2> QED
    BY <1>1, <2>1, <2>2, <2>4, <2>5 DEF FreshInv
<1>8. CASE NextStep
  <2>1. /\ pc \in {"predict", "prioritize", "commit"} /\ at > Len(pages)
        /\ pc' \in {"prioritize", "commit", "idle"}
        /\ UNCHANGED <<pages, states, tick, learnt>>
    BY <1>8 DEF NextStep
  <2>2. \A a \in DOMAIN pages : MadeIn(a)' = MadeIn(a)
    BY <1>2, <2>1 DEF MadeIn
  <2>3. \A a \in DOMAIN pages', c \in DOMAIN states' :
            states'[c].id = pages'[a].id /\ states'[c].prediction # NoPrediction =>
                states'[c].prediction = [life |-> pages'[a].life, tick |-> MadeIn(a)']
    BY <1>1, <2>1, <2>2
  <2> QED
    BY <1>1, <2>1, <2>3 DEF FreshInv
<1>9. CASE UNCHANGED predictorVars
  BY <1>1, <1>9 DEF predictorVars, FreshInv, MadeIn
<1> QED
  BY <1>3, <1>4, <1>5, <1>6, <1>7, <1>8, <1>9 DEF PredictorNext

(* Where no id was given twice, predictor_lms_update compares a page with    *)
(* the prediction made for it in the tick before (pipeline.c:82-101), for    *)
(* every capacity and every pattern of failing reallocs: a page without a    *)
(* state has no prediction to compare, and one with a state gets a new       *)
(* prediction in every tick.                                                 *)
THEOREM UpdatesUseLastTick == PredictorSpec => []LearnsFromLastTick
<1>1. PredictorInit => FreshInv
  BY DEF PredictorInit, FreshInv
<1>2. FreshInv => LearnsFromLastTick
  BY DEF FreshInv, LearnsFromLastTick
<1> QED
  BY <1>1, <1>2, FreshStep, PredictorInvariant, PTL DEF PredictorSpec
=============================================================================
