------------------------------ MODULE Pipeline ------------------------------
(***************************************************************************)
(* What the ticks do to a page besides moving it (Migration): its heat     *)
(* (Heat), its place in the predictor's array (Predictor), and what its    *)
(* prediction is worth to its tier's channel (Bandwidth).  Each takes of   *)
(* the others' state whatever it may be, so a behaviour follows one.       *)
(***************************************************************************)
EXTENDS Heat, Predictor, Bandwidth

VARIABLE follows   \* "heat", "predictor" or "bandwidth"

pipelineVars == <<heatVars, predictorVars, bandwidthVars, follows>>

\* The pages of the other parts stay as page_alloc made one of them.
PipelineInit ==
    /\ HeatInit /\ PredictorInit /\ BandwidthInit
    /\ follows \in {"heat", "predictor", "bandwidth"}
    /\ follows # "heat" => x = One \div 10 /\ w = (141 * One) \div 10000
    /\ follows # "bandwidth" =>
          \A p \in Pages: served[p].channel = 1 /\ \A h \in Heats: served[p].heat <= h

PipelineNext ==
    \/ follows = "heat" /\ HeatNext /\ UNCHANGED <<predictorVars, bandwidthVars, follows>>
    \/ follows = "predictor" /\ PredictorNext /\ UNCHANGED <<heatVars, bandwidthVars, follows>>
    \/ follows = "bandwidth" /\ TickBandwidth /\ UNCHANGED <<heatVars, predictorVars, follows>>

\* pipeline_run calls pipeline_tick for ever.
PipelineSpec ==
    /\ PipelineInit /\ [][PipelineNext]_pipelineVars
    /\ WF_pipelineVars(/\ follows = "heat" /\ Tick
                       /\ UNCHANGED <<predictorVars, bandwidthVars, follows>>)
=============================================================================
