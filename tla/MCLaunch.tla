------------------------------ MODULE MCLaunch ------------------------------
(* Loading a model's weights: they are quantized or split among processes. *)
EXTENDS TensorParallel, Quantization

MCWeightValues == {-3, 0, 2}
MCNaNCodes == {-128, 127}

VARIABLE splitting

MCVars == <<splitting, tpVars, quantVars>>

(* The job that plays no part when weights are quantized. *)
NoJob == job = CHOOSE j \in Job : TRUE

MCInit == TPInit /\ QuantInit /\ splitting \in BOOLEAN /\ (splitting \/ NoJob)

(* All processes have ended, or all layers are quantized.  Any other state *)
(* without a next one would be a process that waits in a collective for    *)
(* ever.                                                                   *)
Terminating ==
  /\ IF splitting THEN \A p \in Process : phase[p] = "ended"
     ELSE \A l \in Layer : weight[l] # <<>>
  /\ UNCHANGED <<tpVars, quantVars>>

MCNext ==
  /\ UNCHANGED splitting
  /\ \/ splitting /\ TPStep /\ UNCHANGED quantVars
     \/ Terminating
     \/ ~splitting /\ QuantNext /\ UNCHANGED tpVars

MCSpec == MCInit /\ [][MCNext]_MCVars
=============================================================================
