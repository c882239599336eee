------------------------- MODULE MCAnalysisPipeline -------------------------
(* A small instance of the pipeline for TLC.                               *)
EXTENDS AnalysisPipeline, TLC

CONSTANTS r1, r2, h1

MCHashOf == (r1 :> h1) @@ (r2 :> h1)

(* One score of each kind: benign, the gap above the cutoff that a second  *)
(* sighting opens, malicious below the sandbox's own 75, and malicious     *)
(* beyond the routing window.                                              *)
MCMlRisk == {3000, 6970, 7200, 9500}

\* The two scores a sandbox report can move across the malicious line.
MCRoutedRisk == {6970, 7200}

\* No evidence, and enough to convict.
MCReport == {SandboxReport(0, FALSE, FALSE), SandboxReport(1, TRUE, TRUE)}

MCSymmetry ==
    Permutations(Request) \cup Permutations(MlWorker) \cup Permutations(SandboxSlot)
=============================================================================
