---------------------------- MODULE MCExecution ----------------------------
(***************************************************************************)
(* Instances of Execution for TLC.  StageCount, ArtifactCount and the      *)
(* budgets are given by the configurations; the sets below are the         *)
(* parameters attempts may be created with in the different runs.          *)
(***************************************************************************)
EXTENDS Execution, TLC

MCUnsupported == {1}

NoUnsupported == {}

Plain == {[profile |-> "demo_fast", partial |-> FALSE]}

\* A profile with a stage to pass over, the controlled partial stop, and the
\* profile that fails.
Mixed == {[profile |-> "v1_compat", partial |-> FALSE],
          [profile |-> "demo_fast", partial |-> TRUE],
          [profile |-> "test_fail", partial |-> FALSE]}

WorkerSymmetry == Permutations(Workers)

=============================================================================
