------------------------------ MODULE MCAgent ------------------------------
(* Instances of Agent for TLC. *)
EXTENDS Agent

CONSTANTS d1, d2, v1, v2, v3, c1, c2

A1  == [digest |-> d1, version |-> v1]
A2  == [digest |-> d2, version |-> v2]
A1v == [digest |-> d1, version |-> v3]   \* the bytes of A1 under a new label

Run(a, c)     == [art |-> a, cfg |-> c, capture |-> FALSE, stopped |-> FALSE]
Capture(a, c) == [art |-> a, cfg |-> c, capture |-> TRUE, stopped |-> FALSE]
Halt(a, c)    == [art |-> a, cfg |-> c, capture |-> FALSE, stopped |-> TRUE]

MCArtifacts == {A1, A2, A1v}
MCConfigs   == {c1, c2}

\* A first deploy, then any change of it, then back to the first version.
Rollout == << {Run(A1, c1)},
              {Run(A2, c1), Run(A1, c2), Halt(A1, c1), None, Capture(A1, c1)},
              {Run(A1, c1)} >>

\* One change of a first deploy: new version, config, label, halt, mode, gone.
Change == << {Run(A1, c1)},
             {Run(A2, c1), Run(A1, c2), Run(A1v, c1), Halt(A1, c1), Capture(A1, c1), None} >>

\* What fails after the release was switched leaves `current` on it.
AllFaults == FaultKinds
BeforeSwitch == FaultKinds \ {"build", "start"}
NoFault == {}
=============================================================================
