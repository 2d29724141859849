SPECIFICATION Spec
CONSTANTS
    BaseFee = 1
    Requests <- All
    MaxOutputs = 2
    MaxHeight = 3
    MaxFaults = 2
INVARIANTS SelectionGrows RefusedMeansShort HonestCompletes ProofVerifies TtlRefused
