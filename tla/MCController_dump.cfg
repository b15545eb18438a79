SPECIFICATION Spec
CONSTANT
    Cases <- NoFaults
PROPERTY
    CheckpointSpec
CHECK_DEADLOCK FALSE
