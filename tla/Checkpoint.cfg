SPECIFICATION Spec
PROPERTIES
    RunningIsCheckpointed
