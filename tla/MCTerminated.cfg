SPECIFICATION Spec
CONSTANTS
    Containers = {web, side}
    Own = {web}
    Dummy = dummy
    MaxBoots = 1
INVARIANT TerminatedPodIsCheckpointed
CHECK_DEADLOCK FALSE
