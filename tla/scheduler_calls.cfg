SPECIFICATION CallsSpec
CONSTANT StabilizationDelays = {10, 30}
INVARIANTS SchedulerTypeOK RunningIsUndisturbed
PROPERTY CommandsArePaced
