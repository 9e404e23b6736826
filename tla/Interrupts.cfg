CONSTANTS
    FirmwareSpurious = {255, 15}
    MaxStray = 3
SPECIFICATION Spec
INVARIANTS
    StackUnwound
    NotReentered
    NothingLeftInService
PROPERTIES
    SchedulerRuns
