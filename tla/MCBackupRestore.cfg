SPECIFICATION Spec
CONSTANTS
    MaxBackups = 2
    MaxGenerations = 1
    Request = {r1, r2}
    None = None
SYMMETRY RequestSymmetry
INVARIANTS
    TypeOK
    OneJobAtATime
    RestoreUnderMaintenance
    ScheduledWorkQuiet
PROPERTIES
    KeepsCatalogue
