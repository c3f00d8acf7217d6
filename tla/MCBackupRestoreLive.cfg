SPECIFICATION FairSpec
CONSTANTS
    MaxBackups = 1
    MaxGenerations = 1
    Request = {r1, r2}
    None = None
PROPERTIES
    MaintenanceEnds
