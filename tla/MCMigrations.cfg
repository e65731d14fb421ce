SPECIFICATION Spec
CONSTANTS
    Names <- Files
    Contents = {v1, v2}
    NoContent = NoContent
    Needs <- FileNeeds
    Jobs = {j1, j2}
    Steps <- AllSteps
    Shipped <- BeforeMaps
SYMMETRY Symmetry
INVARIANTS
    MigrationInv
    NeedsAreMet
PROPERTIES
    RecordsAreFinal
    MigrationsOnlyAdd
