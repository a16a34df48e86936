SPECIFICATION FileSpec
CONSTANTS
    Target = 4
    Upgraders = {3, 4}
    Statements <- MCStatements
    MigrationOrder <- MCMigrationOrder
    References <- MCReferences
    None = None
INVARIANTS
    OpenedIsCurrent
    RefusesOnlyBroken
    UpgradeHasBackup
    MigratesAllOrNothing
