CONSTANTS
    Processes = {service, migration}
    Migrating = {migration}
    Servers = {s1, s2}
    NoServer = none
    Default = 30
    Overrides = {10}
SPECIFICATION Spec
INVARIANT
    MigrationsRunUnbounded
