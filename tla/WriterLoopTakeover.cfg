\* Two tenants upsert into one table; nothing is buffered and nothing fails.
SPECIFICATION Spec
CONSTANTS
    Tenants = {alice, bob}
    DefaultTenant = alice
    Tables = {orders}
    Engine = engine
    Shapes = {s1}
    FlushRows = 0
    AgeFlush = FALSE
    EmptyCommands = FALSE
    MaxRows = 2
    MaxFaults = 0
    MaxCrashes = 0
PROPERTY OwnersKeepRows
CHECK_DEADLOCK FALSE
