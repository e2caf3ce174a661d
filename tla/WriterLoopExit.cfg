\* A graceful shutdown with no failing call and no crash.
SPECIFICATION Spec
CONSTANTS
    Tenants = {alice, bob}
    DefaultTenant = alice
    Tables = {orders}
    Engine = engine
    Shapes = {s1, s2}
    FlushRows = 2
    AgeFlush = TRUE
    EmptyCommands = TRUE
    MaxRows = 2
    MaxFaults = 0
    MaxCrashes = 0
INVARIANT
    NoAckedLossOnShutdown
CHECK_DEADLOCK FALSE
