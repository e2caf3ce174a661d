\* Two jobs of two tenants compete for one permit while a client polls.
SPECIFICATION FairSpec
CONSTANTS
    Ids = {j1, j2}
    Tenants = {alice, bob}
    Pollers = {c1}
    Slots = 1
INVARIANTS
    TypeOK
    SlotsConserved
    AnswersAreTrue
    RunningIsLive
PROPERTIES
    OutcomeIsFinal
    JobsEnd
