SPECIFICATION Runs
INVARIANTS
    OneWinner
    AgreeOnceSettled
    MembersSound
    HandoverLosesNothing
