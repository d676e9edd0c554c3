SPECIFICATION FairSpec
CONSTANTS
    MaxRounds = 3
    MaxDays = 2
    MaxChanges = 2
    MaxFaults = 2
    MaxRestarts = 2
INVARIANTS IdentityAgrees RetriesReuseId
PROPERTIES OptOutHolds RegistrationConfirmed
