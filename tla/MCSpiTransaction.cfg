SPECIFICATION Spec
CONSTANTS
    Lists <- MCLists
    Absent = Absent
    MaxLen = 3
INVARIANTS
    TypeOK
    BuffersBalanced
    SendsWhatIsWritten
    PublishesEachAnswer
CHECK_DEADLOCK FALSE
