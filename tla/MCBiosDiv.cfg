SPECIFICATION FairSpec
CONSTANT Half = 16
INVARIANTS TypeOK DivCorrect
PROPERTY Terminates
