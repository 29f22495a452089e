SPECIFICATION Spec
CONSTANTS
    Proposals = {p1}
    Callers = {c1, c2}
    NoCommand = NoCommand
    MaxTime = 2
    MaxVersion = 9
SYMMETRY CallerSymmetry
INVARIANTS
    TypeOK
    OnlyAuthorizedSubmission
    SubmittedInTime
    KeyTakesEffectOnce
PROPERTY
    TerminalIsFinal
