SPECIFICATION Spec
CONSTANTS
    e1 = e1
    e2 = e2
    x1 = x1
    Embeds = {e1, e2}
    Extracts = {x1}
    NoClick = NoClick
    MaxReloads = 1
INVARIANTS
    TypeOK
    SuccessIsRegistered
    FailurePlaceTellsFate
    ReadOnce
    PreviewMatchesId
PROPERTY
    EveryClickIsTold
