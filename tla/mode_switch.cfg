SPECIFICATION Spec
INVARIANTS
    KfpHasRoom
    NeverTogether
    ExitTellsMode
PROPERTY ComposeReached
