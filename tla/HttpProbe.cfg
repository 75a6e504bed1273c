CONSTANTS
    Caller = {c1}
    Task = {c1}
    NoCaller = NoCaller
    Threshold = 2
    Attempts = 2
    Capacity = 4
    Cost = 2
    Window = 3
SPECIFICATION Spec
PROPERTY ProbesAreSpaced
