SPECIFICATION Spec
CONSTANTS
    i1 = i1
    i2 = i2
    i3 = i3
    i4 = i4
    m1 = m1
    alice = alice
    bob = bob
    None = None
    Inputs = {i1, i2, i3, i4}
    Actor <- MCActor
    Questions = {"q"}
    Texts = {"x"}
    Messages = {m1}
    MaxTasks = 2
    MaxRevision = 2
    MaxRoutes = 2
    PageSize = 1
INVARIANT DialogueConsistent
PROPERTIES ChosenFromWhatWasShown KeepsContract
CHECK_DEADLOCK FALSE
