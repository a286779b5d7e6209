SPECIFICATION Spec
CONSTANTS
    None = None
    Actors = {a1, a2}
    Slots = {o1, o2}
    Facts = {x}
    MaxInbox = 1
SYMMETRY Symmetry
INVARIANTS
    OnlyFailedStartsLose
    RegisteredIsUsable
    PageFollows
    ButtonFollows
CHECK_DEADLOCK FALSE
