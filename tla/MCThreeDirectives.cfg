CONSTANTS
    d1 = d1
    d2 = d2
    d3 = d3
    x = x
    y = y
    Directives = {d1, d2, d3}
    DialogIds = {x}
    PoliciesOf <- ThreePoliciesOf
    IdOf <- ThreeIdOf
    NoDirective = NoDirective
    NoId = NoId
SPECIFICATION Spec
PROPERTY LifecycleKept
INVARIANTS
    CurrentDialogOnly
    OnePlace
    MediumExclusion
    NoOvertaking
    NoLostWakeup
    CleanExit
    ClosedFormIsLoop
