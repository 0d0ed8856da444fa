CONSTANTS
    d1 = d1
    d2 = d2
    d3 = d3
    x = x
    y = y
    Directives = {d1, d2}
    DialogIds = {x, y}
    PoliciesOf <- LivePoliciesOf
    IdOf <- LiveIdOf
    NoDirective = NoDirective
    NoId = NoId
SPECIFICATION FairSpec
PROPERTIES
    EveryDirectiveLeaves
