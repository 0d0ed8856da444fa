--------------------------- MODULE MCDirectiveRouter ---------------------------
(***************************************************************************)
(* Instances of DirectiveRouter for TLC.                                   *)
(***************************************************************************)
EXTENDS DirectiveRouter, TLC

CONSTANTS h1, h2, h3, h4, ns, nm, ep, in, other

MCValues == {ns, nm, ep, in, other}

Tag(nameSpace, name, endpointId, instance) ==
    [nameSpace |-> nameSpace, name |-> name, endpointId |-> endpointId,
     instance |-> instance]

\* One directive that every kind of rule can cover, one only wildcards cover.
MCDirectives == {Tag(ns, nm, ep, in), Tag(ns, other, ep, other)}

\* h1 and h3 want one rule both, h2 and h3 can be found for one directive, and
\* h4's rule is invalid.
MCConfigOf ==
    [h \in Handlers |->
        CASE h = h1 -> {Tag(ns, nm, ep, in), Tag(WILDCARD, WILDCARD, ep, in)}
          [] h = h2 -> {Tag(ns, WILDCARD, ep, in), Tag(WILDCARD, WILDCARD, ep, WILDCARD)}
          [] h = h3 -> {Tag(ns, WILDCARD, ep, WILDCARD), Tag(WILDCARD, WILDCARD, ep, in)}
          [] h = h4 -> {Tag(WILDCARD, nm, ep, in)}]

\* Registrars are interchangeable, and so are callers.
ThreadSymmetry == Permutations(Registrars) \cup Permutations(Callers)
=============================================================================
