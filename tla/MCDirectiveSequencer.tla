------------------------- MODULE MCDirectiveSequencer -------------------------
(***************************************************************************)
(* Instances of DirectiveSequencer for TLC.                                *)
(***************************************************************************)
EXTENDS DirectiveSequencer

CONSTANTS d1, d2, x

\* d1 belongs to a dialog, d2 to none.
MCIdOf == [d \in Directives |-> IF d = d1 THEN x ELSE NoId]

\* d1 occupies AUDIO; d2 shares it, without blocking.
MCPoliciesOf ==
    [d \in Directives |-> {[mediums |-> {"AUDIO"}, isBlocking |-> d = d1]}]
=============================================================================
