---------------------------- MODULE MCContextManager ----------------------------
(***************************************************************************)
(* A legacy capability and one that reports its properties.                *)
(***************************************************************************)
EXTENDS ContextManager

MCCapabilities == {"speaker", "light"}
MCLegacy == {"speaker"}
MCReportable == {"light"}
MCLegacyStates ==
    {<<TRUE, "ALWAYS">>, <<FALSE, "ALWAYS">>, <<FALSE, "SOMETIMES">>, <<TRUE, "NEVER">>,
     <<FALSE, "NEVER">>}
====
