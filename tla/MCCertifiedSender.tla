---------------------------- MODULE MCCertifiedSender ----------------------------
(***************************************************************************)
(* Instances of CertifiedSender for TLC.                                   *)
(***************************************************************************)
EXTENDS CertifiedSender

CONSTANTS m1, m2, m3

ThreeMessages == {m1, m2, m3}
TwoMessages == {m1, m2}

\* One answer that ends the sending and one that asks for a retry.
TwoAnswers == {"SUCCESS", "THROTTLED"}
=============================================================================
