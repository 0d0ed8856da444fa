----------------------------- MODULE MCFocusManager -----------------------------
(***************************************************************************)
(* Two channels.  On the lower one music, a later track of the same        *)
(* interface, and a chime; the track and the chime come with patience.     *)
(***************************************************************************)
EXTENDS FocusManager

CONSTANTS speech, music, track, chime

MCChannels == {1, 2}
MCActivities == {speech, music, track, chime}
MCPatient == {chime, track}
MCChannelOf == [a \in MCActivities |-> IF a = speech THEN 1 ELSE 2]
MCInterfaceOf == (speech :> "speech") @@ (music :> "music") @@ (track :> "music")
                     @@ (chime :> "chime")
MCContentOf == [a \in MCActivities |-> "MIXABLE"]
MCInterruptModel ==
    [p \in ContentTypes \X ContentTypes |->
        IF p[2] = "NONMIXABLE" THEN "UNDEFINED"
        ELSE IF p[1] = "MIXABLE" THEN "MAY_DUCK" ELSE "MUST_PAUSE"]
====
