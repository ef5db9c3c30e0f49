-------------------------- MODULE MCPublishEngine ---------------------------
(***************************************************************************)
(* One channel, one or two personas, one PCP session, the bridge and one   *)
(* republishing loop.                                                      *)
(***************************************************************************)
EXTENDS PublishEngine, TLC

CONSTANTS pa, pb, ch1, s1, bridge, republish

\* The two personas are interchangeable.
Personas == Permutations({pa, pb})

\* A channel that was raced stays so, and no property of the safety run says
\* anything of it but its types: the run does not go on once all were.
SomeUnraced == raced # Channel
=============================================================================
