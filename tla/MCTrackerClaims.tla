-------------------------- MODULE MCTrackerClaims ---------------------------
(***************************************************************************)
(* The claims of one issue for TLC.                                        *)
(***************************************************************************)
EXTENDS TrackerClaimsProperties

CONSTANTS r1, r2, r3

MCThree    == {r1, r2, r3}
MCTwo      == {r1, r2}
MCStarters == {r1, r2}
MCStates   == {InProgress, InReview, Done}
MCIdLess(i, j) == i < j
=============================================================================
