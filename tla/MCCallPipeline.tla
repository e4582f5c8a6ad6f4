--------------------------- MODULE MCCallPipeline ---------------------------
(***************************************************************************)
(* CallPipeline with a zone that is half an hour off the full hours of UTC *)
(* and a name that is no zone.                                             *)
(***************************************************************************)
EXTENDS CallPipeline, TLC

\* India keeps five and a half hours ahead of UTC; "nowhere" is not known.
MCOffset == "kolkata" :> [time \in Clock |-> 22]

MCTimezone == {"kolkata", "nowhere"}
=============================================================================
