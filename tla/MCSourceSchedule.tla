---------------------------- MODULE MCSourceSchedule ----------------------------
(***************************************************************************)
(* Three sources with the weights the deployed ones have: the county       *)
(* registries and the direct purchases never fit one tick together, though *)
(* the latter are due on every heartbeat; a SEAP feed fits beside either.  *)
(***************************************************************************)
EXTENDS SourceSchedule

CONSTANTS county, elicitatie, seap

MCDeclared == <<seap, elicitatie, county>>
MCInterval == [s \in {county, elicitatie, seap} |-> IF s = elicitatie THEN 1 ELSE 3]
MCWeight == [s \in {county, elicitatie, seap} |->
               CASE s = county -> 5 [] s = elicitatie -> 2 [] s = seap -> 1]
JustSeap == {seap}
JustCounty == {county}

\* The deployed weights leave the room that the bound on lateness needs, unless
\* it is the heaviest source that misses the deadline.
ASSUME RoomAssumption == Losers # JustCounty => LosersLeaveRoom /\ AgesSuffice
================================================================================
