----------------------------- MODULE MCLeadAlerts -----------------------------
(***************************************************************************)
(* Two leads and two users: ana takes everything, dan only the push of the *)
(* first lead.  One source lists a lead twice, on overlapping pages.       *)
(***************************************************************************)
EXTENDS LeadAlerts

CONSTANTS road, clinic, ana, dan

MCLeads == {road, clinic}
MCUsers == <<ana, dan>>
MCWanted == ({road} \X {ana} \X {"telegram", "email", "push"})
              \cup {<<clinic, ana, "email">>, <<road, dan, "push">>}
MCBatches == {<<road, clinic, road>>, <<clinic>>}
MCPlainBatches == {<<road, clinic>>, <<clinic>>}
================================================================================
