----------------------------- MODULE MCUserAccounts -----------------------------
(***************************************************************************)
(* ana signs in with Google and by magic link, two identities for one      *)
(* email, and may take on a second email; dan has one of each.             *)
(***************************************************************************)
EXTENDS UserAccounts, TLC

CONSTANTS anaGoogle, anaLink, dan, anaMail, anaWork, danMail, r1, r2

MCUids == {anaGoogle, anaLink, dan}
MCEmails == {anaMail, anaWork, danMail}
MCSignupEmail == [u \in MCUids |-> IF u = dan THEN danMail ELSE anaMail]
TwoRequests == {r1, r2}
OneRequest == {r1}
RequestSymmetry == Permutations(TwoRequests)
================================================================================
