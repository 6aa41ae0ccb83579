---------------------------- MODULE MCAnnouncements ----------------------------
(***************************************************************************)
(* Two announcements and one restart.                                      *)
(***************************************************************************)
EXTENDS Announcements

CONSTANTS sale, auction

MCTitles == {sale, auction}
================================================================================
