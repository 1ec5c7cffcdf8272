----------------------- MODULE MCOutlookMailViewModel -----------------------
(* The empty search field and one other text, two messages. *)
EXTENDS OutlookMailViewModel

CONSTANTS hello, empty, m1, m2, none
=============================================================================
