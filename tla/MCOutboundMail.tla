--------------------------- MODULE MCOutboundMail ---------------------------
(* The small instances of JobLease and OutboundMail that TLC checks. *)
EXTENDS OutboundMail, TLC
=============================================================================
