-------------------------- MODULE MCNotificationBadge --------------------------
(* The notifications of one user with one page open. *)
EXTENDS NotificationBadge
=============================================================================
