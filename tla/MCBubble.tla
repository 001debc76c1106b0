------------------------------ MODULE MCBubble ------------------------------
(* The bubble with a short queue of announcements.                           *)
EXTENDS Bubble
=============================================================================
