----------------------------- MODULE MCNotices ------------------------------
(* Notices for TLC: three players, so that a leaver leaves two behind, and   *)
(* room for a second hunt after the first.                                   *)
EXTENDS Notices
=============================================================================
