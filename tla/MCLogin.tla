------------------------------- MODULE MCLogin -------------------------------
(* Two browsers; a bucket holds three attempts and regains one a tick, and a  *)
(* sweep may come every tick.                                                 *)
EXTENDS Login
=============================================================================
