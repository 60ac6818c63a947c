------------------------------- MODULE MCGPlayer -------------------------------
(* GPlayer for TLC: no options, and "-r=2 --handle-buffering". *)
EXTENDS GPlayer

MCOptions ==
  {[repeat |-> "none", play_times |-> -1, handle_buffering |-> FALSE],
   [repeat |-> "playlist", play_times |-> 2, handle_buffering |-> TRUE]}
===============================================================================
