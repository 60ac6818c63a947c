---------------------------- MODULE MCStreamCache ----------------------------
(* StreamCache for TLC.  The sizes are those of the demuxer in proportion:  *)
(* what is kept is a little more than the limit, a far seek is longer than  *)
(* both.                                                                    *)
EXTENDS StreamCache
===============================================================================
