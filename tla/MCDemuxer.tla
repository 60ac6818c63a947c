------------------------------ MODULE MCDemuxer -------------------------------
(* A film with one video and one audio stream. *)
EXTENDS Demuxer

OneVideo == {1}
Way(mode, limit, drop, parts) ==
  [mode |-> mode, limit |-> limit, drop |-> drop, parts |-> parts,
   trick |-> FALSE]

AllWays == {Way("file", 0, FALSE, FALSE), Way("file", 1, FALSE, FALSE),
            Way("file", 0, TRUE, FALSE), Way("track", 0, FALSE, TRUE)}
================================================================================
