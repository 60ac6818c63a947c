----------------------------- MODULE MCTSManager -----------------------------
(* TSManager for TLC: a ring of three slots, so that two frames fill it;   *)
(* timestamps that come in order, out of order, and once further ahead     *)
(* than the discontinuity threshold.                                       *)
EXTENDS TSManager

MCTimes == {1, 2, 9}

\* After three frames the ring holds one more at most, without a key: what
\* the long films are for is the average.
MCFew ==
  age > 3 =>
    cnt + Cardinality({k \in 0 .. Distance - 1 : ts_buf[At(k)].key # NoKey}) <= 1

\* What was in a slot that is not in use is never read, nor is the last
\* timestamp of the segment before.
View ==
  <<mode, rx, tx,
    [k \in 0 .. Distance - 1 |->
       IF mode = "AI" THEN ts_buf[At(k)] ELSE ts_buf[At(k)].ts],
    invalid, cnt, age, first_rx, IF first_rx THEN 0 ELSE last_received,
    suspicious, rx_seen, valid_received, output>>
===============================================================================
