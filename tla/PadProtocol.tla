------------------------------ MODULE PadProtocol ------------------------------
(***************************************************************************)
(* What a demuxer owes the elements behind it, without threads, queues or  *)
(* masks: on each pad a segment comes first, then the samples of that      *)
(* stream, none left out and none twice, and at last the end of the        *)
(* stream; after the end nothing comes but the end again.  A flush lets a  *)
(* pad begin anew, and an element that is stopped sends nothing.           *)
(***************************************************************************)
EXTENDS Integers

CONSTANT Streams

None == -1

VARIABLES pad,       \* per stream: segment seen, end seen, last sample
          open,      \* the element is started
          gaps,      \* samples may be left out, for now
          promised   \* TRUE while the promise holds

Fresh == [seg |-> FALSE, eos |-> FALSE, last |-> None]

Init ==
  /\ pad = [s \in Streams |-> Fresh]
  /\ open = FALSE /\ promised = TRUE

Segment(p, q) == ~p.eos /\ q = [Fresh EXCEPT !.seg = TRUE]

Sample(p, q) ==
  /\ p.seg /\ ~p.eos
  /\ q = [p EXCEPT !.last = q.last]
  /\ IF gaps \/ p.last = None THEN q.last > p.last ELSE q.last = p.last + 1

\* The end comes with a segment, if there was none.
Eos(p, q) ==
  \/ q = [p EXCEPT !.eos = TRUE] /\ p.seg
  \/ ~p.eos /\ q = [seg |-> TRUE, eos |-> TRUE, last |-> None]

Send ==
  /\ open
  /\ \A s \in Streams :
       LET p == pad[s]
           q == pad'[s]
       IN q = p \/ Segment(p, q) \/ Sample(p, q) \/ Eos(p, q)
  /\ pad' = [s \in Streams |-> pad'[s]]
  /\ UNCHANGED <<open, promised>>

Flush ==
  /\ open
  /\ pad' = [s \in Streams |-> Fresh]
  /\ UNCHANGED <<open, promised>>

Start == ~open /\ open' = TRUE /\ UNCHANGED <<pad, promised>>

Stop ==
  /\ open /\ open' = FALSE
  /\ pad' = [s \in Streams |-> Fresh]
  /\ UNCHANGED promised

Next == (promised /\ (Send \/ Flush \/ Start \/ Stop)) \/ promised' = FALSE

Spec == Init /\ [][Next]_<<pad, open, promised>>
================================================================================
