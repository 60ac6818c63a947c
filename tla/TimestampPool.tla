---------------------------- MODULE TimestampPool ----------------------------
(***************************************************************************)
(* What the timestamp manager owes a decoder, without rings or history:    *)
(* every frame that went in is owed one timestamp, either one of the       *)
(* timestamps that came with the stream or, for a frame that came without, *)
(* one made up from the frame rate.  A stream timestamp goes out at most   *)
(* once, and output frames take them smallest first.                       *)
(***************************************************************************)
EXTENDS Integers

CONSTANTS Keys, NoKey  \* how a decoder may name the frame it puts out

VARIABLES pending, \* [ts, age, key]: stream timestamps that have not gone out
          untimed  \* frames that are owed a made-up timestamp

Init == pending = {} /\ untimed = 0

TimedFrame ==
  /\ \E s \in pending' : s \notin pending /\ pending' = pending \cup {s}
  /\ UNCHANGED untimed

UntimedFrame ==
  /\ untimed' = untimed + 1
  /\ UNCHANGED pending

\* An output frame takes the smallest timestamp; one whose own timestamp is
\* pending takes one that is not larger.
TakeTimed(key) ==
  /\ \E s \in pending :
       /\ pending' = pending \ {s}
       /\ IF \E t \in pending : key # NoKey /\ t.key = key
          THEN \E t \in pending : t.key = key /\ s.ts <= t.ts
          ELSE \A t \in pending : s.ts <= t.ts
  /\ UNCHANGED untimed

TakeUntimed ==
  /\ untimed > 0
  /\ untimed' = untimed - 1
  /\ UNCHANGED pending

Restart == pending' = {} /\ untimed' = 0

Next ==
  \/ TimedFrame
  \/ UntimedFrame
  \/ \E key \in Keys \cup {NoKey} : TakeTimed(key)
  \/ TakeUntimed
  \/ Restart

Spec == Init /\ [][Next]_<<pending, untimed>>
==============================================================================
