---------------------------- MODULE MCVideoSurface ----------------------------
(* VideoSurface for TLC. *)
EXTENDS VideoSurface, TLC

\* Slots are told apart by their numbers, clients are not.
Symmetry == Permutations(Clients) \cup Permutations(Frames)

\* Two clients whose windows stay; one with windows that go off the screen and
\* come back, and that are raised.
Shared == [buffers |-> 2, users |-> Clients, offscreen |-> FALSE,
           layers |-> FALSE]
Alone(c) == [buffers |-> 3, users |-> {c}, offscreen |-> TRUE, layers |-> TRUE]

OnlyShared == {Shared}
Both == {Shared} \cup {Alone(c) : c \in Clients}
===============================================================================
