--------------------------- MODULE BufferOwnership ---------------------------
(***************************************************************************)
(* What the hardware buffer allocator promises its callers, without zones, *)
(* lists or counters: a piece of device memory belongs to the device, to   *)
(* the allocator's pool, or to exactly one client, and a client loses it   *)
(* only by giving it back.  Once the process has started to exit, or has   *)
(* touched freed memory, nothing is promised.                              *)
(***************************************************************************)
CONSTANTS Buffers,   \* the pieces of device memory
          Clients,   \* the threads that allocate and free
          Device,    \* owner of memory that is not allocated
          Pool       \* owner of memory that is cached for reuse

VARIABLES owner,     \* [Buffers -> Clients \cup {Device, Pool}]
          promised   \* TRUE while the promise holds

Init ==
  /\ owner = [b \in Buffers |-> Device]
  /\ promised = TRUE

Pooled == {b \in Buffers : owner[b] = Pool}

\* Cached memory may go back to the device whenever memory is needed for
\* another request.
Trimmed(T) == [b \in Buffers |-> IF b \in T THEN Device ELSE owner[b]]

Acquire(c, b) ==
  \E T \in SUBSET Pooled :
    /\ owner[b] \in {Device, Pool}
    /\ owner' = [Trimmed(T) EXCEPT ![b] = c]
    /\ UNCHANGED promised

FailToAcquire ==
  \E T \in SUBSET Pooled :
    /\ owner' = Trimmed(T)
    /\ UNCHANGED promised

Release(c, b) ==
  \E T \in SUBSET Pooled :
    /\ owner[b] = c
    /\ \E o \in {Device, Pool} : owner' = [Trimmed(T) EXCEPT ![b] = o]
    /\ UNCHANGED promised

GiveUp ==
  /\ promised' = FALSE
  /\ owner' \in [Buffers -> Clients \cup {Device, Pool}]

Next ==
  \/ /\ promised
     /\ \/ \E c \in Clients, b \in Buffers : Acquire(c, b) \/ Release(c, b)
        \/ FailToAcquire
  \/ GiveUp

Spec == Init /\ [][Next]_<<owner, promised>>
==============================================================================
