-------------------------------- MODULE V4lSink --------------------------------
(***************************************************************************)
(* src/misc/v4l_sink: the sink that hands its hardware buffers out to a    *)
(* decoder upstream and queues them, filled, to the display driver.        *)
(*                                                                         *)
(* A buffer is reference counted.  Its finalizer does not free it: by      *)
(* bufstate it goes back to the free pool, or stays.  The driver holds one *)
(* reference of each buffer it has queued; it gives buffers back in order, *)
(* always keeping the one on display (Complete, no code of this project).  *)
(*                                                                         *)
(* Two threads run this code at once: sink renders (show_frame), and codec *)
(* allocates (new_buffer).  The sink adds to v4lqueued and to v4llist      *)
(* without pool_lock, codec takes from them under it, so that each of      *)
(* these changes is a load and a store.                                    *)
(*                                                                         *)
(* There are no reserved buffers (RESERVEDHWBUFFER_DEPTH is 0).            *)
(***************************************************************************)
EXTENDS Integers, FiniteSets, SequencesExt

CONSTANTS
  NumBuffers,        \* buffers_required
  MIN_QUEUE_NUM,     \* what stays queued
  QUEUE_SIZE_HIGH,   \* more than this queued: dequeue once more
  StreamOnAt,        \* qbuff_count at which the stream goes on: 1, or 0 on an
                     \* MX6Q that deinterlaces with motion 2
  MaxShow,           \* bound: how often a buffer is shown and not dequeued
  MaxEvents          \* bound: how many of the Events happen, each once

ASSUME V4lSinkAssumption ==
  /\ NumBuffers \in Nat \ {0} /\ MIN_QUEUE_NUM \in Nat \ {0}
  /\ QUEUE_SIZE_HIGH \in Nat /\ MaxShow \in Nat \ {0} /\ MaxEvents \in Nat
  /\ StreamOnAt \in {0, 1}

\* What the sink's counters may not survive: see where it happens.  The last
\* comes of the two threads alone.
Events == {"suspend", "geometry", "error", "stall", "flush", "streamon",
           "race"}

Buffers == 1 .. NumBuffers
None == 0
SwBuffer == NumBuffers + 1     \* a buffer of main memory

VARIABLES
  bufstate, showcnt, refs,     \* of each buffer
  free_pool,
  v4llist, v4lqueued,          \* indexes queued to the driver, their number
  qbuff_count, stream_on, suspend,
  pool_lock,                   \* the thread that holds it, or None
  driver, done, driver_on,     \* queued; shown and not dequeued; streaming
  pm_mode,                     \* what /tmp/v4l.pid asks for
  queue,                       \* the queue element before the sink
  sink, codec,                 \* what the two threads do: see Idle
  events                       \* history: which of the Events happened

buffers == <<bufstate, refs, free_pool>>
device == <<driver, done, driver_on>>
stream == <<qbuff_count, stream_on, suspend, pm_mode>>
sinkVars == <<buffers, showcnt, v4llist, v4lqueued, stream, pool_lock, device,
              queue, sink, codec, events>>

\* Where a thread is, the buffer it works for, the one it dequeued, the value
\* of v4lqueued (or of another counter) it has loaded, the v4llist it has
\* loaded, whether it goes round its loop again.
Idle == [pc |-> "idle", buffer |-> None, dequeued |-> None, n |-> 0,
         list |-> {}, again |-> FALSE]

\* The buffers of R by their index, lowest first
Ascending(R) ==
  [k \in 1 .. Cardinality(R) |->
     CHOOSE b \in R : Cardinality({c \in R : c <= b}) = k]

\* buffer_init.  The buffers in Out are handed out at once, the others free.
Handed(Out) == [b \in Buffers |-> IF b \in Out THEN "ALLOCATED" ELSE "IDLE"]
Free(Out) == Reverse(Ascending(Buffers \ Out))

SinkInit(Out) ==
  /\ bufstate = Handed(Out) /\ free_pool = Free(Out)
  /\ showcnt = [b \in Buffers |-> 0]
  /\ refs = [b \in Buffers |-> 1]
  /\ v4llist = {} /\ v4lqueued = 0
  /\ qbuff_count = 0 /\ stream_on = FALSE
  /\ suspend = FALSE /\ pm_mode = "0"
  /\ pool_lock = "none"
  /\ driver = <<>> /\ done = <<>> /\ driver_on = FALSE
  /\ queue = <<>>
  /\ sink = Idle /\ codec = Idle
  /\ events = {}

CanHappen(e) ==
  e \notin events /\ Cardinality(events \ {"race"}) < MaxEvents

Happens(e) == CanHappen(e) /\ events' = events \cup {e}

\* Thread t stores v4llist.  It is recorded if the other thread did so since t
\* has loaded it.
RacesAlong(t) == events \cup (IF v4llist = t.list THEN {} ELSE {"race"})

-------------------------------------------------------------------------------
(* References *)

\* The reference is taken back in every state but FREE, where the memory goes.
\* A buffer that nobody expects to be released stays out of the pool.
Finalize(b) ==
  CASE bufstate[b] \in {"ALLOCATED", "SHOWED"} ->
         /\ pool_lock = "none"
         /\ bufstate' = [bufstate EXCEPT ![b] = "IDLE"]
         /\ free_pool' = Append(free_pool, b)
         /\ UNCHANGED refs
    [] bufstate[b] = "FREE" ->
         /\ bufstate' = [bufstate EXCEPT ![b] = "NONE"]
         /\ refs' = [refs EXCEPT ![b] = 0]
         /\ UNCHANGED free_pool
    [] OTHER -> UNCHANGED buffers

Unref(b) ==
  IF b = SwBuffer THEN UNCHANGED buffers
  ELSE IF refs[b] = 1 THEN Finalize(b)
  ELSE /\ refs' = [refs EXCEPT ![b] = @ - 1]
       /\ UNCHANGED <<bufstate, free_pool>>

-------------------------------------------------------------------------------
(* The driver, and what dq_buffer does with a buffer it gives back *)

Complete ==
  /\ driver_on /\ Len(driver) > 1
  /\ done' = Append(done, Head(driver)) /\ driver' = Tail(driver)
  /\ UNCHANGED <<buffers, showcnt, v4llist, v4lqueued, stream, pool_lock,
                 driver_on, queue, sink, codec, events>>

\* A mistake: what is not showing any more is dequeued in the same way.
DequeuedUnasked(b) ==
  /\ showcnt' = [showcnt EXCEPT ![b] = @ - 1]
  /\ bufstate' = [bufstate EXCEPT ![b] = IF showcnt[b] = 1 THEN "SHOWED" ELSE @]

\* A mistake: the buffer is done with, and its count is left.
DequeuedUncounted(b) ==
  /\ bufstate' = [bufstate EXCEPT ![b] = IF @ = "SHOWING" THEN "SHOWED" ELSE @]
  /\ UNCHANGED showcnt

\* The buffer's own fields; its reference is dropped after the lock: Drops(b).
Dequeued(b) ==
  IF bufstate[b] = "SHOWING"
  THEN /\ showcnt' = [showcnt EXCEPT ![b] = @ - 1]
       /\ bufstate' = [bufstate EXCEPT
                         ![b] = IF showcnt[b] = 1 THEN "SHOWED" ELSE @]
  ELSE UNCHANGED <<showcnt, bufstate>>

\* A mistake: looks at the state after it was changed.
DropsLate(b) == IF bufstate[b] = "SHOWING" /\ showcnt[b] > 1 THEN b ELSE None

Drops(b) == IF bufstate[b] = "SHOWING" THEN b ELSE None

-------------------------------------------------------------------------------
(* new_buffer, in the thread of codec *)

\* The loop at the top: the count is tested before every call.
NewBuffer ==
  /\ codec.pc = "newbuf"
  /\ codec' = [codec EXCEPT
                 !.pc = IF v4lqueued > MIN_QUEUE_NUM THEN "dq" ELSE "take"]
  /\ UNCHANGED <<buffers, showcnt, v4llist, v4lqueued, stream, pool_lock,
                 device, queue, sink, events>>

\* dq_buffer up to the stores of v4lqueued and v4llist.  again tells the loop
\* of the retries from the one at the top.
CodecDequeue ==
  /\ codec.pc = "dq" /\ pool_lock = "none"
  /\ IF done = <<>>
     THEN /\ codec' = [codec EXCEPT
                         !.pc = IF codec.again THEN "retry" ELSE "newbuf"]
          /\ UNCHANGED <<done, pool_lock>>
     ELSE /\ codec' = [codec EXCEPT !.pc = "store", !.dequeued = Head(done),
                                    !.n = v4lqueued, !.list = v4llist]
          /\ done' = Tail(done)
          /\ pool_lock' = "codec"
  /\ UNCHANGED <<buffers, showcnt, v4llist, v4lqueued, stream, driver,
                 driver_on, queue, sink, events>>

\* If the sink has appended to the list in between, that may be lost: to the
\* node that was removed.
CodecStore ==
  /\ codec.pc = "store"
  /\ v4lqueued' = codec.n - 1
  /\ v4llist' \in {L \ {codec.dequeued} : L \in {v4llist, codec.list}}
  /\ events' = RacesAlong(codec)
  /\ Dequeued(codec.dequeued)
  /\ pool_lock' = "none"
  /\ codec' = [codec EXCEPT !.pc = "drop", !.n = 0, !.list = {},
                            !.dequeued = Drops(codec.dequeued)]
  /\ UNCHANGED <<refs, free_pool, stream, device, queue, sink>>

CodecDrop ==
  /\ codec.pc = "drop"
  /\ IF codec.dequeued = None THEN UNCHANGED buffers ELSE Unref(codec.dequeued)
  /\ codec' = [codec EXCEPT !.dequeued = None,
                            !.pc = IF codec.again THEN "retry" ELSE "newbuf"]
  /\ UNCHANGED <<showcnt, v4llist, v4lqueued, stream, pool_lock, device, queue,
                 sink, events>>

\* From the pool, at once or in a retry.
Take ==
  /\ codec.pc \in {"take", "retry"} /\ pool_lock = "none" /\ free_pool # <<>>
  /\ bufstate' = [bufstate EXCEPT ![Head(free_pool)] = "ALLOCATED"]
  /\ free_pool' = Tail(free_pool)
  /\ codec' = [Idle EXCEPT !.pc = "push", !.buffer = Head(free_pool)]
  /\ UNCHANGED <<refs, showcnt, v4llist, v4lqueued, stream, pool_lock, device,
                 queue, sink, events>>

\* Up to BUFFER_NEW_RETRY_MAX of these; then a buffer of main memory.  Those
\* that find nothing to dequeue change nothing and are left out.
Retry ==
  /\ codec.pc \in {"take", "retry"} /\ pool_lock = "none" /\ free_pool = <<>>
  /\ codec.pc = "take" \/ done # <<>>
  /\ codec' = IF v4lqueued > 1 THEN [codec EXCEPT !.pc = "dq", !.again = TRUE]
              ELSE [codec EXCEPT !.pc = "retry"]
  /\ UNCHANGED <<buffers, showcnt, v4llist, v4lqueued, stream, pool_lock,
                 device, queue, sink, events>>

TakeSoftware ==
  /\ codec.pc = "retry" /\ pool_lock = "none" /\ free_pool = <<>>
  /\ codec' = [Idle EXCEPT !.pc = "push", !.buffer = SwBuffer]
  /\ UNCHANGED <<buffers, showcnt, v4llist, v4lqueued, stream, pool_lock,
                 device, queue, sink, events>>

Allocate ==
  \/ NewBuffer \/ CodecDequeue \/ CodecStore \/ CodecDrop
  \/ Take \/ Retry \/ TakeSoftware

-------------------------------------------------------------------------------
(* show_frame, in the thread of sink *)

\* The base class calls show_frame when the frame is due.  get_runinfo:
\* suspend and resume both forget that the stream is on and release what is
\* showing; the stream of the driver goes on.
Render ==
  /\ sink.pc = "idle" /\ queue # <<>>
  /\ queue' = Tail(queue)
  /\ suspend' = (pm_mode = "1" \/ (pm_mode = "0" /\ suspend))
  /\ pm_mode' = IF pm_mode = "2" THEN "0" ELSE pm_mode
  /\ LET switch == pm_mode # "0" /\ stream_on
     IN /\ stream_on' = (stream_on /\ ~switch)
        /\ qbuff_count' = IF switch THEN 0 ELSE qbuff_count
        /\ sink' = [Idle EXCEPT !.buffer = Head(queue),
                                !.pc = IF switch THEN "clear"
                                       ELSE IF suspend' THEN "release"
                                       ELSE "show"]
  /\ UNCHANGED <<buffers, showcnt, v4llist, v4lqueued, pool_lock, device,
                 codec, events>>

\* A mistake: forgets that the driver has the buffers still.
ClearShowingForgets(b) ==
  /\ sink.pc = "clear" /\ pool_lock = "none" /\ bufstate[b] = "SHOWING"
  /\ bufstate' = [bufstate EXCEPT ![b] = "SHOWED"]
  /\ showcnt' = [showcnt EXCEPT ![b] = 0]
  /\ v4lqueued' = v4lqueued - 1
  /\ v4llist' = v4llist \ {b}
  /\ UNCHANGED <<refs, free_pool, stream, pool_lock, device, queue, sink, codec,
                 events>>

\* clear_showingbuf, one buffer: as many references as its showcnt says.  If
\* that is all there are, it is finalized as shown, and a further one leaves
\* it in the pool.
ClearShowing(b) ==
  /\ sink.pc = "clear" /\ pool_lock = "none" /\ bufstate[b] = "SHOWING"
  /\ \A c \in Buffers : bufstate[c] = "SHOWING" => b <= c
  /\ IF refs[b] > showcnt[b]
     THEN /\ bufstate' = [bufstate EXCEPT ![b] = "SHOWED"]
          /\ refs' = [refs EXCEPT ![b] = @ - showcnt[b]]
          /\ UNCHANGED free_pool
     ELSE /\ bufstate' = [bufstate EXCEPT ![b] = "IDLE"]
          /\ refs' = [refs EXCEPT ![b] = 1]
          /\ free_pool' = Append(free_pool, b)
  /\ showcnt' = [showcnt EXCEPT ![b] = 0]
  /\ v4lqueued' = v4lqueued - 1
  /\ UNCHANGED <<v4llist, stream, pool_lock, device, queue, sink, codec,
                 events>>

Cleared ==
  /\ sink.pc = "clear" /\ \A b \in Buffers : bufstate[b] # "SHOWING"
  /\ sink' = [sink EXCEPT !.pc = IF suspend THEN "release" ELSE "show"]
  /\ UNCHANGED <<buffers, showcnt, v4llist, v4lqueued, stream, pool_lock,
                 device, queue, codec, events>>

\* A changed geometry, where set_crop switches the stream off (every chip but
\* the MX6Q): the driver forgets its queue, the sink keeps its own.
Geometry ==
  /\ sink.pc = "show" /\ stream_on /\ StreamOnAt = 1
  /\ Happens("geometry")
  /\ stream_on' = FALSE /\ qbuff_count' = 0
  /\ driver' = <<>> /\ done' = <<>> /\ driver_on' = FALSE
  /\ UNCHANGED <<buffers, showcnt, v4llist, v4lqueued, suspend, pm_mode,
                 pool_lock, queue, sink, codec>>

\* No reserved buffer to copy it to: dropped, after one try to dequeue.
ShowSoftware ==
  /\ sink.pc = "show" /\ sink.buffer = SwBuffer
  /\ sink' = [sink EXCEPT !.pc = IF v4lqueued > MIN_QUEUE_NUM THEN "dq once"
                                 ELSE "release"]
  /\ UNCHANGED <<buffers, showcnt, v4llist, v4lqueued, stream, pool_lock,
                 device, queue, codec, events>>

\* A frame that is queued already is not queued again, but counted.
ShowAgain ==
  LET b == sink.buffer IN
  /\ sink.pc = "show" /\ b \in v4llist /\ showcnt[b] < MaxShow
  /\ showcnt' = [showcnt EXCEPT ![b] = @ + 1]
  /\ sink' = [sink EXCEPT !.pc = "trydq", !.again = TRUE]
  /\ UNCHANGED <<buffers, v4llist, v4lqueued, stream, pool_lock, device, queue,
                 codec, events>>

\* The reference, and the list that the index is looked up in.
Refer ==
  LET b == sink.buffer IN
  /\ sink.pc = "show" /\ b \in Buffers \ v4llist /\ showcnt[b] < MaxShow
  /\ refs' = [refs EXCEPT ![b] = @ + 1]
  /\ showcnt' = [showcnt EXCEPT ![b] = @ + 1]
  /\ sink' = [sink EXCEPT !.pc = "append", !.list = v4llist]
  /\ UNCHANGED <<bufstate, free_pool, v4llist, v4lqueued, stream, pool_lock,
                 device, queue, codec, events>>

\* g_list_append returns the head it was given.  If codec has removed that in
\* between, the list begins with a node that was freed, and anything may be
\* found in it.
AppendIndex ==
  v4llist' \in IF v4llist = sink.list THEN {sink.list \cup {sink.buffer}}
               ELSE SUBSET Buffers

\* The list is stored, and VIDIOC_QBUF.
Queue ==
  /\ sink.pc = "append"
  /\ AppendIndex
  /\ events' = RacesAlong(sink)
  /\ driver' = Append(driver, sink.buffer)
  /\ sink' = [sink EXCEPT !.pc = "queued", !.list = {}]
  /\ UNCHANGED <<buffers, showcnt, v4lqueued, stream, pool_lock, done,
                 driver_on, queue, codec>>

\* VIDIOC_QBUF fails: the list and the reference stay, and the lock that is
\* given back is not the sink's.
QueueFails ==
  /\ sink.pc = "append"
  /\ AppendIndex
  /\ CanHappen("error") /\ events' = RacesAlong(sink) \cup {"error"}
  /\ pool_lock' = "none"
  /\ sink' = [sink EXCEPT !.pc = "release", !.list = {}]
  /\ UNCHANGED <<buffers, showcnt, v4lqueued, stream, device, queue, codec>>

Showing ==
  /\ sink.pc = "queued"
  /\ bufstate' = [bufstate EXCEPT ![sink.buffer] = "SHOWING"]
  /\ sink' = [sink EXCEPT !.pc = "count", !.n = v4lqueued]
  /\ UNCHANGED <<refs, free_pool, showcnt, v4llist, v4lqueued, stream,
                 pool_lock, device, queue, codec, events>>

\* VIDIOC_STREAMON; nobody looks at whether it worked.
StreamOn ==
  \/ stream_on' = TRUE /\ driver_on' = TRUE /\ UNCHANGED events
  \/ Happens("streamon") /\ UNCHANGED <<stream_on, driver_on>>

\* The stream goes on with the second buffer, or with the first.
Count ==
  /\ sink.pc = "count"
  /\ v4lqueued' = sink.n + 1
  /\ IF qbuff_count = StreamOnAt THEN StreamOn
     ELSE UNCHANGED <<stream_on, driver_on, events>>
  /\ qbuff_count' = IF qbuff_count = 2 THEN 2 ELSE qbuff_count + 1
  /\ sink' = [sink EXCEPT !.pc = "trydq", !.n = 0, !.again = TRUE]
  /\ UNCHANGED <<buffers, showcnt, v4llist, suspend, pm_mode, pool_lock, driver,
                 done, queue, codec>>

\* A mistake: waits for a long queue.
TryDequeueLate ==
  /\ sink.pc = "trydq"
  /\ sink' = [sink EXCEPT !.pc = IF v4lqueued > QUEUE_SIZE_HIGH THEN "dq"
                                 ELSE "release"]
  /\ UNCHANGED <<buffers, showcnt, v4llist, v4lqueued, stream, pool_lock,
                 device, queue, codec, events>>

\* try_dq_buffer
TryDequeue ==
  /\ sink.pc = "trydq"
  /\ sink' = [sink EXCEPT !.pc = IF v4lqueued > MIN_QUEUE_NUM THEN "dq"
                                 ELSE "release"]
  /\ UNCHANGED <<buffers, showcnt, v4llist, v4lqueued, stream, pool_lock,
                 device, queue, codec, events>>

SinkDequeue ==
  /\ sink.pc \in {"dq", "dq once"} /\ pool_lock = "none" /\ done # <<>>
  /\ v4lqueued' = v4lqueued - 1
  /\ done' = Tail(done)
  /\ v4llist' = v4llist \ {Head(done)}
  /\ Dequeued(Head(done))
  /\ sink' = [sink EXCEPT !.pc = "drop", !.dequeued = Drops(Head(done))]
  /\ UNCHANGED <<refs, free_pool, stream, pool_lock, driver, driver_on, queue,
                 codec, events>>

\* A mistake: tries until something is dequeued.
GiveUpNever ==
  /\ sink.pc \in {"dq", "dq once"} /\ pool_lock = "none" /\ done = <<>>
  /\ sink' = [sink EXCEPT !.pc = "trydq"]
  /\ UNCHANGED <<buffers, showcnt, v4llist, v4lqueued, stream, pool_lock,
                 device, queue, codec, events>>

\* DEQUEUE_TIMES_IN_SHOW tries (or the only one) found nothing.  The driver is
\* not that slow, unless it has nothing more to show.
GiveUp ==
  /\ sink.pc \in {"dq", "dq once"} /\ pool_lock = "none" /\ done = <<>>
  /\ IF sink.pc = "dq" /\ driver_on /\ Len(driver) > 1 THEN Happens("stall")
     ELSE UNCHANGED events
  /\ sink' = [sink EXCEPT !.pc = "release"]
  /\ UNCHANGED <<buffers, showcnt, v4llist, v4lqueued, stream, pool_lock,
                 device, queue, codec>>

\* Once more when the queue is long, but only once.
SinkDrop ==
  /\ sink.pc = "drop"
  /\ IF sink.dequeued = None THEN UNCHANGED buffers ELSE Unref(sink.dequeued)
  /\ sink' = [sink EXCEPT !.dequeued = None, !.again = FALSE,
                          !.pc = IF sink.again /\ v4lqueued > QUEUE_SIZE_HIGH
                                 THEN "trydq" ELSE "release"]
  /\ UNCHANGED <<showcnt, v4llist, v4lqueued, stream, pool_lock, device, queue,
                 codec, events>>

\* show_frame has returned, and the base class drops its reference.
Release ==
  /\ sink.pc = "release"
  /\ Unref(sink.buffer)
  /\ sink' = Idle
  /\ UNCHANGED <<showcnt, v4llist, v4lqueued, stream, pool_lock, device, queue,
                 codec, events>>

\* All that the thread does of itself: Geometry and QueueFails are not.
SinkStep ==
  \/ Render \/ Cleared \/ ShowSoftware \/ ShowAgain \/ Refer \/ Queue
  \/ \E b \in Buffers : ClearShowing(b)
  \/ Showing \/ Count \/ TryDequeue \/ SinkDequeue \/ GiveUp
  \/ SinkDrop \/ Release

\* Somebody writes /tmp/v4l.pid.
PowerMode(m) ==
  /\ IF m = "1" THEN pm_mode = "0" /\ Happens("suspend")
     ELSE pm_mode = "1" /\ UNCHANGED events
  /\ pm_mode' = m
  /\ UNCHANGED <<buffers, showcnt, v4llist, v4lqueued, qbuff_count, stream_on,
                 suspend, pool_lock, device, queue, sink, codec>>

-------------------------------------------------------------------------------
(* close, at READY_TO_NULL; no thread is in the sink *)

\* A mistake: leaves the counter of streamon.
CloseKeepsStreaming ==
  /\ LET own == {b \in Buffers : bufstate[b] \in {"IDLE", "SHOWING"}}
     IN /\ bufstate' = [b \in Buffers |->
                          IF bufstate[b] = "NONE" \/ (b \in own /\ refs[b] = 1)
                          THEN "NONE" ELSE "FREE"]
        /\ refs' = [b \in Buffers |-> refs[b] - IF b \in own THEN 1 ELSE 0]
  /\ free_pool' = <<>> /\ v4llist' = {}
  /\ IF stream_on
     THEN /\ driver' = <<>> /\ done' = <<>> /\ driver_on' = FALSE
          /\ stream_on' = FALSE /\ UNCHANGED qbuff_count
     ELSE UNCHANGED <<device, stream_on, qbuff_count>>
  /\ UNCHANGED <<showcnt, v4lqueued, suspend, pm_mode, pool_lock, queue, sink,
                 codec, events>>

\* A mistake: what was on display is left to others.
CloseIdle ==
  /\ LET own == {b \in Buffers : bufstate[b] = "IDLE"}
     IN /\ bufstate' = [b \in Buffers |->
                          IF bufstate[b] = "NONE" \/ (b \in own /\ refs[b] = 1)
                          THEN "NONE" ELSE "FREE"]
        /\ refs' = [b \in Buffers |-> refs[b] - IF b \in own THEN 1 ELSE 0]
  /\ free_pool' = <<>> /\ v4llist' = {}
  /\ IF stream_on
     THEN /\ driver' = <<>> /\ done' = <<>> /\ driver_on' = FALSE
          /\ stream_on' = FALSE /\ qbuff_count' = 0
     ELSE UNCHANGED <<device, stream_on, qbuff_count>>
  /\ UNCHANGED <<showcnt, v4lqueued, suspend, pm_mode, pool_lock, queue, sink,
                 codec, events>>

\* A buffer that nobody outside holds is freed; the others are when they come
\* back.  The stream goes off if the sink thinks it is on.
Close ==
  /\ LET own == {b \in Buffers : bufstate[b] \in {"IDLE", "SHOWING"}}
     IN /\ bufstate' = [b \in Buffers |->
                          IF bufstate[b] = "NONE" \/ (b \in own /\ refs[b] = 1)
                          THEN "NONE" ELSE "FREE"]
        /\ refs' = [b \in Buffers |-> refs[b] - IF b \in own THEN 1 ELSE 0]
  /\ free_pool' = <<>> /\ v4llist' = {}
  /\ IF stream_on
     THEN /\ driver' = <<>> /\ done' = <<>> /\ driver_on' = FALSE
          /\ stream_on' = FALSE /\ qbuff_count' = 0
     ELSE UNCHANGED <<device, stream_on, qbuff_count>>
  /\ UNCHANGED <<showcnt, v4lqueued, suspend, pm_mode, pool_lock, queue, sink,
                 codec, events>>

\* A mistake: the count goes on.
OpenCounts(Out) ==
  /\ \A b \in Buffers : bufstate[b] = "NONE"
  /\ bufstate' = Handed(Out) /\ free_pool' = Free(Out)
  /\ showcnt' = [b \in Buffers |-> 0]
  /\ refs' = [b \in Buffers |-> 1]
  /\ driver' = <<>> /\ done' = <<>> /\ driver_on' = FALSE
  /\ UNCHANGED <<v4llist, v4lqueued, stream, pool_lock, queue, sink, codec,
                 events>>

\* NULL_TO_READY, and the first allocation after it.  qbuff_count, suspend and
\* stream_on are as they were.  All memory is back, so that the device can be
\* set up again.
Open(Out) ==
  /\ \A b \in Buffers : bufstate[b] = "NONE"
  /\ bufstate' = Handed(Out) /\ free_pool' = Free(Out)
  /\ showcnt' = [b \in Buffers |-> 0]
  /\ refs' = [b \in Buffers |-> 1]
  /\ v4lqueued' = 0
  /\ driver' = <<>> /\ done' = <<>> /\ driver_on' = FALSE
  /\ UNCHANGED <<v4llist, stream, pool_lock, queue, sink, codec, events>>
===============================================================================
