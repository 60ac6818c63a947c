------------------------------- MODULE Rendering -------------------------------
(***************************************************************************)
(* A decoder and the sink it shares buffers with, in one pipeline with a   *)
(* queue between them.  The decoder is the VPU's, which keeps the buffers  *)
(* it allocated ("vpu"), or one in software, which allocates a buffer for  *)
(* each frame and gives it away ("copy": h264_dec and wmv_dec, which call  *)
(* gst_pad_alloc_buffer_and_set_caps).                                     *)
(*                                                                         *)
(* The pipeline is flushed and goes on, or is stopped: its threads come to *)
(* rest, the decoder goes to READY, and the sink to NULL; then it may be   *)
(* started again.                                                          *)
(***************************************************************************)
EXTENDS VpuDec

CONSTANTS
  Decoders,     \* which kinds of decoder
  QueueSize     \* the queue element's limit

ASSUME RenderingAssumption ==
  Decoders \subseteq {"copy", "vpu"} /\ QueueSize \in Nat \ {0}

VARIABLES decoder, phase

vars == <<sinkVars, vpuVars, decoder, phase>>

\* The VPU decoder allocates its frames before it decodes the first.
HandedOut(d) == IF d = "vpu" THEN Registered ELSE {}

Init ==
  /\ decoder \in Decoders
  /\ SinkInit(HandedOut(decoder))
  /\ CoreInit
  /\ phase = "run"

Flushing == phase \in {"flush", "stop"}

-------------------------------------------------------------------------------
(* The decoder's thread *)

Start ==
  /\ codec.pc = "idle" /\ phase = "run"
  /\ codec' = [Idle EXCEPT !.pc = IF decoder = "vpu" THEN "chain" ELSE "newbuf"]
  /\ UNCHANGED <<buffers, showcnt, v4llist, v4lqueued, stream, pool_lock,
                 device, queue, sink, events, vpuVars, decoder, phase>>

\* A mistake: a frame that is refused is sent once more.
PushAgain ==
  /\ codec.pc = "push"
  /\ IF Flushing THEN UNCHANGED <<buffers, queue, codec>>
     ELSE /\ Len(queue) < QueueSize
          /\ queue' = Append(queue, codec.buffer)
          /\ UNCHANGED buffers
          /\ IF decoder = "vpu" THEN AfterPicture ELSE codec' = Idle
  /\ UNCHANGED <<showcnt, v4llist, v4lqueued, stream, pool_lock, device, sink,
                 events, vpuVars, decoder, phase>>

\* gst_pad_push to the queue; refused while flushing.  The VPU decoder does not
\* look at the result.
Push ==
  /\ codec.pc = "push"
  /\ IF Flushing THEN Unref(codec.buffer) /\ UNCHANGED queue
     ELSE /\ Len(queue) < QueueSize
          /\ queue' = Append(queue, codec.buffer)
          /\ UNCHANGED buffers
  /\ IF decoder = "vpu" THEN AfterPicture ELSE codec' = Idle
  /\ UNCHANGED <<showcnt, v4llist, v4lqueued, stream, pool_lock, device, sink,
                 events, vpuVars, decoder, phase>>

CodecStep ==
  \/ Start \/ Push
  \/ Allocate /\ UNCHANGED <<vpuVars, decoder, phase>>
  \/ /\ CheckDisplayQueue \/ NoPicture \/ \E f \in Buffers : Output(f)
     /\ UNCHANGED <<decoder, phase>>

-------------------------------------------------------------------------------
(* The application's thread *)

\* FLUSH_START of a seek, and the way from PAUSED to READY
Interrupt ==
  /\ phase = "run"
  /\ \/ phase' = "flush" /\ Happens("flush")
     \/ phase' = "stop" /\ UNCHANGED events
  /\ UNCHANGED <<buffers, showcnt, v4llist, v4lqueued, stream, pool_lock,
                 device, queue, sink, codec, vpuVars, decoder>>

\* The queue element drops what it holds.
Drain ==
  /\ Flushing /\ queue # <<>>
  /\ Unref(Head(queue))
  /\ queue' = Tail(queue)
  /\ UNCHANGED <<showcnt, v4llist, v4lqueued, stream, pool_lock, device, sink,
                 codec, events, vpuVars, decoder, phase>>

AtRest == sink.pc = "idle" /\ codec.pc = "idle" /\ queue = <<>>

FlushStop ==
  /\ phase = "flush" /\ AtRest
  /\ phase' = "run"
  /\ IF decoder = "vpu" THEN FlushFrames ELSE UNCHANGED vpuVars
  /\ UNCHANGED <<buffers, showcnt, v4llist, v4lqueued, stream, pool_lock,
                 device, queue, sink, codec, events, decoder>>

DecoderToReady ==
  /\ phase = "stop" /\ AtRest
  /\ phase' = "ready"
  /\ IF decoder = "vpu" THEN FreeFrames ELSE UNCHANGED <<buffers, vpuVars>>
  /\ UNCHANGED <<showcnt, v4llist, v4lqueued, stream, pool_lock, device, queue,
                 sink, codec, events, decoder>>

SinkToNull ==
  /\ phase = "ready"
  /\ phase' = "null"
  /\ Close
  /\ UNCHANGED <<vpuVars, decoder>>

Restart ==
  /\ phase = "null"
  /\ phase' = "run"
  /\ Open(HandedOut(decoder))
  /\ UNCHANGED <<vpuVars, decoder>>

Control == Drain \/ FlushStop \/ DecoderToReady \/ SinkToNull

Next ==
  \/ CodecStep \/ Interrupt \/ Control \/ Restart
  \/ /\ \/ Complete \/ SinkStep \/ Geometry \/ QueueFails
        \/ \E m \in {"1", "2"} : PowerMode(m)
     /\ UNCHANGED <<vpuVars, decoder, phase>>

Spec == Init /\ [][Next]_vars

\* Threads run, the driver displays, and what was begun is ended.
FairSpec ==
  /\ Spec
  /\ WF_vars(CodecStep) /\ WF_vars(Control)
  /\ WF_vars(SinkStep /\ UNCHANGED <<vpuVars, decoder, phase>>)
  /\ WF_vars(Complete /\ UNCHANGED <<vpuVars, decoder, phase>>)

-------------------------------------------------------------------------------
(* Properties *)

\* Some hazards the code is not made for: what it promises holds until then.
Harmed(E) == events \cap E # {}

\* The element that gave frames back to the core while they were displayed.
FlushedVpu == decoder = "vpu" /\ Harmed({"flush"})

\* Both threads were in the list at once: a decoder that copies allocates
\* while the sink renders.
ListRaced == decoder = "copy" /\ Harmed({"race"})

Queued == ToSet(driver) \cup ToSet(done)

\* What the state consists of.  The bound of refs: the pool or the decoder, one
\* per thread, the queue, and the driver.
TypeOK ==
  /\ bufstate \in [Buffers -> {"ALLOCATED", "SHOWED", "SHOWING", "IDLE",
                               "FREE", "NONE"}]
  /\ showcnt \in [Buffers -> 0 .. MaxShow]
  /\ refs \in [Buffers -> 0 .. 3 + MaxShow]
  /\ free_pool \in Seq(Buffers) /\ queue \in Seq(Buffers \cup {SwBuffer})
  /\ v4llist \subseteq Buffers /\ display_handle \subseteq Buffers
  /\ v4lqueued \in Int /\ output_size = Cardinality(display_handle)

Number(P) == IF P THEN 1 ELSE 0

\* The reference count of a buffer is the number of places that hold it: the
\* pool, the decoder, the queue, the two threads, and the driver as often as
\* showcnt says.  None is lost when the stream is flushed, dequeues fail, the
\* geometry changes or the driver refuses a buffer.  (Suspending drops
\* references of buffers the driver still has, and an index that was listed
\* and not queued makes the sink count a buffer without a reference.)
RefsAccounted ==
  ~Harmed({"suspend"}) /\ ~FlushedVpu /\ ~ListRaced =>
  \A b \in Buffers :
    bufstate[b] \notin {"NONE", "FREE"} =>
    refs[b] = Number(b \in ToSet(free_pool))
              + Number(codec.buffer = b)
              + Number(decoder = "vpu" /\ phase \in {"run", "flush", "stop"})
              + Cardinality({i \in DOMAIN queue : queue[i] = b})
              + Number(sink.buffer = b)
              + showcnt[b]
              + Number(codec.pc = "drop" /\ codec.dequeued = b)
              + Number(sink.pc = "drop" /\ sink.dequeued = b)

\* A buffer is in the free pool once or not at all, and only when the driver
\* does not have it: the next allocation gives it away without another look.
PoolExclusive ==
  ~Harmed({"suspend"}) /\ ~ListRaced =>
    /\ IsInjective(free_pool)
    /\ \A b \in Buffers :
         /\ (b \in ToSet(free_pool)) <=> bufstate[b] = "IDLE"
         /\ bufstate[b] = "IDLE" => b \notin Queued /\ showcnt[b] = 0

\* Nobody writes a picture into a buffer that is displayed or waits to be:
\* neither a software decoder that was given it nor the VPU, which may write
\* every frame that is not out for display.
NoTearing ==
  ~Harmed({"suspend"}) /\ ~FlushedVpu =>
    LET shown == Queued \cup ToSet(queue) \cup {sink.buffer}
    IN /\ codec.pc = "push" /\ decoder = "copy" /\ codec.buffer # SwBuffer
            => codec.buffer \notin shown
       /\ decoder = "vpu" /\ phase = "run"
            => Registered \ display_handle \subseteq Buffers \ shown

\* v4llist holds the indexes the driver has queued, over flushes, suspensions,
\* stalls and restarts, until the two threads change it at once, which they
\* never do with a decoder that allocates only once.  A buffer that is listed
\* and not queued would never be shown again.
ListMirrors ==
  ~Harmed({"geometry", "error"}) /\ ~ListRaced /\ phase # "null" =>
    v4llist = Queued \cup (IF codec.pc = "store" THEN {codec.dequeued} ELSE {})

\* Between two calls of the threads v4lqueued is the number of buffers in the
\* queue of the device, which is what mfw_gst_v4lsink.h says of it.
CountExact ==
  sink.pc = "idle" /\ codec.pc = "idle" /\ phase = "run"
    => v4lqueued = Len(driver) + Len(done)

\* It is so with a decoder that allocates only once: then only one thread
\* changes the count.
CountVpu ==
  decoder = "vpu" /\ ~Harmed({"suspend", "geometry"}) => CountExact

\* Once two buffers wait in the driver (on an MX6Q that deinterlaces, one) the
\* stream is on, after every flush, suspension, change of geometry and restart,
\* unless the driver has refused to switch it on: nobody tries again.
StreamsOn ==
  ~Harmed({"streamon"}) =>
    (sink.pc \in {"idle", "trydq"} /\ phase # "null" /\ Len(driver) > StreamOnAt
       => driver_on)

\* When the element stops, every buffer's memory goes, in the sink or when the
\* last one that holds it lets go.
AllFreed ==
  ~Harmed({"error"}) /\ phase = "null"
    => \A b \in Buffers : bufstate[b] = "NONE"

\* The core does not stay without a frame to decode into: it gets one back, or
\* the pipeline is stopped.  What the sink keeps, what the element keeps and
\* what waits in between are not all the frames.  With as few buffers as this
\* instance has, a driver that stalls once leaves one more in the sink.
Starved == decoder = "vpu" /\ display_handle = Registered
Fed ==
  []<>(~Starved \/ phase # "run"
       \/ Harmed({"suspend", "geometry", "error", "stall", "streamon"}))

AtBound == \E b \in Buffers : showcnt[b] = MaxShow

\* new_buffer dequeues for as long as v4lqueued says there is something to
\* dequeue; the driver has nothing left to give, and nobody else is there to
\* bring the count down.
Endless ==
  /\ codec.pc \in {"newbuf", "dq"} /\ ~codec.again
  /\ v4lqueued > MIN_QUEUE_NUM /\ done = <<>>
  /\ ~(driver_on /\ Len(driver) > 1)
  /\ sink.pc = "idle" /\ queue = <<>>

\* A pipeline that is told to stop does, with either decoder, in whatever state
\* the driver and the lists are, and although the VPU's decoder goes on with
\* its input after a push was refused.  Nothing keeps it from that but a count
\* of more than the driver will give back, which makes the search for a buffer
\* endless.
Stopped == []<>(phase \notin {"stop", "ready"} \/ AtBound \/ Endless)
===============================================================================
