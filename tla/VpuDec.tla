-------------------------------- MODULE VpuDec --------------------------------
(***************************************************************************)
(* src/video/vpu: the decoder element around the VPU core.  It allocates   *)
(* all its frames from the sink when the core knows the format, registers  *)
(* them with the core, and shares each one it shows with the sink.  The    *)
(* core may write a frame again once the element says it was displayed,    *)
(* which it finds out by looking at the frame's reference count.           *)
(*                                                                         *)
(* What the core makes of its input is its choice (not part of src): it    *)
(* decodes into a frame that is not its caller's and gives it out at once. *)
(* A call of chain goes round its loop until the core wants more input, or *)
(* decode_retry_cnt tries brought nothing: after a picture it may go on,   *)
(* whatever became of the picture.  What one call is given holds two       *)
(* pictures at most.  The loop that drains the core at the end of the      *)
(* stream is as many calls.  A picture is hidden when it is mosaic, or     *)
(* when frames are to be dropped.                                          *)
(***************************************************************************)
EXTENDS V4lSink

CONSTANT DECODE_RETRY_CNT

ASSUME VpuDecAssumption == DECODE_RETRY_CNT \in Nat \ {0}

VARIABLES
  display_handle,    \* the frames given out by the core and not handed back
  output_size,       \* their number, as the element counts
  latest             \* the frame whose age is the age of the element

vpuVars == <<display_handle, output_size, latest>>

\* core_init
CoreInit == display_handle = {} /\ output_size = 0 /\ latest = None

\* create_and_register_frames: every buffer of the sink is a frame.
Registered == Buffers

\* gst_buffer_is_writable
Writable(f) == refs[f] = 1

\* A mistake: does not look who holds them.
CheckDisplayQueueUnseen ==
  /\ codec.pc = "chain"
  /\ display_handle' = display_handle \cap {latest}
  /\ output_size' = Cardinality(display_handle')
  /\ codec' = [codec EXCEPT !.pc = "decode"]
  /\ UNCHANGED <<buffers, showcnt, v4llist, v4lqueued, stream, pool_lock,
                 device, queue, sink, events, latest>>

\* check_display_queue: the frames nobody else holds go back to the core, but
\* for the latest.  (The count of a frame that is out only goes down, so one
\* look at them all misses nothing that the next does not see.)
CheckDisplayQueue ==
  LET back == {f \in display_handle : f # latest /\ Writable(f)}
  IN /\ codec.pc = "chain"
     /\ display_handle' = display_handle \ back
     /\ output_size' = output_size - Cardinality(back)
     /\ codec' = [codec EXCEPT !.pc = "decode"]
     /\ UNCHANGED <<buffers, showcnt, v4llist, v4lqueued, stream, pool_lock,
                    device, queue, sink, events, latest>>

\* VPU_DecDecodeBuf without a picture: nothing decoded, no frame to decode to,
\* or a picture skipped.
NoPicture ==
  /\ codec.pc = "decode"
  /\ \/ codec' = Idle
     \/ /\ codec.n + 1 < DECODE_RETRY_CNT
        /\ codec' = [codec EXCEPT !.pc = "chain", !.n = @ + 1]
  /\ UNCHANGED <<buffers, showcnt, v4llist, v4lqueued, stream, pool_lock,
                 device, queue, sink, events, vpuVars>>

AssignOutput(f) ==
  /\ display_handle' = display_handle \cup {f}
  /\ output_size' = output_size + 1
  /\ latest' = f

\* The end of the loop after a picture: chain returns, or goes round with
\* retrycnt at zero.  again says that it had its picture of this call.
AfterPicture ==
  \/ codec' = Idle
  \/ ~codec.again /\ codec' = [Idle EXCEPT !.pc = "chain", !.again = TRUE]

\* show_frame: a frame that is shown gets a reference for downstream.
ShowFrame(f) ==
  \/ /\ refs' = [refs EXCEPT ![f] = @ + 1]
     /\ codec' = [codec EXCEPT !.pc = "push", !.buffer = f, !.n = 0]
  \/ AfterPicture /\ UNCHANGED refs

\* VPU_DEC_OUTPUT_DIS and VPU_DEC_OUTPUT_MOSAIC_DIS
Output(f) ==
  /\ codec.pc = "decode" /\ f \in Registered \ display_handle
  /\ AssignOutput(f)
  /\ ShowFrame(f)
  /\ UNCHANGED <<bufstate, free_pool, showcnt, v4llist, v4lqueued, stream,
                 pool_lock, device, queue, sink, events>>

\* FLUSH_STOP: every frame goes back to the core, whoever holds it.
FlushFrames ==
  /\ display_handle' = {} /\ output_size' = 0
  /\ UNCHANGED latest

\* core_deinit: the element's reference of each frame; and core_init, later.
FreeFrames ==
  LET released == {f \in Registered :
                     refs[f] = 1 /\ bufstate[f] \in {"ALLOCATED", "SHOWED"}}
  IN /\ bufstate' = [f \in Buffers |-> IF f \in released THEN "IDLE"
                                       ELSE bufstate[f]]
     /\ refs' = [f \in Buffers |-> IF refs[f] = 1 THEN 1 ELSE refs[f] - 1]
     /\ free_pool' = free_pool \o Ascending(released)
     /\ display_handle' = {} /\ output_size' = 0 /\ latest' = None
===============================================================================
