-------------------------------- MODULE GPlayer --------------------------------
(***************************************************************************)
(* tools/gplay: the command line player.  Three threads share a playbin:   *)
(*   bus   dispatches the messages of the pipeline (my_bus_callback),      *)
(*   msg   takes messages from a queue and acts on them (msg_thread_fun),  *)
(*   main  reads the user's commands, and cleans up when the player ends.  *)
(* At the end of a stream bus queues EOS and waits on a semaphore until    *)
(* msg has stopped the pipeline.                                           *)
(*                                                                         *)
(* A thread is a list of the steps it still has to do.  stop, play and     *)
(* pause are one step each: they hold status_switching_mutex all along.    *)
(* A message of the queue is also the step that puts it there.             *)
(*                                                                         *)
(* The queue is as long as memory allows (max_len is ~0), so that a put    *)
(* never waits.  Volume, mute, display and metadata change nothing of      *)
(* this and are left out, as is the thread that prints the position.       *)
(***************************************************************************)
EXTENDS Integers, FiniteSets, SequencesExt

CONSTANTS
  NumItems,      \* files on the command line
  Commands,      \* commands the user types
  Options,       \* what the options of the command line set
  MaxSent,       \* bound: messages the pipeline posts
  MaxCommands    \* bound: commands the user types

ASSUME GPlayerAssumption ==
  /\ NumItems \in Nat \ {0} /\ MaxSent \in Nat /\ MaxCommands \in Nat
  /\ Options \subseteq [repeat : {"none", "playlist"}, play_times : Int,
                         handle_buffering : BOOLEAN]
  /\ Commands \subseteq {"play", "stop", "pause", "seek", "rate", "next",
                         "previous", "repeat", "exit"}

Items == 1 .. NumItems
Modes == {"none", "playlist", "current"}
Buffering == {"BUFFERING_0", "BUFFERING_100"}
Messages == Buffering \cup {"EOS", "EXIT", "INTERNAL_ERROR"}
Threads == {"bus", "msg", "main"}

VARIABLES
  gst,             \* state of the pipeline
  ended,           \* whether it has posted the end of the stream it plays
  uri,             \* the item it plays, or plays next
  bus,             \* its messages, not yet dispatched
  queue, asleep,   \* the message queue; whether msg waits on cond_full
  eos_semaphore,
  player_state,
  current, repeat, play_times, handle_buffering,   \* opt
  picked,          \* next, in playlist_previous
  gbexit,          \* gbexit_main and gbexit_msg_thread; the alarm is set
  quit,            \* g_main_loop_quit was called
  todo,            \* the steps each thread has left
  typed, sent,     \* commands typed and messages of the pipeline so far
  strayed          \* history: a change of state that timed out was the last

pipeline == <<gst, ended, uri>>
opt == <<current, repeat, play_times, picked>>
messages == <<queue, asleep>>
flags == <<gbexit, quit, handle_buffering, typed, sent>>
vars == <<pipeline, bus, messages, eos_semaphore, player_state, opt, flags,
          todo, strayed>>

Init ==
  /\ gst = "NULL" /\ ended = FALSE /\ uri = 1
  /\ bus = <<>> /\ queue = <<>> /\ asleep = FALSE
  /\ eos_semaphore = 0
  /\ player_state = "STOPPED"
  /\ current = 1 /\ picked = 0
  /\ \E o \in Options :
       /\ repeat = o.repeat /\ play_times = o.play_times
       /\ handle_buffering = o.handle_buffering
  /\ gbexit = FALSE /\ quit = FALSE
  /\ todo = [bus |-> <<>>, msg |-> <<"top">>, main |-> <<"set", "play", "top">>]
  /\ typed = 0 /\ sent = 0 /\ strayed = FALSE

At(t, step) == todo[t] # <<>> /\ Head(todo[t]) = step

\* The thread is done with its step and has these to do first.
Then(t, steps) == todo' = [todo EXCEPT ![t] = steps \o Tail(@)]

\* player_exit, and the start of an item
Exit == <<"stop", "flush", "exit">>
Start == <<"stop", "set", "play">>

-------------------------------------------------------------------------------
(* fsl_player_queue.c *)

PutNeverSignals(t) ==
  \E m \in Messages \ Buffering :
    /\ At(t, m)
    /\ queue' = Append(queue, m)
    /\ asleep' = (asleep /\ queue' # <<>>)
    /\ Then(t, <<>>)
    /\ UNCHANGED <<pipeline, bus, eos_semaphore, player_state, opt, flags,
                   strayed>>

\* put with FSL_PLAYER_UI_MSG_PUT_NEW; the first message wakes the reader.
Put(t) ==
  \E m \in Messages \ Buffering :
    /\ At(t, m)
    /\ queue' = Append(queue, m)
    /\ asleep' = (asleep /\ queue # <<>>)
    /\ Then(t, <<>>)
    /\ UNCHANGED <<pipeline, bus, eos_semaphore, player_state, opt, flags,
                   strayed>>

ReplaceAny(t) ==
  \E m \in Buffering :
    /\ At(t, m)
    /\ queue' = IF queue = <<>> THEN <<m>> ELSE <<m>> \o Tail(queue)
    /\ asleep' = (asleep /\ queue # <<>>)
    /\ Then(t, <<>>)
    /\ UNCHANGED <<pipeline, bus, eos_semaphore, player_state, opt, flags,
                   strayed>>

\* put with FSL_PLAYER_UI_MSG_REPLACE looks at the first message only: if that
\* one is of another kind, the new message is lost.
Replace(t) ==
  \E m \in Buffering :
    /\ At(t, m)
    /\ queue' = IF queue = <<>> THEN <<m>>
                ELSE IF Head(queue) \in Buffering THEN <<m>> \o Tail(queue)
                ELSE queue
    /\ asleep' = (asleep /\ queue # <<>>)
    /\ Then(t, <<>>)
    /\ UNCHANGED <<pipeline, bus, eos_semaphore, player_state, opt, flags,
                   strayed>>

\* What msg_thread_fun does with a message.
Handle(m) ==
  CASE m = "EOS" -> <<"stop", "post", "next", "top">>
    [] m = "EXIT" -> <<"returned">>
    [] m = "INTERNAL_ERROR" -> Exit \o <<"returned">>
    [] OTHER -> IF handle_buffering THEN <<"pause", "top">> ELSE <<"top">>

\* get, without a limit of time
Sleep ==
  /\ At("msg", "get") /\ queue = <<>> /\ ~asleep
  /\ asleep' = TRUE
  /\ UNCHANGED <<pipeline, bus, queue, eos_semaphore, player_state, opt, flags,
                 todo, strayed>>

Get ==
  /\ At("msg", "get") /\ queue # <<>> /\ ~asleep
  /\ queue' = Tail(queue)
  /\ Then("msg", Handle(Head(queue)))
  /\ UNCHANGED <<pipeline, bus, asleep, eos_semaphore, player_state, opt, flags,
                 strayed>>

\* Messages are dropped whatever they are; cond_full is not signalled.
Flush(t) ==
  /\ At(t, "flush")
  /\ queue' = <<>>
  /\ Then(t, <<>>)
  /\ UNCHANGED <<pipeline, bus, asleep, eos_semaphore, player_state, opt, flags,
                 strayed>>

-------------------------------------------------------------------------------
(* mfw_gplay_core.c *)

Opened(s) == s \in {"PAUSED", "PLAYING"}

\* Opening an item starts its stream again; a pipeline that goes to NULL drops
\* its messages.
Reach(target) ==
  /\ gst' = target
  /\ ended' = (ended /\ Opened(gst) /\ Opened(target))
  /\ bus' = IF target = "NULL" THEN <<>> ELSE bus

\* poll_for_state_change: true when the pipeline reaches the state, false when
\* it refuses, and false too when it gets there after the timeout.  Going down
\* does not fail.
PollTrue(target) == Reach(target) /\ strayed' = FALSE

PollFalse(target) ==
  /\ Opened(target) /\ gst # target
  /\ \/ UNCHANGED <<gst, ended, bus, strayed>>
     \/ Reach(target) /\ strayed' = TRUE

SetMediaLocation(t) ==
  /\ At(t, "set")
  /\ uri' = current
  /\ Then(t, <<>>)
  /\ UNCHANGED <<gst, ended, bus, messages, eos_semaphore, player_state, opt,
                 flags, strayed>>

Play(t) ==
  /\ At(t, "play")
  /\ \/ PollTrue("PLAYING") /\ player_state' = "PLAYING"
     \/ /\ gst # "PLAYING"
        /\ PollTrue("NULL")
        /\ UNCHANGED player_state
  /\ Then(t, <<>>)
  /\ UNCHANGED <<uri, messages, eos_semaphore, opt, flags>>

\* It resumes a player that is paused, and pauses any other.
Pause(t) ==
  LET target == IF player_state = "PAUSED" THEN "PLAYING" ELSE "PAUSED"
  IN /\ At(t, "pause")
     /\ \/ PollTrue(target) /\ player_state' = target
        \/ PollFalse(target) /\ UNCHANGED player_state
     /\ Then(t, <<>>)
     /\ UNCHANGED <<uri, messages, eos_semaphore, opt, flags>>

Stop(t) ==
  /\ At(t, "stop")
  /\ PollTrue("READY")
  /\ player_state' = "STOPPED"
  /\ Then(t, <<>>)
  /\ UNCHANGED <<uri, messages, eos_semaphore, opt, flags>>

\* fsl_player_seek: the stream may end once more.
Seek(t) ==
  /\ At(t, "seek")
  /\ ended' = (ended /\ ~Opened(gst))
  /\ Then(t, <<>>)
  /\ UNCHANGED <<gst, uri, bus, messages, eos_semaphore, player_state, opt,
                 flags, strayed>>

\* fsl_player_set_playback_rate: pauses a player that plays, plays, and sends
\* a seek; the state is read and written without the mutex.
Rate(t) ==
  /\ At(t, "rate")
  /\ Then(t, IF player_state = "PLAYING" THEN <<"pause", "play", "event">>
             ELSE <<"play", "event">>)
  /\ UNCHANGED <<pipeline, bus, messages, eos_semaphore, player_state, opt,
                 flags, strayed>>

RateEvent(t) ==
  /\ At(t, "event")
  /\ \/ UNCHANGED <<ended, player_state>>
     \/ /\ Opened(gst) /\ ended' = FALSE
        /\ player_state' \in {"PLAYING", "TRICK"}
  /\ Then(t, <<>>)
  /\ UNCHANGED <<gst, uri, bus, messages, eos_semaphore, opt, flags, strayed>>

Post(t) ==
  /\ At(t, "post")
  /\ eos_semaphore' = eos_semaphore + 1
  /\ Then(t, <<>>)
  /\ UNCHANGED <<pipeline, bus, messages, player_state, opt, flags, strayed>>

Wait ==
  /\ At("bus", "wait") /\ eos_semaphore > 0
  /\ eos_semaphore' = eos_semaphore - 1
  /\ Then("bus", <<>>)
  /\ UNCHANGED <<pipeline, bus, messages, player_state, opt, flags, strayed>>

CallbackWithoutWait(m) ==
  CASE m = "EOS" -> <<"EOS">>
    [] m = "ERROR" -> <<"stop", "INTERNAL_ERROR">>
    [] m = "BUFFERING_0" -> <<"BUFFERING_0", "buffer">>
    [] m = "BUFFERING_100" -> <<"BUFFERING_100", "buffered">>

Callback(m) ==
  CASE m = "EOS" -> <<"EOS", "wait">>
    [] m = "ERROR" -> <<"stop", "INTERNAL_ERROR">>
    [] m = "BUFFERING_0" -> <<"BUFFERING_0", "buffer">>
    [] m = "BUFFERING_100" -> <<"BUFFERING_100", "buffered">>

\* my_bus_callback; messages left are dispatched even after g_main_loop_quit.
Dispatch ==
  /\ todo["bus"] = <<>> /\ bus # <<>>
  /\ bus' = Tail(bus)
  /\ todo' = [todo EXCEPT !["bus"] = Callback(Head(bus))]
  /\ UNCHANGED <<pipeline, messages, eos_semaphore, player_state, opt, flags,
                 strayed>>

BusReturn ==
  /\ todo["bus"] = <<>> /\ bus = <<>> /\ quit
  /\ todo' = [todo EXCEPT !["bus"] = <<"returned">>]
  /\ UNCHANGED <<pipeline, bus, messages, eos_semaphore, player_state, opt,
                 flags, strayed>>

\* auto_buffering: pause for more data, unless the user has paused or stopped.
Buffer ==
  /\ At("bus", "buffer")
  /\ IF ~handle_buffering /\ player_state = "PLAYING" /\ gst = "PLAYING"
     THEN Reach("PAUSED") /\ strayed' = FALSE
     ELSE UNCHANGED <<gst, ended, bus, strayed>>
  /\ Then("bus", <<>>)
  /\ UNCHANGED <<uri, messages, eos_semaphore, player_state, opt, flags>>

BufferedAlways ==
  /\ At("bus", "buffered")
  /\ IF ~handle_buffering /\ gst = "PAUSED"
     THEN PollTrue("PLAYING") \/ PollFalse("PLAYING")
     ELSE UNCHANGED <<gst, ended, bus, strayed>>
  /\ Then("bus", <<>>)
  /\ UNCHANGED <<uri, messages, eos_semaphore, player_state, opt, flags>>

Buffered ==
  /\ At("bus", "buffered")
  /\ IF ~handle_buffering /\ player_state = "PLAYING"
     THEN PollTrue("PLAYING") \/ PollFalse("PLAYING")
     ELSE UNCHANGED <<gst, ended, bus, strayed>>
  /\ Then("bus", <<>>)
  /\ UNCHANGED <<uri, messages, eos_semaphore, player_state, opt, flags>>

\* fsl_player_deinit: to NULL without the mutex, then the bus thread is joined.
Null ==
  /\ At("main", "null")
  /\ PollTrue("NULL")
  /\ quit' = TRUE
  /\ Then("main", <<>>)
  /\ UNCHANGED <<uri, messages, eos_semaphore, player_state, opt, gbexit,
                 handle_buffering, typed, sent>>

Joins == [msg |-> "join msg", bus |-> "join bus"]

Join(t) ==
  /\ At("main", Joins[t]) /\ todo[t] = <<"returned">>
  /\ Then("main", <<>>)
  /\ UNCHANGED <<pipeline, bus, messages, eos_semaphore, player_state, opt,
                 flags, strayed>>

-------------------------------------------------------------------------------
(* mfw_gplay.c *)

NoItem == 0
GetNextItemPastLast(i) == IF i > NumItems THEN NoItem ELSE i + 1
GetNextItem(i) == IF i = NumItems THEN NoItem ELSE i + 1
GetPrevItem(i) == i - 1

GoToWithoutLocation(t, item) ==
  /\ current' = item
  /\ Then(t, <<"stop", "play">>)
  /\ UNCHANGED play_times

GoTo(t, item) ==
  /\ current' = item
  /\ Then(t, Start)
  /\ UNCHANGED play_times

\* playlist_next, and player_exit if it returns NULL.
PlaylistNext(t) ==
  LET next == GetNextItem(current)
  IN /\ At(t, "next")
     /\ \/ repeat \in {"none", "playlist"} /\ next # NoItem /\ GoTo(t, next)
        \/ /\ repeat = "none" /\ next = NoItem
           /\ Then(t, Exit)
           /\ UNCHANGED <<current, play_times>>
        \/ /\ repeat = "playlist" /\ next = NoItem /\ play_times <= 0
           /\ GoTo(t, 1)
        \/ /\ repeat = "playlist" /\ next = NoItem /\ play_times > 0
           /\ play_times' = play_times - 1
           /\ Then(t, IF play_times = 1 THEN Exit ELSE Start)
           /\ current' = IF play_times = 1 THEN current ELSE 1
        \/ /\ repeat = "current"
           /\ Then(t, <<"stop", "play">>
                      \o IF next = NoItem THEN Exit ELSE <<>>)
           /\ UNCHANGED <<current, play_times>>
     /\ UNCHANGED <<pipeline, bus, messages, eos_semaphore, player_state,
                    repeat, picked, flags, strayed>>

\* playlist_previous starts the item twice; current is set again in between.
PlaylistPrevious(t) ==
  LET prev == GetPrevItem(current)
      last == prev = NoItem /\ repeat = "playlist"
      first == IF prev # NoItem THEN Start ELSE <<>>
      second == IF repeat = "current" THEN <<"stop", "play">>
                ELSE IF prev # NoItem THEN <<"again">> \o Start
                ELSE IF last THEN Start ELSE <<>>
  IN /\ At(t, "previous")
     /\ current' = IF prev # NoItem THEN prev
                   ELSE IF last THEN NumItems ELSE current
     /\ picked' = IF repeat = "current" THEN NoItem ELSE prev
     /\ Then(t, first \o second)
     /\ UNCHANGED <<pipeline, bus, messages, eos_semaphore, player_state,
                    repeat, play_times, flags, strayed>>

PreviousAgain(t) ==
  /\ At(t, "again")
  /\ current' = picked /\ picked' = NoItem
  /\ Then(t, <<>>)
  /\ UNCHANGED <<pipeline, bus, messages, eos_semaphore, player_state, repeat,
                 play_times, flags, strayed>>

\* The end of player_exit
SetExit(t) ==
  /\ At(t, "exit")
  /\ gbexit' = TRUE
  /\ Then(t, <<>>)
  /\ UNCHANGED <<pipeline, bus, messages, eos_semaphore, player_state, opt,
                 quit, handle_buffering, typed, sent, strayed>>

\* The head of the loop of main and of msg_thread_fun
Top(t) ==
  /\ At(t, "top")
  /\ Then(t, CASE t = "main" /\ gbexit ->
                    <<"join msg", "null", "join bus", "returned">>
               [] t = "main" /\ ~gbexit -> <<>>
               [] t = "msg" /\ gbexit -> <<"returned">>
               [] t = "msg" /\ ~gbexit -> <<"get">>)
  /\ UNCHANGED <<pipeline, bus, messages, eos_semaphore, player_state, opt,
                 flags, strayed>>

SetRepeat(t) ==
  /\ At(t, "repeat")
  /\ repeat' \in Modes
  /\ Then(t, <<>>)
  /\ UNCHANGED <<pipeline, bus, messages, eos_semaphore, player_state, current,
                 play_times, picked, flags, strayed>>

Steps(c) ==
  CASE c = "play" -> <<"set", "play">>
    [] c = "exit" -> <<"EXIT">> \o Exit
    [] OTHER -> <<c>>

\* A command is read, even one typed after gbexit_main was set.
Command ==
  /\ todo["main"] = <<>> /\ typed < MaxCommands
  /\ typed' = typed + 1
  /\ \E c \in Commands : todo' = [todo EXCEPT !["main"] = Steps(c) \o <<"top">>]
  /\ UNCHANGED <<pipeline, bus, messages, eos_semaphore, player_state, opt,
                 gbexit, quit, handle_buffering, sent, strayed>>

\* The alarm interrupts scanf.
Interrupted ==
  /\ todo["main"] = <<>> /\ gbexit
  /\ todo' = [todo EXCEPT !["main"] = <<"top">>]
  /\ UNCHANGED <<pipeline, bus, messages, eos_semaphore, player_state, opt,
                 flags, strayed>>

-------------------------------------------------------------------------------
\* playbin: it ends, fails or waits for data while it plays or starts to.
Emit ==
  /\ sent < MaxSent /\ sent' = sent + 1
  /\ \/ gst = "PLAYING" /\ ~ended /\ ended' = TRUE /\ bus' = Append(bus, "EOS")
     \/ /\ gst # "NULL" \/ \E t \in Threads : At(t, "play")
        /\ bus' = Append(bus, "ERROR") /\ UNCHANGED ended
     \/ /\ Opened(gst) /\ UNCHANGED ended
        /\ \E m \in Buffering : bus' = Append(bus, m)
  /\ UNCHANGED <<gst, uri, messages, eos_semaphore, player_state, opt, gbexit,
                 quit, handle_buffering, typed, todo, strayed>>

Core(t) == Put(t) \/ Flush(t) \/ SetMediaLocation(t) \/ Play(t) \/ Stop(t)

BusStep == Core("bus") \/ Replace("bus") \/ Wait \/ Dispatch \/ BusReturn
           \/ Buffer \/ Buffered

MsgStep == Core("msg") \/ Pause("msg") \/ Sleep \/ Get \/ Post("msg")
           \/ PlaylistNext("msg") \/ SetExit("msg") \/ Top("msg")

MainStep ==
  \/ Core("main") \/ Pause("main") \/ Seek("main") \/ Rate("main")
  \/ RateEvent("main") \/ PlaylistNext("main") \/ PlaylistPrevious("main")
  \/ PreviousAgain("main") \/ SetExit("main") \/ SetRepeat("main")
  \/ Top("main") \/ Interrupted \/ Null \/ Join("msg") \/ Join("bus")

Next == BusStep \/ MsgStep \/ MainStep \/ Command \/ Emit

Spec == Init /\ [][Next]_vars

\* The threads run; the user and the pipeline do what they like.
FairSpec == Spec /\ WF_vars(BusStep) /\ WF_vars(MsgStep) /\ WF_vars(MainStep)

-------------------------------------------------------------------------------
(* Properties *)

TypeOK ==
  /\ gst \in {"NULL", "READY", "PAUSED", "PLAYING"} /\ ended \in BOOLEAN
  /\ uri \in Items
  /\ bus \in Seq({"EOS", "ERROR"} \cup Buffering)
  /\ queue \in Seq(Messages) /\ asleep \in BOOLEAN
  /\ eos_semaphore \in Nat
  /\ player_state \in {"STOPPED", "PAUSED", "PLAYING", "TRICK"}
  /\ current \in Items /\ repeat \in Modes /\ play_times \in Int
  /\ picked \in Items \cup {NoItem} /\ typed \in 0 .. MaxCommands
  /\ sent \in 0 .. MaxSent
  /\ \A b \in {handle_buffering, gbexit, quit, strayed} : b \in BOOLEAN
  /\ DOMAIN todo = Threads

\* player_exit has dropped the messages of the queue, or is about to say so.
Leaving == gbexit \/ \E t \in Threads : "exit" \in ToSet(todo[t])

Waiting == At("bus", "wait")

\* The answers to EOS that are on their way.
Answers ==
  Cardinality({i \in DOMAIN queue : queue[i] = "EOS"})
  + (IF "post" \in ToSet(todo["msg"]) THEN 1 ELSE 0) + eos_semaphore

\* bus waits for one answer, and gets one: unless the player is leaving, the
\* EOS is in the queue, is being handled, or has been answered.
EosRendezvous ==
  /\ Answers <= 1
  /\ Answers = 1 => Waiting
  /\ Waiting => Answers = 1 \/ Leaving

\* A player that the user has paused or stopped does not play, whatever the
\* pipeline's buffers do, unless it got to PLAYING after the timeout.
PausedIsQuiet ==
  player_state \in {"PAUSED", "STOPPED"} /\ ~strayed => gst # "PLAYING"

\* The pipeline is given the current item, by whichever thread moved to it.
UriFollowsCurrent ==
  uri = current \/ \E t \in Threads : ToSet(todo[t]) \cap {"set", "again"} # {}

\* An EOS is dealt with while the player is not leaving.
EosHandled == Waiting ~> ~Waiting \/ gbexit

\* After an error of the pipeline the player leaves.
ErrorEnds == "INTERNAL_ERROR" \in ToSet(queue) ~> gbexit

\* A player that leaves ends.
ExitCompletes == gbexit ~> todo["main"] = <<"returned">>
===============================================================================
