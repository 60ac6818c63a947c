----------------------------- MODULE VideoSurface -----------------------------
(***************************************************************************)
(* libs/vss: the video surfaces that sinks of several processes put on one *)
(* display.  The table of surfaces and the device live in shared memory;   *)
(* the named semaphore vss_lock guards them, except that                   *)
(*   - render2VideoSurface writes paddr and rendmask before it takes it,   *)
(*   - a change of layer (an expose event) does not take it at all.        *)
(* A display has a few frame buffers.  A render pass draws into            *)
(* buffer renderidx each surface that is not up to date there, then shows  *)
(* that buffer and goes on to the next one.                                *)
(*                                                                         *)
(* One device of fixed size and format is modelled: devices share only the *)
(* lock and the table.  Rectangles are left out, but for a window's being  *)
(* off the screen: OVERLAPED_RECT holds of any two that are not empty.     *)
(* Subtitles, deinterlacing and alpha change how a surface is drawn, not   *)
(* when.  A client is one thread, and only it uses its surfaces.           *)
(***************************************************************************)
EXTENDS Naturals, FiniteSets, SequencesExt

CONSTANTS
  Clients,       \* sinks, each in a process of its own
  VS_MAX,        \* slots of the table
  VsMax,         \* vd->vsmax
  Frames,        \* physical addresses of decoded frames
  None,          \* NULL, no client, no surface
  Setups         \* in which the system may be, see setup

ASSUME VideoSurfaceAssumption ==
  /\ VS_MAX \in Nat \ {0} /\ VsMax \in Nat \ {0}
  /\ None \notin Clients /\ None \notin Frames /\ None \notin Nat
  /\ Setups \subseteq [buffers : Nat \ {0}, users : SUBSET Clients,
                         offscreen : BOOLEAN, layers : BOOLEAN]

Surfaces == 1 .. VS_MAX

VARIABLES
  setup,                             \* FB_NUM_BUFFERS; the clients that run;
                                     \* whether windows leave the screen;
                                     \* whether expose events raise them
  lock,                              \* who holds vss_lock
  list,                              \* the surfaces of the device, lowest first
  status, paddr, rendmask,           \* of each surface
  itask,                             \* whether its IPU task is set up
  cnt, init, rendering, renderidx, cleanmask,   \* of the device
  gvslocal,                          \* the surfaces of each process
  fb,                                \* what is painted in each buffer, in order
  shown,                             \* the buffer on display
  pc, job, vs,                       \* a client's place, operation and surface
  at, updated,                       \* its pass: the surface it is at
  came                               \* history: when a surface got its frame

surfaces == <<list, status, paddr, rendmask, itask, gvslocal>>
device == <<cnt, init, rendering, renderidx, cleanmask>>
display == <<fb, shown>>
control == <<pc, job, vs, at, updated>>
vars == <<setup, lock, surfaces, device, display, control, came>>

Buffers == 0 .. setup.buffers - 1
Placed == {"visible"} \cup IF setup.offscreen THEN {"invisible"} ELSE {}

\* Shared memory is zero when it is created.
Init ==
  /\ setup \in Setups
  /\ lock = None
  /\ list = <<>>
  /\ status = [s \in Surfaces |-> "idle"]
  /\ paddr = [s \in Surfaces |-> None]
  /\ rendmask = [s \in Surfaces |-> {}]
  /\ itask = [s \in Surfaces |-> FALSE]
  /\ cnt = 0 /\ init = FALSE /\ rendering = FALSE
  /\ renderidx = 0 /\ cleanmask = {}
  /\ gvslocal = [c \in Clients |-> {}]
  /\ fb = [b \in Buffers |-> <<>>]
  /\ shown = None
  /\ pc = [c \in Clients |-> "idle"]
  /\ job = [c \in Clients |-> None]
  /\ vs = [c \in Clients |-> None]
  /\ at = [c \in Clients |-> None]
  /\ updated = [c \in Clients |-> FALSE]
  /\ came = [s \in Surfaces |-> "never"]

\* DEVICE2HEADSURFACE, NEXTSURFACE
First(l) == IF l = <<>> THEN None ELSE l[1]

NextSurface(s) ==
  IF \E i \in 1 .. Len(list) - 1 : list[i] = s
  THEN list[(CHOOSE i \in 1 .. Len(list) - 1 : list[i] = s) + 1]
  ELSE None

\* l without what is at one of the places, or as it is when there is none
Without(l, places) ==
  IF places = {} THEN l ELSE RemoveAt(l, CHOOSE i \in places : TRUE)

\* _removeVideoSurfaceFromDevice
Unlink(l, s) == Without(l, {i \in DOMAIN l : l[i] = s})

Goto(c, place) == pc' = [pc EXCEPT ![c] = place]

\* The call goes on with a pass over the surfaces in l.
StartPass(c, j, s, l) ==
  /\ Goto(c, "draw")
  /\ job' = [job EXCEPT ![c] = j]
  /\ vs' = [vs EXCEPT ![c] = s]
  /\ at' = [at EXCEPT ![c] = First(l)]
  /\ updated' = [updated EXCEPT ![c] = FALSE]
  /\ came' = [t \in Surfaces |-> IF came[t] = "now" THEN "past" ELSE came[t]]

-------------------------------------------------------------------------------
(* createVideoSurface; it fails, without a trace, when vsmax or the table  *)
(* is reached or the device refuses its mode.                              *)

CreateInSlotAfterLast(c) ==
  /\ pc[c] = "idle" /\ lock = None
  /\ cnt < VsMax
  /\ LET s == cnt + 1
     IN /\ \E st \in Placed :
             /\ status' = [status EXCEPT ![s] = st]
             /\ itask' = [itask EXCEPT ![s] = st = "visible"]
        /\ came' = [came EXCEPT ![s] = "never"]
        /\ list' = Append(list, s)
        /\ gvslocal' = [gvslocal EXCEPT ![c] = @ \cup {s}]
  /\ cnt' = cnt + 1
  /\ init' = TRUE
  /\ UNCHANGED <<lock, paddr, rendmask, rendering, renderidx, cleanmask,
                 display, control>>

Create(c) ==
  /\ pc[c] = "idle" /\ lock = None
  /\ cnt < VsMax
  /\ \E s \in Surfaces :
       /\ status[s] = "idle"
       /\ \A t \in 1 .. s - 1 : status[t] # "idle"
       /\ \E st \in Placed :
            /\ status' = [status EXCEPT ![s] = st]
            /\ itask' = [itask EXCEPT ![s] = st = "visible"]
       /\ came' = [came EXCEPT ![s] = "never"]
       /\ list' = Append(list, s)
       /\ gvslocal' = [gvslocal EXCEPT ![c] = @ \cup {s}]
  /\ cnt' = cnt + 1
  /\ init' = TRUE
  /\ UNCHANGED <<lock, paddr, rendmask, rendering, renderidx, cleanmask,
                 display, control>>

-------------------------------------------------------------------------------
(* _destroyVideoSurface, also for each surface left when a process exits;  *)
(* the surface stays busy until the others are drawn again.                *)

DestroyWithoutRefresh(c, s) ==
  /\ pc[c] = "idle" /\ s \in gvslocal[c] /\ lock = None
  /\ gvslocal' = [gvslocal EXCEPT ![c] = @ \ {s}]
  /\ list' = Unlink(list, s)
  /\ cnt' = cnt - 1
  /\ init' = (list' # <<>>)
  /\ status' = [status EXCEPT ![s] = "idle"]
  /\ UNCHANGED <<lock, itask, paddr, rendmask, rendering, renderidx, cleanmask,
                 display, control, came>>

Destroy(c, s) ==
  /\ pc[c] = "idle" /\ s \in gvslocal[c] /\ lock = None
  /\ gvslocal' = [gvslocal EXCEPT ![c] = @ \ {s}]
  /\ list' = Unlink(list, s)
  /\ cnt' = cnt - 1
  /\ cleanmask' = Buffers
  /\ \/ /\ list' = <<>>
        /\ init' = FALSE
        /\ status' = [status EXCEPT ![s] = "idle"]
        /\ shown' = None
        /\ UNCHANGED <<lock, control, came>>
     \/ /\ list' # <<>>
        /\ lock' = c
        /\ StartPass(c, "destroy", s, list')
        /\ UNCHANGED <<init, status, shown>>
  /\ UNCHANGED <<itask, paddr, rendmask, rendering, renderidx, fb>>

-------------------------------------------------------------------------------
(* configVideoSurface *)

\* _configMasterVideoSurface: the window moves, and comes to the front.
Configure(c, s) ==
  /\ pc[c] = "idle" /\ s \in gvslocal[c] /\ lock = None
  /\ lock' = c
  /\ list' = Append(Unlink(list, s), s)
  /\ cleanmask' = Buffers
  /\ \E st \in Placed :
       /\ status' = [status EXCEPT ![s] = st]
       /\ itask' = [itask EXCEPT ![s] = @ \/ st = "visible"]
  /\ StartPass(c, "config", s, list')
  /\ UNCHANGED <<paddr, rendmask, gvslocal, cnt, init, rendering, renderidx,
                 display>>

\* _configMasterVideoLayer, without the lock.
Raise(c, s) ==
  /\ setup.layers /\ pc[c] = "idle" /\ s \in gvslocal[c] /\ NextSurface(s) # None
  /\ list' = Unlink(list, s)
  /\ Goto(c, "append")
  /\ vs' = [vs EXCEPT ![c] = s]
  /\ UNCHANGED <<lock, status, paddr, rendmask, itask, gvslocal, device,
                 display, job, at, updated, came>>

RaiseAppend(c) ==
  /\ pc[c] = "append"
  /\ list' = Append(list, vs[c])
  /\ StartPass(c, "layer", vs[c], list')
  /\ UNCHANGED <<lock, status, paddr, rendmask, itask, gvslocal, device,
                 display>>

-------------------------------------------------------------------------------
(* render2VideoSurface *)

\* A frame is noted before the lock is taken.
Submit(c, s, f) ==
  /\ pc[c] = "idle" /\ s \in gvslocal[c]
  /\ paddr' = [paddr EXCEPT ![s] = f]
  /\ rendmask' = [rendmask EXCEPT ![s] = {}]
  /\ came' = [came EXCEPT ![s] = IF lock = None THEN "clear" ELSE "now"]
  /\ Goto(c, IF status[s] = "invisible" THEN "idle" ELSE "enter")
  /\ vs' = [vs EXCEPT ![c] = s]
  /\ UNCHANGED <<lock, list, status, itask, gvslocal, device, display, job, at,
                 updated>>

\* VS_LOCK, or sem_trywait while another client is rendering.
Enter(c) ==
  /\ pc[c] = "enter" /\ lock = None
  /\ lock' = c
  /\ rendering' = TRUE
  /\ StartPass(c, "render", vs[c], list)
  /\ UNCHANGED <<surfaces, cnt, init, renderidx, cleanmask, display>>

\* VS_FLOW_PENDING: whoever draws next draws the frame.
Pending(c) ==
  /\ pc[c] = "enter" /\ rendering /\ lock # None
  /\ Goto(c, "idle")
  /\ UNCHANGED <<lock, surfaces, device, display, job, vs, at, updated, came>>

\* _needRender: a surface above one that was painted is painted again.
NeedRenderUnlessDrawn(c, s) ==
  paddr[s] # None /\ status[s] # "invisible" /\ renderidx \notin rendmask[s]

NeedRender(c, s) ==
  /\ paddr[s] # None
  /\ status[s] # "invisible"
  /\ renderidx \notin rendmask[s] \/ updated[c]

\* _refreshOnDevice paints every surface.
Paints(c, s) == job[c] # "render" \/ NeedRender(c, s)

Skip(c) ==
  /\ pc[c] = "draw" /\ at[c] # None /\ ~Paints(c, at[c])
  /\ at' = [at EXCEPT ![c] = NextSurface(at[c])]
  /\ UNCHANGED <<lock, surfaces, device, display, pc, job, vs, updated, came>>

PaintedOver(l, s) ==
  Append(Without(l, {i \in DOMAIN l : l[i].surface = s}),
         [surface |-> s, frame |-> paddr[s]])

\* _renderSuface up to the end of the IPU's task, which fails and paints
\* nothing for the address NULL or when it was never set up.
Paint(c) ==
  /\ pc[c] = "draw" /\ at[c] # None /\ Paints(c, at[c])
  /\ LET s == at[c]
         clean == IF renderidx \in cleanmask THEN <<>> ELSE fb[renderidx]
     IN /\ fb' = [fb EXCEPT ![renderidx] =
                    IF paddr[s] = None \/ ~itask[s] THEN clean
                    ELSE PaintedOver(clean, s)]
        /\ rendmask' = IF job[c] = "render" THEN rendmask
                       ELSE [rendmask EXCEPT ![s] = {}]
  /\ cleanmask' = cleanmask \ {renderidx}
  /\ updated' = [updated EXCEPT ![c] = TRUE]
  /\ Goto(c, "mark")
  /\ UNCHANGED <<lock, list, status, paddr, itask, gvslocal, cnt, init,
                 rendering, renderidx, shown, job, vs, at, came>>

\* surf->rendmask |= 1 << renderidx
Mark(c) ==
  /\ pc[c] = "mark"
  /\ rendmask' = [rendmask EXCEPT ![at[c]] = @ \cup {renderidx}]
  /\ at' = [at EXCEPT ![c] = NextSurface(at[c])]
  /\ Goto(c, "draw")
  /\ UNCHANGED <<lock, list, status, paddr, itask, gvslocal, device, display,
                 job, vs, updated, came>>

NextRenderIdPastLast(i) == (i + 1) % (setup.buffers + 1)

NextRenderIdSame(i) == i % setup.buffers

\* NEXT_RENDER_ID
NextRenderId(i) == (i + 1) % setup.buffers

FlipLeavingRendering(c) ==
  /\ pc[c] = "draw" /\ at[c] = None
  /\ shown' = renderidx
  /\ renderidx' = NextRenderId(renderidx)
  /\ lock' = IF job[c] = "layer" THEN lock ELSE None
  /\ status' = IF job[c] = "destroy" THEN [status EXCEPT ![vs[c]] = "idle"]
               ELSE status
  /\ Goto(c, "idle")
  /\ UNCHANGED <<list, paddr, rendmask, itask, gvslocal, cnt, init, rendering,
                 cleanmask, fb, job, vs, at, updated, came>>

\* _FlipOnDevice and the end of the call.
Flip(c) ==
  /\ pc[c] = "draw" /\ at[c] = None
  /\ shown' = renderidx
  /\ renderidx' = NextRenderId(renderidx)
  /\ rendering' = (rendering /\ job[c] # "render")
  /\ lock' = IF job[c] = "layer" THEN lock ELSE None
  /\ status' = IF job[c] = "destroy" THEN [status EXCEPT ![vs[c]] = "idle"]
               ELSE status
  /\ Goto(c, "idle")
  /\ UNCHANGED <<list, paddr, rendmask, itask, gvslocal, cnt, init, cleanmask,
                 fb, job, vs, at, updated, came>>

-------------------------------------------------------------------------------
Call(c) ==
  \/ Create(c)
  \/ \E s \in Surfaces : Destroy(c, s) \/ Configure(c, s) \/ Raise(c, s)
  \/ \E s \in Surfaces, f \in Frames : Submit(c, s, f)

Pass(c) == Skip(c) \/ Paint(c) \/ Mark(c) \/ Flip(c)

Next ==
  /\ \E c \in setup.users :
       Call(c) \/ RaiseAppend(c) \/ Enter(c) \/ Pending(c) \/ Pass(c)
  /\ UNCHANGED setup

Spec == Init /\ [][Next]_vars

-------------------------------------------------------------------------------
(* Properties *)

TypeOK ==
  /\ lock \in Clients \cup {None}
  /\ list \in Seq(Surfaces)
  /\ status \in [Surfaces -> {"idle", "visible", "invisible"}]
  /\ paddr \in [Surfaces -> Frames \cup {None}]
  /\ rendmask \in [Surfaces -> SUBSET Buffers]
  /\ itask \in [Surfaces -> BOOLEAN]
  /\ cnt \in Nat /\ init \in BOOLEAN /\ rendering \in BOOLEAN
  /\ renderidx \in Buffers /\ cleanmask \in SUBSET Buffers
  /\ gvslocal \in [Clients -> SUBSET Surfaces]
  /\ fb \in [Buffers -> Seq([surface : Surfaces, frame : Frames])]
  /\ shown \in Buffers \cup {None}
  /\ pc \in [Clients -> {"idle", "enter", "append", "draw", "mark"}]
  /\ job \in [Clients -> {None, "render", "config", "destroy", "layer"}]
  /\ vs \in [Clients -> Surfaces \cup {None}]
  /\ at \in [Clients -> Surfaces \cup {None}]
  /\ updated \in [Clients -> BOOLEAN]
  /\ came \in [Surfaces -> {"never", "clear", "now", "past"}]

\* What is on the list, what the processes hold and what the table says is
\* busy agree, but for the surface being raised or destroyed; the device
\* counts its surfaces, never more than its limit, and is set up while it
\* has one.
Moving == {vs[c] : c \in {d \in Clients : pc[d] = "append"}}

InPass(c) == pc[c] \in {"draw", "mark"}

Dying == {vs[c] : c \in {d \in Clients : InPass(d) /\ job[d] = "destroy"}}

Registry ==
  /\ \A i, j \in 1 .. Len(list) : i # j => list[i] # list[j]
  /\ ToSet(list) \cup Moving = UNION {gvslocal[c] : c \in Clients}
  /\ {s \in Surfaces : status[s] # "idle"} = ToSet(list) \cup Moving \cup Dying
  /\ \A c, d \in Clients : c # d => gvslocal[c] \cap gvslocal[d] = {}
  /\ cnt = Len(list) + Cardinality(Moving) /\ cnt <= VsMax
  /\ init <=> cnt > 0

\* No client paints the buffer on display.
NoTearing == \A c \in Clients : InPass(c) => shown # renderidx

\* One client is inside a pass, and it holds the lock (a change of layer does
\* without); rendering, which makes others give up instead of waiting, is not
\* left set behind.
OnePass ==
  /\ \A c \in Clients :
       InPass(c) => lock = IF job[c] = "layer" THEN None ELSE c
  /\ rendering => \E c \in Clients : InPass(c) /\ job[c] = "render"

Behind(s, t) ==
  \E i, j \in 1 .. Len(list) : i < j /\ list[i] = s /\ list[j] = t

\* The visible surfaces of the device whose latest frame came at one of the
\* moments w.
Ready(w) == {s \in ToSet(list) : status[s] = "visible" /\ came[s] \in w}

\* A buffer owes the screen the surfaces in S: it shows each with its latest
\* frame and in front of those behind it; it shows nothing of a surface that
\* is gone, and no surface twice.
Shows(b, S) ==
  /\ \A s \in S :
       \E i \in DOMAIN fb[b] : fb[b][i] = [surface |-> s, frame |-> paddr[s]]
  /\ \A i \in DOMAIN fb[b] : fb[b][i].surface \in ToSet(list)
  /\ \A i, j \in DOMAIN fb[b] : fb[b][i].surface = fb[b][j].surface => i = j
  /\ \A i, j \in DOMAIN fb[b] :
       /\ {fb[b][i].surface, fb[b][j].surface} \subseteq S
       /\ Behind(fb[b][i].surface, fb[b][j].surface)
       => i < j

\* A pass shows every surface with its latest frame, whoever draws, and
\* nothing of a surface that is gone.  Left aside is a surface whose frame
\* came while a client was drawing: it may have to wait.
RefreshesAll ==
  [][shown' # shown /\ shown' # None => Shows(shown', Ready({"clear"}))]_vars

\* A frame that came while a client was drawing is shown by the passes that
\* begin after that.
LaterPassesRefresh ==
  [][shown' # shown /\ shown' # None
       => Shows(shown', Ready({"clear", "past"}))]_vars
===============================================================================
