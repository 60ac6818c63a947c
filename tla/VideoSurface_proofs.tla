-------------------------- MODULE VideoSurface_proofs --------------------------
(***************************************************************************)
(* Theorems about VideoSurface, for any clients, surfaces and buffers.     *)
(***************************************************************************)
EXTENDS VideoSurface, FiniteSetTheorems, SequenceTheorems, TLAPS

-------------------------------------------------------------------------------
(* What the proofs need of the types: nothing of the list, nor of what is  *)
(* painted.                                                                *)

Places == {"idle", "enter", "append", "draw", "mark"}
Jobs == {None, "render", "config", "destroy", "layer"}

Control ==
  /\ setup \in Setups
  /\ lock \in Clients \cup {None}
  /\ pc \in [Clients -> Places]
  /\ job \in [Clients -> Jobs]
  /\ rendering \in BOOLEAN

\* Without expose events who is in a pass has the lock, and rendering is set
\* only while a client that renders is in one.
LockHeld ==
  ~setup.layers =>
    /\ \A c \in Clients : InPass(c) => job[c] # "layer" /\ lock = c
    /\ \A c \in Clients : pc[c] # "append"
    /\ rendering => \E c \in Clients : InPass(c) /\ job[c] = "render"

\* The buffer that is drawn next is a buffer, and not the one on display.
BuffersApart ==
  /\ renderidx \in Buffers
  /\ setup.buffers > 1 => shown # renderidx

IInv == Control /\ LockHeld /\ BuffersApart

LEMMA SetupTypes ==
  ASSUME setup \in Setups
  PROVE  /\ setup.buffers \in Nat \ {0} /\ setup.users \subseteq Clients
         /\ setup.layers \in BOOLEAN
BY VideoSurfaceAssumption

LEMMA InitIInv == Init => IInv
<1> SUFFICES ASSUME Init PROVE IInv
  OBVIOUS
<1>1. Control
  BY DEF Init, Control, Places, Jobs
<1>2. LockHeld
  BY DEF Init, LockHeld, InPass
<1>3. setup.buffers \in Nat \ {0} /\ renderidx = 0 /\ shown = None /\ None # 0
  BY SetupTypes, VideoSurfaceAssumption DEF Init
<1>4. renderidx \in Buffers
  BY <1>3 DEF Buffers
<1> QED
  BY <1>1, <1>2, <1>3, <1>4 DEF IInv, BuffersApart

-------------------------------------------------------------------------------
(* The buffers.  Only Flip moves renderidx and shows a buffer, and only     *)
(* Destroy takes the picture away.                                          *)

LEMMA NextBufferApart ==
  ASSUME setup \in Setups, renderidx \in Buffers
  PROVE  /\ NextRenderId(renderidx) \in Buffers
         /\ setup.buffers > 1 => NextRenderId(renderidx) # renderidx
<1> DEFINE n == setup.buffers
           i == renderidx
<1>1. n \in Nat \ {0} /\ i \in 0 .. n - 1
  BY SetupTypes DEF Buffers
<1>2. CASE i + 1 < n
  <2>1. (i + 1) % n = i + 1
    BY <1>1, <1>2, Z3
  <2> QED
    BY <1>1, <1>2, <2>1 DEF NextRenderId, Buffers
<1>3. CASE i + 1 = n
  <2>1. (i + 1) % n = 0
    BY <1>1, <1>3, Z3
  <2> QED
    BY <1>1, <1>3, <2>1 DEF NextRenderId, Buffers
<1> QED
  BY <1>1, <1>2, <1>3

\* A step that leaves the buffer to draw, and shows at most nothing instead.
LEMMA BuffersKept ==
  ASSUME BuffersApart, setup \in Setups, UNCHANGED <<setup, renderidx>>,
         shown' = shown \/ shown' = None
  PROVE  BuffersApart'
<1>1. renderidx # None
  <2>1. setup.buffers \in Nat
    BY SetupTypes
  <2> QED
    BY <2>1, VideoSurfaceAssumption DEF BuffersApart, Buffers
<1> QED
  BY <1>1 DEF BuffersApart, Buffers

LEMMA BuffersStep ==
  ASSUME IInv, [Next]_vars
  PROVE  BuffersApart'
<1>1. BuffersApart /\ setup \in Setups
  BY DEF IInv, Control
<1>2. CASE UNCHANGED vars
  <2>1. UNCHANGED <<setup, renderidx, shown>>
    BY <1>2, Zenon DEF vars, device, display
  <2> QED
    BY <1>1, <2>1, BuffersKept
<1>3. ASSUME NEW c \in Clients, UNCHANGED setup, NEW s \in Surfaces, Destroy(c, s)
      PROVE  BuffersApart'
  <2>1. UNCHANGED renderidx /\ (shown' = shown \/ shown' = None)
    BY <1>3, Zenon DEF Destroy
  <2> QED
    BY <1>1, <1>3, <2>1, BuffersKept
<1>4. ASSUME NEW c \in Clients, UNCHANGED setup, Flip(c)
      PROVE  BuffersApart'
  <2>1. shown' = renderidx /\ renderidx' = NextRenderId(renderidx)
    BY <1>4, Zenon DEF Flip
  <2> QED
    BY <1>1, <1>4, <2>1, NextBufferApart DEF BuffersApart, Buffers
<1>5. ASSUME NEW c \in Clients, UNCHANGED setup,
             \/ Create(c)
             \/ \E s \in Surfaces : Configure(c, s) \/ Raise(c, s)
             \/ \E s \in Surfaces, f \in Frames : Submit(c, s, f)
             \/ RaiseAppend(c) \/ Enter(c) \/ Pending(c)
             \/ Skip(c) \/ Paint(c) \/ Mark(c)
      PROVE  BuffersApart'
  <2>1. UNCHANGED <<renderidx, shown>>
    BY <1>5, Zenon DEF Create, Configure, Raise, Submit, RaiseAppend, Enter,
                       Pending, Skip, Paint, Mark, device, display
  <2> QED
    BY <1>1, <1>5, <2>1, BuffersKept
<1>6. CASE Next
  <2>1. PICK c \in setup.users :
          Call(c) \/ RaiseAppend(c) \/ Enter(c) \/ Pending(c) \/ Pass(c)
    BY <1>6 DEF Next
  <2>2. c \in Clients /\ UNCHANGED setup
    BY <1>1, <1>6, SetupTypes DEF Next
  <2> QED
    BY <1>3, <1>4, <1>5, <2>1, <2>2, Zenon DEF Call, Pass
<1> QED
  BY <1>2, <1>6

-------------------------------------------------------------------------------
(* The lock, by what a step does to a client's place.                      *)

\* The client that steps is in no pass before, nor after.
LEMMA OutsidePass ==
  ASSUME Control, LockHeld, NEW c \in Clients, NEW p \in {"idle", "enter"},
         ~InPass(c), pc' = [pc EXCEPT ![c] = p],
         UNCHANGED <<setup, lock, job, rendering>>
  PROVE  Control' /\ LockHeld'
<1>1. Control'
  BY Zenon DEF Control, Places
<1>2. \A d \in Clients : pc'[d] = IF d = c THEN p ELSE pc[d]
  BY DEF Control
<1>3. \A d \in Clients : InPass(d)' <=> InPass(d)
  BY <1>2 DEF InPass
<1>4. ASSUME ~setup.layers
      PROVE  \A d \in Clients : pc'[d] # "append"
  BY <1>2, <1>4 DEF LockHeld
<1> QED
  BY <1>1, <1>3, <1>4 DEF LockHeld

\* The client stays in its pass.
LEMMA InsidePass ==
  ASSUME Control, LockHeld, NEW c \in Clients, NEW p \in {"draw", "mark"},
         InPass(c), pc' = [pc EXCEPT ![c] = p],
         UNCHANGED <<setup, lock, job, rendering>>
  PROVE  Control' /\ LockHeld'
<1>1. Control'
  BY Zenon DEF Control, Places
<1>2. \A d \in Clients : pc'[d] = IF d = c THEN p ELSE pc[d]
  BY DEF Control
<1>3. \A d \in Clients : InPass(d)' <=> InPass(d)
  BY <1>2 DEF InPass
<1>4. ASSUME ~setup.layers
      PROVE  \A d \in Clients : pc'[d] # "append"
  BY <1>2, <1>4 DEF LockHeld
<1> QED
  BY <1>1, <1>3, <1>4 DEF LockHeld

\* A client takes the free lock and begins a pass.
LEMMA BeginPass ==
  ASSUME Control, LockHeld, NEW c \in Clients, NEW j \in {"render", "config", "destroy"},
         lock = None, lock' = c, UNCHANGED setup,
         pc' = [pc EXCEPT ![c] = "draw"], job' = [job EXCEPT ![c] = j],
         rendering' = (rendering \/ j = "render")
  PROVE  Control' /\ LockHeld'
<1>1. Control'
  <2>1. pc' \in [Clients -> Places] /\ job' \in [Clients -> Jobs]
    BY Zenon DEF Control, Places, Jobs
  <2>2. rendering' \in BOOLEAN /\ lock' \in Clients \cup {None}
    BY Zenon DEF Control
  <2> QED
    BY <2>1, <2>2, Zenon DEF Control
<1>2. /\ pc'[c] = "draw" /\ job'[c] = j
      /\ \A d \in Clients : d # c => pc'[d] = pc[d] /\ job'[d] = job[d]
  BY DEF Control
<1>3. ASSUME ~setup.layers
      PROVE  /\ \A d \in Clients : ~InPass(d)
             /\ ~rendering
    BY <1>3, VideoSurfaceAssumption DEF LockHeld
<1>4. ASSUME ~setup.layers
      PROVE  \A d \in Clients : InPass(d)' <=> d = c
  BY <1>2, <1>3, <1>4 DEF InPass
<1>5. ASSUME ~setup.layers
      PROVE  \A d \in Clients : pc'[d] # "append"
  BY <1>2, <1>5 DEF LockHeld
<1>6. ASSUME ~setup.layers, rendering'
      PROVE  InPass(c)' /\ job'[c] = "render"
  BY <1>2, <1>3, <1>4, <1>6
<1>7. j # "layer"
  OBVIOUS
<1> QED
  BY <1>1, <1>2, <1>4, <1>5, <1>6, <1>7, Zenon DEF LockHeld

\* A client ends its pass.
LEMMA EndPass ==
  ASSUME Control, LockHeld, NEW c \in Clients, InPass(c), UNCHANGED <<setup, job>>,
         lock' = IF job[c] = "layer" THEN lock ELSE None,
         pc' = [pc EXCEPT ![c] = "idle"],
         rendering' = (rendering /\ job[c] # "render")
  PROVE  Control' /\ LockHeld'
<1>1. Control'
  <2>1. pc' \in [Clients -> Places]
    BY Zenon DEF Control, Places
  <2>2. rendering' \in BOOLEAN /\ lock' \in Clients \cup {None}
    BY Zenon DEF Control
  <2> QED
    BY <2>1, <2>2, Zenon DEF Control
<1>2. pc'[c] = "idle" /\ \A d \in Clients : d # c => pc'[d] = pc[d]
  BY DEF Control
<1>3. ASSUME ~setup.layers
      PROVE  \A d \in Clients : InPass(d) => d = c
  BY <1>3 DEF LockHeld
<1>4. ASSUME ~setup.layers
      PROVE  \A d \in Clients : ~InPass(d)'
  BY <1>2, <1>3, <1>4 DEF InPass
<1>5. ASSUME ~setup.layers
      PROVE  \A d \in Clients : pc'[d] # "append"
  BY <1>2, <1>5 DEF LockHeld
<1>6. ASSUME ~setup.layers
      PROVE  ~rendering'
  BY <1>3, <1>6 DEF LockHeld
<1> QED
  BY <1>1, <1>4, <1>5, <1>6, Zenon DEF LockHeld

\* Nothing that matters changes.
LEMMA PassesKept ==
  ASSUME Control, LockHeld, UNCHANGED <<setup, lock, pc, job, rendering>>
  PROVE  Control' /\ LockHeld'
<1>1. \A d \in Clients : InPass(d)' <=> InPass(d)
  BY DEF InPass
<1> QED
  BY <1>1 DEF Control, LockHeld

LEMMA LockStep ==
  ASSUME IInv, [Next]_vars
  PROVE  Control' /\ LockHeld'
<1>1. Control /\ LockHeld
  BY DEF IInv
<1>2. CASE UNCHANGED vars
  <2>1. UNCHANGED <<setup, lock, pc, job, rendering>>
    BY <1>2, Zenon DEF vars, device, control
  <2> QED
    BY <1>1, <2>1, PassesKept
<1> SUFFICES ASSUME Next PROVE Control' /\ LockHeld'
  BY <1>2
<1>3. PICK c \in setup.users :
        Call(c) \/ RaiseAppend(c) \/ Enter(c) \/ Pending(c) \/ Pass(c)
  BY DEF Next
<1>4. c \in Clients /\ UNCHANGED setup
  BY <1>1, <1>3, SetupTypes DEF Next, Control
<1>5. CASE Create(c) \/ Skip(c)
  <2>1. UNCHANGED <<lock, pc, job, rendering>>
    BY <1>5, Zenon DEF Create, Skip, control, device
  <2> QED
    BY <1>1, <1>4, <2>1, PassesKept
<1>6. ASSUME NEW s \in Surfaces, Destroy(c, s)
      PROVE  Control' /\ LockHeld'
  <2>1. CASE UNCHANGED <<lock, control>>
    <3>1. UNCHANGED <<lock, pc, job, rendering>>
      BY <1>6, <2>1, Zenon DEF Destroy, control
    <3> QED
      BY <1>1, <1>4, <3>1, PassesKept
  <2>2. CASE lock' = c /\ StartPass(c, "destroy", s, list')
    <3>1. /\ lock = None /\ UNCHANGED rendering
          /\ pc' = [pc EXCEPT ![c] = "draw"] /\ job' = [job EXCEPT ![c] = "destroy"]
      BY <1>6, <2>2, Zenon DEF Destroy, StartPass, Goto
    <3>2. rendering' = (rendering \/ "destroy" = "render")
      BY <1>1, <3>1 DEF Control
    <3> QED
      BY <1>1, <1>4, <2>2, <3>1, <3>2, BeginPass
  <2> QED
    BY <1>6, <2>1, <2>2, Zenon DEF Destroy
<1>7. ASSUME NEW s \in Surfaces, Configure(c, s)
      PROVE  Control' /\ LockHeld'
  <2>1. /\ lock = None /\ lock' = c /\ UNCHANGED rendering
        /\ pc' = [pc EXCEPT ![c] = "draw"] /\ job' = [job EXCEPT ![c] = "config"]
    BY <1>7, Zenon DEF Configure, StartPass, Goto
  <2>2. rendering' = (rendering \/ "config" = "render")
    BY <1>1, <2>1 DEF Control
  <2> QED
    BY <1>1, <1>4, <2>1, <2>2, BeginPass
<1>8. CASE Enter(c)
  <2>1. /\ lock = None /\ lock' = c /\ rendering' = TRUE
        /\ pc' = [pc EXCEPT ![c] = "draw"] /\ job' = [job EXCEPT ![c] = "render"]
    BY <1>8, Zenon DEF Enter, StartPass, Goto
  <2>2. rendering' = (rendering \/ "render" = "render")
    BY <2>1
  <2> QED
    BY <1>1, <1>4, <2>1, <2>2, BeginPass
<1>9. ASSUME NEW s \in Surfaces, Raise(c, s)
      PROVE  Control' /\ LockHeld'
  <2>1. /\ setup.layers /\ pc' = [pc EXCEPT ![c] = "append"]
        /\ UNCHANGED <<lock, job, rendering>>
    BY <1>9, Zenon DEF Raise, Goto, device
  <2>2. Control'
    BY <1>1, <1>4, <2>1, Zenon DEF Control, Places
  <2> QED
    BY <1>4, <2>1, <2>2 DEF LockHeld
<1>10. CASE RaiseAppend(c)
  <2>1. /\ pc[c] = "append" /\ UNCHANGED <<lock, rendering>>
        /\ pc' = [pc EXCEPT ![c] = "draw"] /\ job' = [job EXCEPT ![c] = "layer"]
    BY <1>10, Zenon DEF RaiseAppend, StartPass, Goto, device
  <2>2. Control'
    BY <1>1, <1>4, <2>1, Zenon DEF Control, Places, Jobs
  <2>3. setup.layers
    BY <1>1, <1>4, <2>1 DEF LockHeld
  <2> QED
    BY <1>4, <2>2, <2>3 DEF LockHeld
<1>11. ASSUME NEW s \in Surfaces, NEW f \in Frames, Submit(c, s, f)
       PROVE  Control' /\ LockHeld'
  <2>1. /\ pc[c] = "idle" /\ UNCHANGED <<lock, job, rendering>>
        /\ pc' = [pc EXCEPT ![c] = IF status[s] = "invisible" THEN "idle"
                                   ELSE "enter"]
    BY <1>11, Zenon DEF Submit, Goto, device
  <2>2. ~InPass(c)
    BY <2>1 DEF InPass
  <2> QED
    BY <1>1, <1>4, <2>1, <2>2, OutsidePass
<1>12. CASE Pending(c)
  <2>1. /\ pc[c] = "enter" /\ UNCHANGED <<lock, job, rendering>>
        /\ pc' = [pc EXCEPT ![c] = "idle"]
    BY <1>12, Zenon DEF Pending, Goto, device
  <2>2. ~InPass(c)
    BY <2>1 DEF InPass
  <2> QED
    BY <1>1, <1>4, <2>1, <2>2, OutsidePass
<1>13. CASE Paint(c)
  <2>1. /\ pc[c] = "draw" /\ UNCHANGED <<lock, job, rendering>>
        /\ pc' = [pc EXCEPT ![c] = "mark"]
    BY <1>13, Zenon DEF Paint, Goto
  <2>2. InPass(c)
    BY <2>1 DEF InPass
  <2> QED
    BY <1>1, <1>4, <2>1, <2>2, InsidePass
<1>14. CASE Mark(c)
  <2>1. /\ pc[c] = "mark" /\ UNCHANGED <<lock, job, rendering>>
        /\ pc' = [pc EXCEPT ![c] = "draw"]
    BY <1>14, Zenon DEF Mark, Goto, device
  <2>2. InPass(c)
    BY <2>1 DEF InPass
  <2> QED
    BY <1>1, <1>4, <2>1, <2>2, InsidePass
<1>15. CASE Flip(c)
  <2>1. /\ pc[c] = "draw" /\ UNCHANGED job
        /\ lock' = IF job[c] = "layer" THEN lock ELSE None
        /\ pc' = [pc EXCEPT ![c] = "idle"]
        /\ rendering' = (rendering /\ job[c] # "render")
    BY <1>15, Zenon DEF Flip, Goto
  <2>2. InPass(c)
    BY <2>1 DEF InPass
  <2> QED
    BY <1>1, <1>4, <2>1, <2>2, EndPass
<1> QED
  BY <1>3, <1>5, <1>6, <1>7, <1>8, <1>9, <1>10, <1>11, <1>12, <1>13, <1>14,
     <1>15, Zenon DEF Call, Pass

LEMMA IInvHolds == Spec => []IInv
<1>1. IInv /\ [Next]_vars => IInv'
  BY BuffersStep, LockStep DEF IInv
<1> QED
  BY <1>1, InitIInv, PTL DEF Spec

-------------------------------------------------------------------------------
(* The list of surfaces *)

Elements(l) == {l[i] : i \in 1 .. Len(l)}

Distinct(l) == \A i, j \in 1 .. Len(l) : i # j => l[i] # l[j]

LEMMA ElementsAre ==
  ASSUME NEW S, NEW l \in Seq(S)
  PROVE  Elements(l) = ToSet(l) /\ Elements(l) \subseteq S /\ Len(l) \in Nat
<1>1. DOMAIN l = 1 .. Len(l)
  OBVIOUS
<1>2. \A i \in 1 .. Len(l) : l[i] \in S
  OBVIOUS
<1> QED
  BY <1>1, <1>2 DEF Elements, ToSet

LEMMA RemovedAt ==
  ASSUME NEW S, NEW l \in Seq(S), NEW i \in 1 .. Len(l)
  PROVE  LET k == RemoveAt(l, i)
         IN /\ k \in Seq(S) /\ Len(k) = Len(l) - 1
            /\ \A j \in 1 .. Len(k) : k[j] = IF j < i THEN l[j] ELSE l[j + 1]
<1> DEFINE a == SubSeq(l, 1, i - 1)
           b == SubSeq(l, i + 1, Len(l))
<1>1. Len(l) \in Nat /\ i \in Int /\ Len(l) \in Int /\ \A j \in 1 .. Len(l) : l[j] \in S
  OBVIOUS
<1>2. /\ a \in Seq(S) /\ Len(a) = i - 1 /\ \A j \in 1 .. i - 1 : a[j] = l[j]
  BY <1>1, SubSeqProperties
<1>3. /\ b \in Seq(S) /\ Len(b) = Len(l) - i
      /\ \A j \in 1 .. Len(l) - i : b[j] = l[i + j]
  BY <1>1, SubSeqProperties
<1> HIDE DEF a, b
<1> DEFINE k == a \o b
<1>4. /\ k \in Seq(S) /\ Len(k) = Len(a) + Len(b)
      /\ \A j \in 1 .. Len(a) + Len(b) :
           k[j] = IF j <= Len(a) THEN a[j] ELSE b[j - Len(a)]
  BY <1>2, <1>3, ConcatProperties
<1> HIDE DEF k
<1>5. Len(k) = Len(l) - 1
  BY <1>1, <1>2, <1>3, <1>4
<1>6. ASSUME NEW j \in 1 .. Len(k)
      PROVE  k[j] = IF j < i THEN l[j] ELSE l[j + 1]
  <2>1. CASE j < i
    BY <1>1, <1>2, <1>3, <1>4, <2>1
  <2>2. CASE ~(j < i)
    <3>1. k[j] = b[j - (i - 1)] /\ j - (i - 1) \in 1 .. Len(l) - i
      BY <1>1, <1>2, <1>3, <1>4, <2>2
    <3>2. i + (j - (i - 1)) = j + 1
      BY <2>2
    <3> QED
      BY <1>3, <2>2, <3>1, <3>2
  <2> QED
    BY <2>1, <2>2
<1> QED
  BY <1>4, <1>5, <1>6 DEF a, b, k, RemoveAt

\* What is left without one place is of the same type.
LEMMA WithoutType ==
  ASSUME NEW S, NEW l \in Seq(S), NEW P \in SUBSET (DOMAIN l)
  PROVE  Without(l, P) \in Seq(S)
<1>1. CASE P = {}
  BY <1>1 DEF Without
<1>2. CASE P # {}
  <2>1. PICK i \in 1 .. Len(l) : i = CHOOSE j \in P : TRUE
    BY <1>2
  <2> QED
    BY <1>2, <2>1, RemovedAt, Zenon DEF Without
<1> QED
  BY <1>1, <1>2

LEMMA Unlinked ==
  ASSUME NEW S, NEW l \in Seq(S), Distinct(l), NEW s \in Elements(l),
         NEW k, k = Unlink(l, s)
  PROVE  /\ k \in Seq(S) /\ Distinct(k) /\ Len(k) = Len(l) - 1
         /\ Elements(k) = Elements(l) \ {s}
<1>1. DOMAIN l = 1 .. Len(l) /\ Len(l) \in Nat
  OBVIOUS
<1>2. PICK i \in 1 .. Len(l) : l[i] = s
  BY DEF Elements
<1>3. {j \in DOMAIN l : l[j] = s} = {i}
  BY <1>1, <1>2 DEF Distinct
<1>4. (CHOOSE j \in {i} : TRUE) = i
  OBVIOUS
<1>5. k = RemoveAt(l, i)
  BY <1>3, <1>4, Zenon DEF Unlink, Without
<1>6. /\ k \in Seq(S) /\ Len(k) = Len(l) - 1
      /\ \A j \in 1 .. Len(k) : k[j] = IF j < i THEN l[j] ELSE l[j + 1]
  BY <1>5, RemovedAt, Zenon
<1>7. Distinct(k)
  <2> SUFFICES ASSUME NEW j \in 1 .. Len(k), NEW m \in 1 .. Len(k), j # m
               PROVE  k[j] # k[m]
    BY DEF Distinct
  <2> QED
    BY <1>1, <1>6 DEF Distinct
<1>8. Elements(k) \subseteq Elements(l) \ {s}
  BY <1>1, <1>2, <1>6 DEF Elements, Distinct
<1>9. ASSUME NEW x \in Elements(l), x # s
      PROVE  x \in Elements(k)
  <2>1. PICK j \in 1 .. Len(l) : l[j] = x
    BY DEF Elements
  <2>2. CASE j < i
    <3>1. j \in 1 .. Len(k) /\ k[j] = x
      BY <1>1, <1>6, <2>1, <2>2
    <3> QED
      BY <3>1 DEF Elements
  <2>3. CASE j > i
    <3>1. j - 1 \in 1 .. Len(k) /\ k[j - 1] = x
      BY <1>1, <1>6, <2>1, <2>3
    <3> QED
      BY <3>1 DEF Elements
  <2> QED
    BY <1>2, <1>9, <2>1, <2>2, <2>3
<1> QED
  BY <1>6, <1>7, <1>8, <1>9

\* k is l with s at its end, where s was not on l.
Extends(k, l, s) == k = Append(l, s) /\ s \notin Elements(l)

\* k has one more place than l, and there s.
Longer(k, l, s) ==
  Distinct(k) /\ Len(k) = Len(l) + 1 /\ Elements(k) = Elements(l) \cup {s}

LEMMA Appended ==
  ASSUME NEW S, NEW l \in Seq(S), Distinct(l), NEW s \in S, NEW k,
         Extends(k, l, s)
  PROVE  Longer(k, l, s)
<1>1. /\ k \in Seq(S) /\ Len(k) = Len(l) + 1 /\ Len(l) \in Nat
      /\ k[Len(l) + 1] = s /\ \A i \in 1 .. Len(l) : k[i] = l[i]
      /\ s \notin Elements(l)
  BY DEF Extends
<1>2. Distinct(k)
  <2> SUFFICES ASSUME NEW j \in 1 .. Len(k), NEW m \in 1 .. Len(k), j # m
               PROVE  k[j] # k[m]
    BY DEF Distinct
  <2> QED
    BY <1>1 DEF Distinct, Elements
<1>3. Elements(k) \subseteq Elements(l) \cup {s}
  BY <1>1 DEF Elements
<1>4. Elements(l) \cup {s} \subseteq Elements(k)
  <2>1. Len(l) + 1 \in 1 .. Len(k) /\ \A i \in 1 .. Len(l) : i \in 1 .. Len(k)
    BY <1>1
  <2> QED
    BY <1>1, <2>1, Zenon DEF Elements
<1> QED
  BY <1>1, <1>2, <1>3, <1>4 DEF Longer

-------------------------------------------------------------------------------
(* The types of the rest *)

Tables ==
  /\ list \in Seq(Surfaces)
  /\ status \in [Surfaces -> {"idle", "visible", "invisible"}]
  /\ paddr \in [Surfaces -> Frames \cup {None}]
  /\ itask \in [Surfaces -> BOOLEAN]
  /\ gvslocal \in [Clients -> SUBSET Surfaces]
  /\ came \in [Surfaces -> {"never", "clear", "now", "past"}]

Painting == Seq([surface : Surfaces, frame : Frames])

Pictures ==
  /\ rendmask \in [Surfaces -> SUBSET Buffers]
  /\ cleanmask \in SUBSET Buffers
  /\ fb \in [Buffers -> Painting]
  /\ shown \in Buffers \cup {None}

Courses ==
  /\ vs \in [Clients -> Surfaces \cup {None}]
  /\ at \in [Clients -> Surfaces \cup {None}]
  /\ updated \in [Clients -> BOOLEAN]
  /\ init \in BOOLEAN

\* Who raises a window, or waits to render, has noted which.
Aimed == \A c \in Clients : pc[c] \in {"append", "enter"} => vs[c] \in Surfaces

Types == Tables /\ Pictures /\ Courses

LEMMA NextTyped ==
  /\ list \in Seq(Surfaces) => \A s : NextSurface(s) \in Surfaces \cup {None}
  /\ \A l \in Seq(Surfaces) : First(l) \in Surfaces \cup {None}
<1>1. ASSUME list \in Seq(Surfaces), NEW s
      PROVE  NextSurface(s) \in Surfaces \cup {None}
  <2>1. CASE \E i \in 1 .. Len(list) - 1 : list[i] = s
    <3>1. PICK i \in 1 .. Len(list) - 1 :
            i = CHOOSE j \in 1 .. Len(list) - 1 : list[j] = s
      BY <2>1
    <3>2. Len(list) \in Nat /\ \A j \in 1 .. Len(list) : list[j] \in Surfaces
      BY <1>1
    <3>3. list[i + 1] \in Surfaces
      BY <3>2
    <3> QED
      BY <2>1, <3>1, <3>3, Zenon DEF NextSurface
  <2> QED
    BY <2>1 DEF NextSurface
<1>2. ASSUME NEW l \in Seq(Surfaces)
      PROVE  First(l) \in Surfaces \cup {None}
  BY DEF First
<1> QED
  BY <1>1, <1>2

LEMMA PassTyped ==
  ASSUME Tables, Courses, NEW c \in Clients, NEW s \in Surfaces, NEW j,
         NEW l \in Seq(Surfaces), UNCHANGED init, StartPass(c, j, s, l)
  PROVE  Courses' /\ came' \in [Surfaces -> {"never", "clear", "now", "past"}]
<1>1. First(l) \in Surfaces \cup {None}
  BY NextTyped
<1>2. /\ vs' = [vs EXCEPT ![c] = s] /\ at' = [at EXCEPT ![c] = First(l)]
      /\ updated' = [updated EXCEPT ![c] = FALSE]
      /\ came' = [t \in Surfaces |-> IF came[t] = "now" THEN "past" ELSE came[t]]
  BY Zenon DEF StartPass
<1>3. Courses'
  <2>1. vs' \in [Clients -> Surfaces \cup {None}]
    BY <1>2 DEF Courses
  <2>2. at' \in [Clients -> Surfaces \cup {None}]
    BY <1>1, <1>2 DEF Courses
  <2>3. updated' \in [Clients -> BOOLEAN]
    BY <1>2, Zenon DEF Courses
  <2> QED
    BY <2>1, <2>2, <2>3 DEF Courses
<1>4. \A t \in Surfaces : came[t] \in {"never", "clear", "now", "past"}
  BY DEF Tables
<1> QED
  BY <1>2, <1>3, <1>4

\* A list without one of its surfaces
LEMMA UnlinkType ==
  ASSUME NEW l \in Seq(Surfaces), NEW s
  PROVE  Unlink(l, s) \in Seq(Surfaces)
BY WithoutType DEF Unlink

LEMMA PicturesKept ==
  ASSUME Pictures, UNCHANGED <<setup, rendmask, cleanmask, fb>>,
         shown' = shown \/ shown' = None
  PROVE  Pictures'
BY DEF Pictures, Buffers

LEMMA PicturesCleaned ==
  ASSUME Pictures, UNCHANGED <<setup, rendmask, fb>>, cleanmask' = Buffers,
         shown' = shown \/ shown' = None
  PROVE  Pictures'
BY DEF Pictures, Buffers

LEMMA CreateTypes ==
  ASSUME Types, NEW c \in Clients, UNCHANGED setup, Create(c)
  PROVE  Types'
<1>1. PICK s \in Surfaces, st \in Placed :
        /\ status' = [status EXCEPT ![s] = st]
        /\ itask' = [itask EXCEPT ![s] = st = "visible"]
        /\ came' = [came EXCEPT ![s] = "never"]
        /\ list' = Append(list, s)
        /\ gvslocal' = [gvslocal EXCEPT ![c] = @ \cup {s}]
  BY Zenon DEF Create
<1>2. init' = TRUE /\ UNCHANGED <<paddr, rendmask, cleanmask, fb, shown, vs, at,
                                   updated>>
  BY Zenon DEF Create, display, control
<1>3. st \in {"visible", "invisible"}
  BY DEF Placed
<1>4. status' \in [Surfaces -> {"idle", "visible", "invisible"}]
  BY <1>1, <1>3, Zenon DEF Types, Tables
<1>5. itask' \in [Surfaces -> BOOLEAN]
  BY <1>1, Zenon DEF Types, Tables
<1>6. list' \in Seq(Surfaces)
  BY <1>1 DEF Types, Tables
<1>7. gvslocal' \in [Clients -> SUBSET Surfaces]
  BY <1>1 DEF Types, Tables
<1>8. came' \in [Surfaces -> {"never", "clear", "now", "past"}]
  BY <1>1 DEF Types, Tables
<1>9. Tables'
  BY <1>2, <1>4, <1>5, <1>6, <1>7, <1>8, Zenon DEF Types, Tables
<1>10. Pictures'
  BY <1>2, PicturesKept DEF Types
<1>11. Courses'
  BY <1>2 DEF Types, Courses
<1> QED
  BY <1>9, <1>10, <1>11 DEF Types

LEMMA DestroyTypes ==
  ASSUME Types, NEW c \in Clients, NEW s \in Surfaces, UNCHANGED setup,
         Destroy(c, s)
  PROVE  Types'
<1>1. /\ gvslocal' = [gvslocal EXCEPT ![c] = @ \ {s}]
      /\ list' = Unlink(list, s) /\ cleanmask' = Buffers
      /\ UNCHANGED <<itask, paddr, rendmask, fb>>
      /\ \/ /\ init' = FALSE /\ status' = [status EXCEPT ![s] = "idle"]
            /\ shown' = None /\ UNCHANGED <<control, came>>
         \/ StartPass(c, "destroy", s, list') /\ UNCHANGED <<init, status, shown>>
  BY Zenon DEF Destroy
<1>2. PICK l : l = list'
  OBVIOUS
<1>3. l \in Seq(Surfaces)
  BY <1>1, <1>2, UnlinkType DEF Types, Tables
<1>4. gvslocal' \in [Clients -> SUBSET Surfaces]
  BY <1>1 DEF Types, Tables
<1>5. status' \in [Surfaces -> {"idle", "visible", "invisible"}]
  BY <1>1, Zenon DEF Types, Tables
<1>6. Pictures'
  BY <1>1, PicturesCleaned DEF Types
<1>7. Courses' /\ came' \in [Surfaces -> {"never", "clear", "now", "past"}]
  <2>1. CASE UNCHANGED <<control, came>> /\ init' = FALSE
    BY <2>1 DEF Types, Tables, Courses, control
  <2>2. CASE StartPass(c, "destroy", s, list') /\ UNCHANGED init
    <3>1. StartPass(c, "destroy", s, l)
      BY <1>2, <2>2, Zenon
    <3> QED
      BY <1>3, <2>2, <3>1, PassTyped DEF Types
  <2> QED
    BY <1>1, <2>1, <2>2
<1>8. Tables'
  BY <1>1, <1>2, <1>3, <1>4, <1>5, <1>7, Zenon DEF Types, Tables
<1> QED
  BY <1>6, <1>7, <1>8 DEF Types

LEMMA ConfigureTypes ==
  ASSUME Types, NEW c \in Clients, NEW s \in Surfaces, UNCHANGED setup,
         Configure(c, s)
  PROVE  Types'
<1>1. /\ list' = Append(Unlink(list, s), s) /\ cleanmask' = Buffers
      /\ StartPass(c, "config", s, list')
      /\ UNCHANGED <<paddr, rendmask, gvslocal, init, fb, shown>>
      /\ \E st \in Placed : /\ status' = [status EXCEPT ![s] = st]
                            /\ itask' = [itask EXCEPT ![s] = @ \/ st = "visible"]
  BY Zenon DEF Configure, display
<1>2. PICK l : l = list'
  OBVIOUS
<1>3. l \in Seq(Surfaces)
  <2>1. Unlink(list, s) \in Seq(Surfaces)
    BY UnlinkType DEF Types, Tables
  <2> QED
    BY <1>1, <1>2, <2>1
<1>4. PICK st \in Placed : /\ status' = [status EXCEPT ![s] = st]
                           /\ itask' = [itask EXCEPT ![s] = @ \/ st = "visible"]
  BY <1>1
<1>5. st \in {"visible", "invisible"}
  BY DEF Placed
<1>6. status' \in [Surfaces -> {"idle", "visible", "invisible"}]
  BY <1>4, <1>5, Zenon DEF Types, Tables
<1>7. itask' \in [Surfaces -> BOOLEAN]
  BY <1>4, Zenon DEF Types, Tables
<1>8. Pictures'
  BY <1>1, PicturesCleaned DEF Types
<1>9. Courses' /\ came' \in [Surfaces -> {"never", "clear", "now", "past"}]
  <2>1. StartPass(c, "config", s, l)
    BY <1>1, <1>2, Zenon
  <2> QED
    BY <1>1, <1>3, <2>1, PassTyped DEF Types
<1>10. Tables'
  BY <1>1, <1>2, <1>3, <1>6, <1>7, <1>9, Zenon DEF Types, Tables
<1> QED
  BY <1>8, <1>9, <1>10 DEF Types

LEMMA RaiseTypes ==
  ASSUME Types, NEW c \in Clients, NEW s \in Surfaces, UNCHANGED setup,
         Raise(c, s)
  PROVE  Types'
<1>1. /\ list' = Unlink(list, s) /\ vs' = [vs EXCEPT ![c] = s]
      /\ UNCHANGED <<status, paddr, rendmask, itask, gvslocal, cleanmask, init,
                     fb, shown, at, updated, came>>
  BY Zenon DEF Raise, device, display
<1>2. list' \in Seq(Surfaces)
  BY <1>1, UnlinkType DEF Types, Tables
<1>3. Tables'
  BY <1>1, <1>2, Zenon DEF Types, Tables
<1>4. Pictures'
  BY <1>1, PicturesKept DEF Types
<1>5. Courses'
  BY <1>1 DEF Types, Courses
<1> QED
  BY <1>3, <1>4, <1>5 DEF Types

LEMMA RaiseAppendTypes ==
  ASSUME Types, Aimed, NEW c \in Clients, UNCHANGED setup, RaiseAppend(c)
  PROVE  Types'
<1>1. /\ pc[c] = "append" /\ list' = Append(list, vs[c])
      /\ StartPass(c, "layer", vs[c], list')
      /\ UNCHANGED <<status, paddr, rendmask, itask, gvslocal, cleanmask, init,
                     fb, shown>>
  BY Zenon DEF RaiseAppend, device, display
<1>2. PICK s \in Surfaces : s = vs[c]
  BY <1>1 DEF Aimed
<1>3. PICK l : l = list'
  OBVIOUS
<1>4. l \in Seq(Surfaces)
  BY <1>1, <1>2, <1>3 DEF Types, Tables
<1>5. StartPass(c, "layer", s, l)
  BY <1>1, <1>2, <1>3, Zenon
<1>6. Courses' /\ came' \in [Surfaces -> {"never", "clear", "now", "past"}]
  BY <1>1, <1>4, <1>5, PassTyped DEF Types
<1>7. Tables'
  BY <1>1, <1>3, <1>4, <1>6, Zenon DEF Types, Tables
<1>8. Pictures'
  BY <1>1, PicturesKept DEF Types
<1> QED
  BY <1>6, <1>7, <1>8 DEF Types

LEMMA SubmitTypes ==
  ASSUME Types, NEW c \in Clients, NEW s \in Surfaces, NEW f \in Frames,
         UNCHANGED setup, Submit(c, s, f)
  PROVE  Types'
<1>1. /\ paddr' = [paddr EXCEPT ![s] = f] /\ rendmask' = [rendmask EXCEPT ![s] = {}]
      /\ came' = [came EXCEPT ![s] = IF lock = None THEN "clear" ELSE "now"]
      /\ vs' = [vs EXCEPT ![c] = s]
      /\ UNCHANGED <<list, status, itask, gvslocal, cleanmask, init, fb, shown,
                     at, updated>>
  BY Zenon DEF Submit, device, display
<1>2. paddr' \in [Surfaces -> Frames \cup {None}]
  BY <1>1 DEF Types, Tables
<1>3. came' \in [Surfaces -> {"never", "clear", "now", "past"}]
  BY <1>1 DEF Types, Tables
<1>4. Tables'
  BY <1>1, <1>2, <1>3, Zenon DEF Types, Tables
<1>5. rendmask' \in [Surfaces -> SUBSET Buffers]
  BY <1>1 DEF Types, Pictures
<1>6. Pictures'
  BY <1>1, <1>5 DEF Types, Pictures, Buffers
<1>7. Courses'
  BY <1>1 DEF Types, Courses
<1> QED
  BY <1>4, <1>6, <1>7 DEF Types

LEMMA EnterTypes ==
  ASSUME Types, Aimed, NEW c \in Clients, UNCHANGED setup, Enter(c)
  PROVE  Types'
<1>1. /\ StartPass(c, "render", vs[c], list)
      /\ UNCHANGED <<list, status, paddr, rendmask, itask, gvslocal, cleanmask,
                     init, fb, shown>>
  BY Zenon DEF Enter, surfaces, display
<1>5. vs[c] \in Surfaces
  BY DEF Enter, Aimed
<1>2. Courses' /\ came' \in [Surfaces -> {"never", "clear", "now", "past"}]
  BY <1>1, <1>5, PassTyped DEF Types, Tables
<1>3. Tables'
  BY <1>1, <1>2, Zenon DEF Types, Tables
<1>4. Pictures'
  BY <1>1, PicturesKept DEF Types
<1> QED
  BY <1>2, <1>3, <1>4 DEF Types

LEMMA PendingTypes ==
  ASSUME Types, NEW c \in Clients, UNCHANGED setup, Pending(c)
  PROVE  Types'
<1>1. UNCHANGED <<list, status, paddr, rendmask, itask, gvslocal, cleanmask, init,
                  fb, shown, vs, at, updated, came>>
  BY Zenon DEF Pending, surfaces, device, display
<1> QED
  BY <1>1 DEF Types, Tables, Pictures, Courses, Buffers

LEMMA SkipTypes ==
  ASSUME Types, NEW c \in Clients, UNCHANGED setup, Skip(c)
  PROVE  Types'
<1>1. /\ at' = [at EXCEPT ![c] = NextSurface(at[c])]
      /\ UNCHANGED <<list, status, paddr, rendmask, itask, gvslocal, cleanmask,
                     init, fb, shown, vs, updated, came>>
  BY Zenon DEF Skip, surfaces, device, display
<1>2. NextSurface(at[c]) \in Surfaces \cup {None}
  BY NextTyped DEF Types, Tables
<1>3. Courses'
  BY <1>1, <1>2 DEF Types, Courses
<1>4. Tables'
  BY <1>1, Zenon DEF Types, Tables
<1>5. Pictures'
  BY <1>1, PicturesKept DEF Types
<1> QED
  BY <1>3, <1>4, <1>5 DEF Types

LEMMA PaintedType ==
  ASSUME Tables, NEW s \in Surfaces, paddr[s] # None, NEW l \in Painting
  PROVE  PaintedOver(l, s) \in Painting
<1> DEFINE P == {i \in DOMAIN l : l[i].surface = s}
           p == [surface |-> s, frame |-> paddr[s]]
           k == Without(l, P)
<1>1. k \in Painting
  BY WithoutType DEF Painting
<1>2. paddr[s] \in Frames
  BY DEF Tables
<1>3. p \in [surface : Surfaces, frame : Frames]
  BY <1>2
<1>4. PaintedOver(l, s) = Append(k, p)
  BY DEF PaintedOver
<1> HIDE DEF k, p
<1> QED
  BY <1>1, <1>3, <1>4 DEF Painting

LEMMA PaintTypes ==
  ASSUME Types, renderidx \in Buffers, NEW c \in Clients, UNCHANGED setup, Paint(c)
  PROVE  Types'
<1>1. PICK s : s = at[c]
  OBVIOUS
<1>2. PICK clean : clean = IF renderidx \in cleanmask THEN <<>> ELSE fb[renderidx]
  OBVIOUS
<1>3. /\ s # None
      /\ fb' = [fb EXCEPT ![renderidx] = IF paddr[s] = None \/ ~itask[s] THEN clean
                                         ELSE PaintedOver(clean, s)]
      /\ rendmask' = IF job[c] = "render" THEN rendmask
                     ELSE [rendmask EXCEPT ![s] = {}]
      /\ cleanmask' = cleanmask \ {renderidx}
      /\ updated' = [updated EXCEPT ![c] = TRUE]
      /\ UNCHANGED <<list, status, paddr, itask, gvslocal, init, shown, vs, at,
                     came>>
  BY <1>1, <1>2, Zenon DEF Paint
<1>4. s \in Surfaces
  BY <1>1, <1>3 DEF Types, Courses
<1>5. clean \in Painting
  <2>1. <<>> \in Painting
    BY DEF Painting
  <2> QED
    BY <1>2, <2>1 DEF Types, Pictures
<1>6. PICK new \in Painting : fb' = [fb EXCEPT ![renderidx] = new]
  <2>1. CASE paddr[s] = None \/ ~itask[s]
    BY <1>3, <1>5, <2>1, Zenon
  <2>2. CASE ~(paddr[s] = None \/ ~itask[s])
    <3>1. PaintedOver(clean, s) \in Painting
      BY <1>4, <1>5, <2>2, PaintedType DEF Types
    <3> QED
      BY <1>3, <2>2, <3>1, Zenon
  <2> QED
    BY <2>1, <2>2
<1>7. Pictures'
  <2>1. Buffers' = Buffers
    BY DEF Buffers
  <2>2. fb' \in [Buffers -> Painting]
    BY <1>6 DEF Types, Pictures
  <2>3. rendmask' \in [Surfaces -> SUBSET Buffers]
    BY <1>3 DEF Types, Pictures
  <2> QED
    BY <1>3, <2>1, <2>2, <2>3 DEF Types, Pictures
<1>8. Tables'
  BY <1>3, Zenon DEF Types, Tables
<1>9. updated' \in [Clients -> BOOLEAN]
  BY <1>3, Zenon DEF Types, Courses
<1>10. Courses'
  BY <1>3, <1>9, Zenon DEF Types, Courses
<1> QED
  BY <1>7, <1>8, <1>10 DEF Types

LEMMA MarkTypes ==
  ASSUME Types, renderidx \in Buffers, NEW c \in Clients, UNCHANGED setup, Mark(c)
  PROVE  Types'
<1>1. /\ rendmask' = [rendmask EXCEPT ![at[c]] = @ \cup {renderidx}]
      /\ at' = [at EXCEPT ![c] = NextSurface(at[c])]
      /\ UNCHANGED <<list, status, paddr, itask, gvslocal, cleanmask, init, fb,
                     shown, vs, updated, came>>
  BY Zenon DEF Mark, device, display
<1>2. NextSurface(at[c]) \in Surfaces \cup {None}
  BY NextTyped DEF Types, Tables
<1>3. Courses'
  BY <1>1, <1>2 DEF Types, Courses
<1>4. Tables'
  BY <1>1, Zenon DEF Types, Tables
<1>5. rendmask' \in [Surfaces -> SUBSET Buffers]
  BY <1>1 DEF Types, Pictures
<1>6. Pictures'
  BY <1>1, <1>5 DEF Types, Pictures, Buffers
<1> QED
  BY <1>3, <1>4, <1>6 DEF Types

LEMMA FlipTypes ==
  ASSUME Types, renderidx \in Buffers, NEW c \in Clients, UNCHANGED setup, Flip(c)
  PROVE  Types'
<1>1. /\ shown' = renderidx
      /\ status' = IF job[c] = "destroy" THEN [status EXCEPT ![vs[c]] = "idle"]
                   ELSE status
      /\ UNCHANGED <<list, paddr, rendmask, itask, gvslocal, cleanmask, init, fb,
                     vs, at, updated, came>>
  BY Zenon DEF Flip
<1>2. status' \in [Surfaces -> {"idle", "visible", "invisible"}]
  BY <1>1, Zenon DEF Types, Tables
<1>3. Tables'
  BY <1>1, <1>2, Zenon DEF Types, Tables
<1>4. Pictures'
  BY <1>1 DEF Types, Pictures, Buffers
<1>5. Courses'
  BY <1>1 DEF Types, Courses
<1> QED
  BY <1>3, <1>4, <1>5 DEF Types

-------------------------------------------------------------------------------
(* What the list, the processes and the table say of the surfaces.         *)

Listed == Elements(list)

Held == UNION {gvslocal[c] : c \in Clients}

Busy == {s \in Surfaces : status[s] # "idle"}

Moves(c) == pc[c] = "append"

Dies(c) == InPass(c) /\ job[c] = "destroy"

\* A surface is known in one place at a time: on the list, with the client
\* that raises it, or with the one that destroys it.
Known ==
  /\ Distinct(list)
  /\ Listed \cup Moving = Held
  /\ Busy = Held \cup Dying
  /\ Listed \cap Moving = {} /\ Dying \cap Held = {}

Owned ==
  /\ \A c, d \in Clients : c # d => gvslocal[c] \cap gvslocal[d] = {}
  /\ \A c \in Clients : Moves(c) => vs[c] \in gvslocal[c]
  /\ \A c, d \in Clients : Dies(c) /\ Dies(d) /\ vs[c] = vs[d] => c = d

Counted == cnt = Len(list) + Cardinality(Moving) /\ cnt <= VsMax

\* Only with several clients and expose events can one be destroying what it
\* takes for the last surface while another one raises its own.
Calm == setup.layers => \A c, d \in setup.users : c = d

SetUp ==
  /\ \A c \in Clients : pc[c] # "idle" => c \in setup.users
  /\ Calm => (init <=> cnt > 0)

Register == Known /\ Owned /\ Counted /\ Aimed /\ SetUp

OnlyOf(c) ==
  \A d \in Clients : d # c => pc'[d] = pc[d] /\ job'[d] = job[d] /\ vs'[d] = vs[d]

LEMMA MovingIs == Moving = {vs[d] : d \in {e \in Clients : Moves(e)}}
BY DEF Moving, Moves

LEMMA DyingIs == Dying = {vs[d] : d \in {e \in Clients : Dies(e)}}
BY DEF Dying, Dies

LEMMA MovingSame ==
  ASSUME NEW c \in Clients, OnlyOf(c), ~Moves(c), ~Moves(c)'
  PROVE  Moving' = Moving
<1>1. \A d \in Clients : Moves(d)' <=> Moves(d)
  BY DEF OnlyOf, Moves
<1>2. \A d \in Clients : Moves(d) => vs'[d] = vs[d]
  BY DEF OnlyOf
<1> QED
  BY <1>1, <1>2, MovingIs DEF Moving, Moves

LEMMA DyingSame ==
  ASSUME NEW c \in Clients, OnlyOf(c),
         (~Dies(c) /\ ~Dies(c)') \/ (Dies(c) /\ Dies(c)' /\ vs'[c] = vs[c])
  PROVE  /\ Dying' = Dying
         /\ Owned => \A d, e \in Clients : Dies(d)' /\ Dies(e)' /\ vs'[d] = vs'[e] => d = e
<1>1. \A d \in Clients : Dies(d)' <=> Dies(d)
  BY DEF OnlyOf, Dies, InPass
<1>2. \A d \in Clients : Dies(d) => vs'[d] = vs[d]
  BY DEF OnlyOf
<1> QED
  BY <1>1, <1>2, DyingIs DEF Dying, Dies, InPass, Owned

LEMMA MovingMore ==
  ASSUME NEW c \in Clients, OnlyOf(c), ~Moves(c), Moves(c)'
  PROVE  Moving' = Moving \cup {vs'[c]}
<1>1. \A d \in Clients : Moves(d)' <=> Moves(d) \/ d = c
  BY DEF OnlyOf, Moves
<1>2. \A d \in Clients : Moves(d) => vs'[d] = vs[d]
  BY DEF OnlyOf
<1> QED
  BY <1>1, <1>2, MovingIs DEF Moving, Moves

LEMMA MovingLess ==
  ASSUME Owned, NEW c \in Clients, OnlyOf(c), Moves(c), ~Moves(c)'
  PROVE  Moving' = Moving \ {vs[c]} /\ vs[c] \in Moving
<1>1. \A d \in Clients : Moves(d)' <=> Moves(d) /\ d # c
  BY DEF OnlyOf, Moves
<1>2. \A d \in Clients : d # c => vs'[d] = vs[d]
  BY DEF OnlyOf
<1>3. \A d \in Clients : Moves(d) /\ d # c => vs[d] # vs[c]
  BY DEF Owned
<1> QED
  BY <1>1, <1>2, <1>3, MovingIs DEF Moving, Moves

LEMMA DyingMore ==
  ASSUME Owned, NEW c \in Clients, OnlyOf(c), ~Dies(c), Dies(c)',
         vs'[c] \notin Dying
  PROVE  /\ Dying' = Dying \cup {vs'[c]}
         /\ \A d, e \in Clients : Dies(d)' /\ Dies(e)' /\ vs'[d] = vs'[e] => d = e
<1>1. \A d \in Clients : Dies(d)' <=> Dies(d) \/ d = c
  BY DEF OnlyOf, Dies, InPass
<1>2. \A d \in Clients : Dies(d) => vs'[d] = vs[d]
  BY DEF OnlyOf
<1>3. Dying' = Dying \cup {vs'[c]}
  BY <1>1, <1>2, DyingIs DEF Dying, Dies, InPass
<1>4. \A d \in Clients : Dies(d) => vs[d] # vs'[c]
  BY DyingIs
<1> QED
  BY <1>1, <1>2, <1>3, <1>4 DEF Owned

LEMMA DyingLess ==
  ASSUME Owned, NEW c \in Clients, OnlyOf(c), Dies(c), ~Dies(c)'
  PROVE  /\ Dying' = Dying \ {vs[c]} /\ vs[c] \in Dying
         /\ \A d, e \in Clients : Dies(d)' /\ Dies(e)' /\ vs'[d] = vs'[e] => d = e
<1>1. \A d \in Clients : Dies(d)' <=> Dies(d) /\ d # c
  BY DEF OnlyOf, Dies, InPass
<1>2. \A d \in Clients : d # c => vs'[d] = vs[d]
  BY DEF OnlyOf
<1>3. \A d \in Clients : Dies(d) /\ d # c => vs[d] # vs[c]
  BY DEF Owned
<1>4. Dying' = Dying \ {vs[c]} /\ vs[c] \in Dying
  BY <1>1, <1>2, <1>3, DyingIs DEF Dying, Dies, InPass
<1> QED
  BY <1>1, <1>2, <1>4 DEF Owned

\* A client that is doing nothing has its surfaces on the list.
LEMMA HeldIsListed ==
  ASSUME Known, Owned, NEW c \in Clients, ~Moves(c), NEW s \in gvslocal[c]
  PROVE  s \in Listed /\ s \notin Dying /\ s \in Busy /\ s \in Held /\ s \notin Moving
<1>1. s \in Held
  BY DEF Held
<1>2. s \notin Moving
  BY MovingIs DEF Owned
<1> QED
  BY <1>1, <1>2 DEF Known

LEMMA Finite == Known /\ Tables => IsFiniteSet(Moving) /\ Cardinality(Moving) \in Nat
<1> SUFFICES ASSUME Known, Tables PROVE IsFiniteSet(Moving) /\ Cardinality(Moving) \in Nat
  OBVIOUS
<1>1. IsFiniteSet(Surfaces)
  BY VideoSurfaceAssumption, FS_Interval DEF Surfaces
<1>2. Moving \subseteq Surfaces
  BY DEF Known, Held, Tables
<1> QED
  BY <1>1, <1>2, FS_Subset, FS_CardinalityType

-------------------------------------------------------------------------------
(* The registry, action by action *)

\* The surfaces stay where they are.
LEMMA RegisterKept ==
  ASSUME Register, NEW c \in Clients, c \in setup.users, OnlyOf(c),
         UNCHANGED <<setup, gvslocal, cnt, init>>,
         Distinct(list'), Elements(list') = Listed, Len(list') = Len(list),
         Busy' = Busy, ~Moves(c), ~Moves(c)',
         (~Dies(c) /\ ~Dies(c)') \/ (Dies(c) /\ Dies(c)' /\ vs'[c] = vs[c]),
         pc'[c] = "enter" => vs'[c] \in Surfaces
  PROVE  Register'
<1>1. Moving' = Moving
  BY MovingSame
<1>2. /\ Dying' = Dying
      /\ \A d, e \in Clients : Dies(d)' /\ Dies(e)' /\ vs'[d] = vs'[e] => d = e
  BY DyingSame DEF Register
<1>3. Known'
  BY <1>1, <1>2 DEF Register, Known, Listed, Held
<1>4. \A d \in Clients : Moves(d)' => Moves(d) /\ vs'[d] = vs[d]
  BY DEF OnlyOf, Moves
<1>5. Owned'
  BY <1>2, <1>4 DEF Register, Owned
<1>6. Counted'
  BY <1>1 DEF Register, Counted
<1>7. Aimed'
  BY DEF Register, Aimed, OnlyOf, Moves
<1>8. SetUp'
  BY DEF Register, SetUp, OnlyOf, Calm
<1> QED
  BY <1>3, <1>5, <1>6, <1>7, <1>8 DEF Register

LEMMA CreateRegister ==
  ASSUME Register, Tables, NEW c \in Clients, c \in setup.users, UNCHANGED setup,
         Create(c)
  PROVE  Register'
<1>1. PICK s \in Surfaces, st \in Placed :
        /\ status[s] = "idle"
        /\ status' = [status EXCEPT ![s] = st]
        /\ list' = Append(list, s)
        /\ gvslocal' = [gvslocal EXCEPT ![c] = @ \cup {s}]
  BY Zenon DEF Create
<1>2. /\ cnt < VsMax /\ cnt' = cnt + 1 /\ init' = TRUE
      /\ UNCHANGED <<pc, job, vs>>
  BY Zenon DEF Create, control
<1>3. s \notin Busy /\ Busy' = Busy \cup {s}
  <2>1. st # "idle"
    BY DEF Placed
  <2> QED
    BY <1>1, <2>1 DEF Busy, Tables
<1>4. s \notin Listed /\ s \notin Held /\ s \notin Dying /\ s \notin Moving
  BY <1>3 DEF Register, Known
<1>5. PICK k : k = list'
  OBVIOUS
<1>6. Distinct(k) /\ Len(k) = Len(list) + 1 /\ Elements(k) = Listed \cup {s}
  <2>1. list \in Seq(Surfaces) /\ Distinct(list)
    BY DEF Register, Known, Tables
  <2>2. Extends(k, list, s)
    BY <1>1, <1>4, <1>5, Zenon DEF Listed, Extends
  <2>3. Longer(k, list, s)
    BY <2>1, <2>2, Appended, Zenon
  <2> QED
    BY <2>3 DEF Listed, Longer
<1>7. /\ \A d \in Clients : d # c => gvslocal'[d] = gvslocal[d]
      /\ gvslocal'[c] = gvslocal[c] \cup {s}
  BY <1>1 DEF Tables
<1>8. Held' = Held \cup {s}
  BY <1>7 DEF Held
<1>9. Moving' = Moving /\ Dying' = Dying
  BY <1>2 DEF Moving, Dying, InPass
<1>10. Known'
  BY <1>3, <1>4, <1>5, <1>6, <1>8, <1>9 DEF Register, Known, Listed
<1>11. Owned'
  <2>1. \A d, e \in Clients : d # e => gvslocal'[d] \cap gvslocal'[e] = {}
    BY <1>4, <1>7 DEF Held, Register, Owned
  <2>2. \A d \in Clients : gvslocal[d] \subseteq gvslocal'[d]
    BY <1>7
  <2>3. \A d \in Clients : (Moves(d)' <=> Moves(d)) /\ (Dies(d)' <=> Dies(d))
    BY <1>2 DEF Moves, Dies, InPass
  <2>4. \A d \in Clients : Moves(d)' => vs'[d] \in gvslocal'[d]
    BY <1>2, <2>2, <2>3 DEF Register, Owned
  <2>5. \A d, e \in Clients : Dies(d)' /\ Dies(e)' /\ vs'[d] = vs'[e] => d = e
    BY <1>2, <2>3 DEF Register, Owned
  <2> QED
    BY <2>1, <2>4, <2>5 DEF Owned
<1>12. Counted'
  <2>1. Len(list) \in Nat /\ Cardinality(Moving) \in Nat
    BY Finite DEF Register, Tables
  <2> QED
    BY <1>2, <1>5, <1>6, <1>9, <2>1, VideoSurfaceAssumption DEF Register, Counted
<1>13. Aimed'
  BY <1>2 DEF Register, Aimed
<1>14. SetUp'
  <2>1. cnt' > 0
    <3>1. Len(list) \in Nat /\ Cardinality(Moving) \in Nat
      BY Finite DEF Register, Tables
    <3> QED
      BY <1>2, <3>1 DEF Register, Counted
  <2> QED
    BY <1>2, <2>1 DEF Register, SetUp
<1> QED
  BY <1>10, <1>11, <1>12, <1>13, <1>14 DEF Register

\* The client's surface leaves the list and the process: the registry is as it
\* should be if the surface is then either free or with the one that destroys it.
LEMMA Leaves ==
  ASSUME Register, Tables, NEW c \in Clients, NEW s \in gvslocal[c], ~Moves(c),
         list' = Unlink(list, s), gvslocal' = [gvslocal EXCEPT ![c] = @ \ {s}]
  PROVE  /\ Distinct(list') /\ Elements(list') = Listed \ {s}
         /\ Len(list') = Len(list) - 1 /\ Len(list) \in Nat /\ Len(list) > 0
         /\ s \in Listed /\ s \notin Moving /\ s \notin Dying /\ s \in Busy
         /\ Held' = Held \ {s}
         /\ \A d, e \in Clients : d # e => gvslocal'[d] \cap gvslocal'[e] = {}
         /\ \A d \in Clients : Moves(d) => vs[d] \in gvslocal'[d]
<1>1. s \in Listed /\ s \notin Dying /\ s \in Busy /\ s \in Held /\ s \notin Moving
  BY HeldIsListed DEF Register
<1>2. PICK k : k = list'
  OBVIOUS
<1>3. Distinct(k) /\ Len(k) = Len(list) - 1 /\ Elements(k) = Listed \ {s}
  <2>1. list \in Seq(Surfaces) /\ Distinct(list) /\ s \in Elements(list)
    BY <1>1 DEF Listed, Register, Known, Tables
  <2>2. k = Unlink(list, s)
    BY <1>2
  <2> QED
    BY <2>1, <2>2, Unlinked, Zenon DEF Listed
<1>4. Len(list) \in Nat /\ Len(list) > 0
  BY <1>1 DEF Listed, Elements, Tables
<1>5. /\ \A d \in Clients : d # c => gvslocal'[d] = gvslocal[d]
      /\ gvslocal'[c] = gvslocal[c] \ {s}
  BY DEF Tables
<1>6. \A d \in Clients : d # c => s \notin gvslocal[d]
  BY DEF Register, Owned
<1>7. Held' = Held \ {s}
  BY <1>5, <1>6 DEF Held
<1>8. \A d, e \in Clients : d # e => gvslocal'[d] \cap gvslocal'[e] = {}
  BY <1>5 DEF Register, Owned
<1>9. \A d \in Clients : Moves(d) => vs[d] \in gvslocal'[d]
  BY <1>5 DEF Register, Owned
<1> QED
  BY <1>1, <1>2, <1>3, <1>4, <1>7, <1>8, <1>9

LEMMA DestroyRegister ==
  ASSUME Register, Tables, Courses, Control, NEW c \in Clients, c \in setup.users,
         LockHeld, NEW s \in Surfaces, UNCHANGED setup, Destroy(c, s)
  PROVE  Register'
<1>1. /\ pc[c] = "idle" /\ s \in gvslocal[c]
      /\ gvslocal' = [gvslocal EXCEPT ![c] = @ \ {s}]
      /\ list' = Unlink(list, s) /\ cnt' = cnt - 1
      /\ \/ /\ list' = <<>> /\ init' = FALSE
            /\ status' = [status EXCEPT ![s] = "idle"]
            /\ UNCHANGED <<pc, job, vs>>
         \/ /\ list' # <<>> /\ StartPass(c, "destroy", s, list')
            /\ UNCHANGED <<init, status>>
  BY Zenon DEF Destroy, control
<1>2. ~Moves(c) /\ ~Dies(c)
  BY <1>1 DEF Moves, Dies, InPass
<1>3. /\ Distinct(list') /\ Elements(list') = Listed \ {s}
      /\ Len(list') = Len(list) - 1 /\ Len(list) \in Nat /\ Len(list) > 0
      /\ s \in Listed /\ s \notin Moving /\ s \notin Dying /\ s \in Busy
      /\ Held' = Held \ {s}
      /\ \A d, e \in Clients : d # e => gvslocal'[d] \cap gvslocal'[e] = {}
      /\ \A d \in Clients : Moves(d) => vs[d] \in gvslocal'[d]
  BY <1>1, <1>2, Leaves
<1>4. Cardinality(Moving) \in Nat
  BY Finite DEF Register
<1>5. CASE /\ list' = <<>> /\ init' = FALSE
           /\ status' = [status EXCEPT ![s] = "idle"]
           /\ UNCHANGED <<pc, job, vs>>
  <2>1. Moving' = Moving /\ Dying' = Dying
    BY <1>5 DEF Moving, Dying, InPass
  <2>2. Busy' = Busy \ {s}
    BY <1>5 DEF Busy, Tables
  <2>3. Known'
    BY <1>3, <2>1, <2>2 DEF Register, Known, Listed
  <2>4. \A d \in Clients : (Moves(d)' <=> Moves(d)) /\ (Dies(d)' <=> Dies(d))
    BY <1>5 DEF Moves, Dies, InPass
  <2>5. Owned'
    BY <1>3, <1>5, <2>4 DEF Register, Owned
  <2>6. Counted'
    BY <1>1, <1>3, <1>4, <2>1, VideoSurfaceAssumption DEF Register, Counted
  <2>7. Aimed'
    BY <1>5 DEF Register, Aimed
  <2>8. Calm => Moving = {}
    <3>1. ASSUME Calm, NEW d \in Clients, Moves(d)
          PROVE  FALSE
      <4>1. setup.layers
        BY <3>1, SetupTypes DEF Control, LockHeld, Moves
      <4>2. d \in setup.users
        BY <3>1 DEF Register, SetUp, Moves
      <4> QED
        BY <1>2, <3>1, <4>1, <4>2 DEF Calm
    <3> QED
      BY <3>1, MovingIs
  <2>9. Calm => ~(cnt' > 0)
    <3>1. Len(list') = 0
      BY <1>5
    <3> QED
      <4>1. ASSUME Calm PROVE cnt' = 0
        <5>1. Cardinality(Moving) = 0
          BY <2>8, <4>1, FS_EmptySet
        <5>2. cnt = Len(list) + Cardinality(Moving)
          BY DEF Register, Counted
        <5> QED
          BY <1>1, <1>3, <3>1, <5>1, <5>2
      <4> QED
        BY <4>1
  <2>10. SetUp'
    BY <1>5, <2>9 DEF Register, SetUp, Calm
  <2> QED
    BY <2>3, <2>5, <2>6, <2>7, <2>10 DEF Register
<1>6. CASE /\ list' # <<>> /\ StartPass(c, "destroy", s, list')
           /\ UNCHANGED <<init, status>>
  <2>1. /\ pc' = [pc EXCEPT ![c] = "draw"] /\ job' = [job EXCEPT ![c] = "destroy"]
        /\ vs' = [vs EXCEPT ![c] = s]
    BY <1>6, Zenon DEF StartPass, Goto
  <2>2. OnlyOf(c) /\ pc'[c] = "draw" /\ job'[c] = "destroy"
    BY <2>1 DEF OnlyOf, Control
  <2>3. vs'[c] = s
    BY <2>1 DEF Courses
  <2>4. ~Moves(c)' /\ Dies(c)'
    BY <2>2 DEF Moves, Dies, InPass
  <2>5. Moving' = Moving
    BY <1>2, <2>2, <2>4, MovingSame
  <2>6. /\ Dying' = Dying \cup {s}
        /\ \A d, e \in Clients : Dies(d)' /\ Dies(e)' /\ vs'[d] = vs'[e] => d = e
    BY <1>2, <1>3, <2>2, <2>3, <2>4, DyingMore DEF Register
  <2>7. Busy' = Busy
    BY <1>6 DEF Busy
  <2>8. Known'
    BY <1>3, <2>5, <2>6, <2>7 DEF Register, Known, Listed
  <2>9. \A d \in Clients : Moves(d)' => Moves(d) /\ vs'[d] = vs[d]
    BY <2>2, <2>4 DEF OnlyOf, Moves
  <2>10. Owned'
    BY <1>3, <2>6, <2>9 DEF Register, Owned
  <2>11. Counted'
    BY <1>1, <1>3, <1>4, <2>5, VideoSurfaceAssumption DEF Register, Counted
  <2>12. Aimed'
    BY <2>2 DEF Register, Aimed, OnlyOf
  <2>13. cnt > 0 /\ cnt' > 0
    <3>1. Len(list') > 0
      <4>1. Elements(list') # {}
        <5>1. Unlink(list, s) \in Seq(Surfaces)
          BY UnlinkType DEF Tables
        <5>2. PICK k \in Seq(Surfaces) : k = list'
          BY <1>1, <5>1
        <5>3. k # <<>> => 1 \in 1 .. Len(k)
          OBVIOUS
        <5> QED
          BY <1>6, <5>2, <5>3 DEF Elements
      <4> QED
        BY <1>3, <4>1 DEF Elements
    <3> QED
      BY <1>1, <1>3, <1>4, <3>1 DEF Register, Counted
  <2>14. SetUp'
    BY <1>6, <2>2, <2>13 DEF Register, SetUp, OnlyOf, Calm
  <2> QED
    BY <2>8, <2>10, <2>11, <2>12, <2>14 DEF Register
<1> QED
  BY <1>1, <1>5, <1>6

LEMMA ConfigureRegister ==
  ASSUME Register, Tables, Courses, Control, NEW c \in Clients, c \in setup.users,
         NEW s \in Surfaces, UNCHANGED setup, Configure(c, s)
  PROVE  Register'
<1>1. /\ pc[c] = "idle" /\ s \in gvslocal[c]
      /\ list' = Append(Unlink(list, s), s)
      /\ pc' = [pc EXCEPT ![c] = "draw"] /\ job' = [job EXCEPT ![c] = "config"]
      /\ vs' = [vs EXCEPT ![c] = s]
      /\ UNCHANGED <<gvslocal, cnt, init>>
      /\ \E st \in Placed : status' = [status EXCEPT ![s] = st]
  BY Zenon DEF Configure, StartPass, Goto
<1>2. ~Moves(c) /\ ~Dies(c)
  BY <1>1 DEF Moves, Dies, InPass
<1>3. s \in Listed /\ s \in Busy
  BY <1>1, <1>2, HeldIsListed DEF Register
<1>4. PICK l : l = Unlink(list, s)
  OBVIOUS
<1>5. list \in Seq(Surfaces) /\ Distinct(list) /\ s \in Elements(list)
  BY <1>3 DEF Tables, Register, Known, Listed
<1>6. /\ l \in Seq(Surfaces) /\ Distinct(l) /\ Len(l) = Len(list) - 1
      /\ Elements(l) = Listed \ {s}
  BY <1>4, <1>5, Unlinked, Zenon DEF Listed
<1>7. PICK k : k = list'
  OBVIOUS
<1>8. Extends(k, l, s)
  BY <1>1, <1>4, <1>6, <1>7 DEF Extends
<1>18. Longer(k, l, s)
  BY <1>6, <1>8, Appended, Zenon
<1>9. /\ Distinct(k) /\ Len(k) = Len(l) + 1 /\ Elements(k) = Elements(l) \cup {s}
  BY <1>18 DEF Longer
<1>10. Len(list) \in Nat
  BY <1>5
<1>11. Distinct(list') /\ Elements(list') = Listed /\ Len(list') = Len(list)
  <2>1. (Len(list) - 1) + 1 = Len(list)
    BY <1>10
  <2>2. Elements(k) = Listed
    BY <1>3, <1>6, <1>9
  <2> QED
    BY <1>6, <1>7, <1>9, <2>1, <2>2, Zenon
<1>12. Busy' = Busy
  <2>1. PICK st \in Placed : status' = [status EXCEPT ![s] = st]
    BY <1>1
  <2>2. st # "idle"
    BY DEF Placed
  <2> QED
    BY <1>3, <2>1, <2>2 DEF Busy, Tables
<1>13. OnlyOf(c) /\ pc'[c] = "draw" /\ job'[c] = "config"
  BY <1>1 DEF OnlyOf, Control
<1>14. ~Moves(c)' /\ ~Dies(c)'
  BY <1>13 DEF Moves, Dies
<1> QED
  BY <1>1, <1>2, <1>11, <1>12, <1>13, <1>14, RegisterKept

LEMMA RaiseRegister ==
  ASSUME Register, Tables, Courses, Control, NEW c \in Clients, c \in setup.users,
         NEW s \in Surfaces, UNCHANGED setup, Raise(c, s)
  PROVE  Register'
<1>1. /\ pc[c] = "idle" /\ s \in gvslocal[c]
      /\ list' = Unlink(list, s)
      /\ pc' = [pc EXCEPT ![c] = "append"] /\ vs' = [vs EXCEPT ![c] = s]
      /\ UNCHANGED <<job, status, gvslocal, cnt, init>>
  BY Zenon DEF Raise, Goto, device
<1>2. ~Moves(c) /\ ~Dies(c)
  BY <1>1 DEF Moves, Dies, InPass
<1>3. s \in Listed /\ s \notin Moving
  BY <1>1, <1>2, HeldIsListed DEF Register
<1>4. PICK l : l = list'
  OBVIOUS
<1>5. list \in Seq(Surfaces) /\ Distinct(list) /\ s \in Elements(list)
  BY <1>3 DEF Tables, Register, Known, Listed
<1>6. /\ l \in Seq(Surfaces) /\ Distinct(l) /\ Len(l) = Len(list) - 1
      /\ Elements(l) = Listed \ {s}
  BY <1>1, <1>4, <1>5, Unlinked, Zenon DEF Listed
<1>7. OnlyOf(c) /\ pc'[c] = "append" /\ vs'[c] = s
  BY <1>1 DEF OnlyOf, Control, Courses
<1>8. Moves(c)' /\ ~Dies(c)'
  BY <1>7 DEF Moves, Dies, InPass
<1>9. Moving' = Moving \cup {s}
  BY <1>2, <1>7, <1>8, MovingMore
<1>10. /\ Dying' = Dying
       /\ \A d, e \in Clients : Dies(d)' /\ Dies(e)' /\ vs'[d] = vs'[e] => d = e
  BY <1>2, <1>7, <1>8, DyingSame DEF Register
<1>11. Busy' = Busy /\ Held' = Held
  BY <1>1 DEF Busy, Held
<1>12. Known'
  BY <1>3, <1>4, <1>6, <1>9, <1>10, <1>11 DEF Register, Known, Listed
<1>13. \A d \in Clients : Moves(d)' => (Moves(d) /\ vs'[d] = vs[d]) \/ d = c
  BY <1>7 DEF OnlyOf, Moves
<1>14. Owned'
  BY <1>1, <1>7, <1>10, <1>13 DEF Register, Owned
<1>15. Counted'
  <2>1. Len(list) \in Nat /\ Cardinality(Moving) \in Nat /\ IsFiniteSet(Moving)
    BY <1>5, Finite DEF Register
  <2>2. Cardinality(Moving') = Cardinality(Moving) + 1
    BY <1>3, <1>9, <2>1, FS_AddElement
  <2>3. Cardinality(Moving)' = Cardinality(Moving')
    OBVIOUS
  <2> QED
    BY <1>1, <1>4, <1>6, <2>1, <2>2, <2>3 DEF Register, Counted
<1>16. Aimed'
  BY <1>7 DEF Register, Aimed, OnlyOf
<1>17. SetUp'
  BY <1>1, <1>7 DEF Register, SetUp, OnlyOf, Calm
<1> QED
  BY <1>12, <1>14, <1>15, <1>16, <1>17 DEF Register

LEMMA RaiseAppendRegister ==
  ASSUME Register, Tables, Courses, Control, NEW c \in Clients, c \in setup.users,
         UNCHANGED setup, RaiseAppend(c)
  PROVE  Register'
<1>1. PICK s : s = vs[c]
  OBVIOUS
<1>2. /\ pc[c] = "append" /\ list' = Append(list, s)
      /\ pc' = [pc EXCEPT ![c] = "draw"] /\ job' = [job EXCEPT ![c] = "layer"]
      /\ vs' = [vs EXCEPT ![c] = s]
      /\ UNCHANGED <<status, gvslocal, cnt, init>>
  BY <1>1, Zenon DEF RaiseAppend, StartPass, Goto, device
<1>3. OnlyOf(c) /\ pc'[c] = "draw" /\ job'[c] = "layer"
  BY <1>2 DEF OnlyOf, Control
<1>4. Moves(c) /\ ~Moves(c)' /\ ~Dies(c) /\ ~Dies(c)'
  BY <1>2, <1>3 DEF Moves, Dies, InPass
<1>5. Moving' = Moving \ {s} /\ s \in Moving
  BY <1>1, <1>3, <1>4, MovingLess DEF Register
<1>6. s \in Surfaces /\ s \notin Listed
  BY <1>1, <1>2, <1>5 DEF Register, Aimed, Known
<1>7. PICK l : l = list'
  OBVIOUS
<1>8. /\ list \in Seq(Surfaces) /\ Distinct(list) /\ Extends(l, list, s)
  BY <1>2, <1>6, <1>7 DEF Tables, Register, Known, Listed, Extends
<1>18. Longer(l, list, s)
  BY <1>6, <1>8, Appended, Zenon
<1>9. Distinct(l) /\ Len(l) = Len(list) + 1 /\ Elements(l) = Listed \cup {s}
  BY <1>18 DEF Listed, Longer
<1>10. /\ Dying' = Dying
       /\ \A d, e \in Clients : Dies(d)' /\ Dies(e)' /\ vs'[d] = vs'[e] => d = e
  BY <1>3, <1>4, DyingSame DEF Register
<1>11. Busy' = Busy /\ Held' = Held
  BY <1>2 DEF Busy, Held
<1>12. Known'
  BY <1>5, <1>6, <1>7, <1>9, <1>10, <1>11 DEF Register, Known, Listed
<1>13. \A d \in Clients : Moves(d)' => Moves(d) /\ vs'[d] = vs[d]
  BY <1>3, <1>4 DEF OnlyOf, Moves
<1>14. Owned'
  BY <1>2, <1>10, <1>13 DEF Register, Owned
<1>15. Counted'
  <2>1. Len(list) \in Nat /\ Cardinality(Moving) \in Nat /\ IsFiniteSet(Moving)
    BY <1>8, Finite DEF Register
  <2>2. Cardinality(Moving') = Cardinality(Moving) - 1
    BY <1>5, <2>1, FS_RemoveElement
  <2>3. Cardinality(Moving)' = Cardinality(Moving')
    OBVIOUS
  <2> QED
    BY <1>2, <1>7, <1>9, <2>1, <2>2, <2>3 DEF Register, Counted
<1>16. Aimed'
  BY <1>3 DEF Register, Aimed, OnlyOf
<1>17. SetUp'
  BY <1>2, <1>3 DEF Register, SetUp, OnlyOf, Calm
<1> QED
  BY <1>12, <1>14, <1>15, <1>16, <1>17 DEF Register

\* The steps that leave the list and the table to what they say
LEMMA QuietRegister ==
  ASSUME Register, Tables, Courses, Control, NEW c \in Clients, c \in setup.users,
         UNCHANGED <<setup, list, status, gvslocal, cnt, init>>,
         OnlyOf(c), ~Moves(c), ~Moves(c)',
         (~Dies(c) /\ ~Dies(c)') \/ (Dies(c) /\ Dies(c)' /\ vs'[c] = vs[c]),
         pc'[c] = "enter" => vs'[c] \in Surfaces
  PROVE  Register'
<1>1. Distinct(list') /\ Elements(list') = Listed /\ Len(list') = Len(list)
  BY DEF Listed, Register, Known
<1>2. Busy' = Busy
  BY DEF Busy
<1> QED
  BY <1>1, <1>2, RegisterKept

LEMMA SubmitRegister ==
  ASSUME Register, Tables, Courses, Control, NEW c \in Clients, c \in setup.users,
         NEW s \in Surfaces, NEW f \in Frames, UNCHANGED setup, Submit(c, s, f)
  PROVE  Register'
<1>1. PICK p \in {"idle", "enter"} : pc' = [pc EXCEPT ![c] = p]
  BY Zenon DEF Submit, Goto
<1>2. /\ pc[c] = "idle" /\ vs' = [vs EXCEPT ![c] = s]
      /\ UNCHANGED <<job, list, status, gvslocal, cnt, init>>
  BY Zenon DEF Submit, device
<1>3. OnlyOf(c) /\ pc'[c] = p /\ vs'[c] = s
  BY <1>1, <1>2 DEF OnlyOf, Control, Courses
<1>4. ~Moves(c) /\ ~Moves(c)' /\ ~Dies(c) /\ ~Dies(c)'
  BY <1>2, <1>3 DEF Moves, Dies, InPass
<1> QED
  BY <1>2, <1>3, <1>4, QuietRegister

LEMMA EnterRegister ==
  ASSUME Register, Tables, Courses, Control, NEW c \in Clients, c \in setup.users,
         UNCHANGED setup, Enter(c)
  PROVE  Register'
<1>1. /\ pc[c] = "enter"
      /\ pc' = [pc EXCEPT ![c] = "draw"] /\ job' = [job EXCEPT ![c] = "render"]
      /\ vs' = [vs EXCEPT ![c] = vs[c]]
      /\ UNCHANGED <<list, status, gvslocal, cnt, init>>
  BY Zenon DEF Enter, StartPass, Goto, surfaces
<1>2. OnlyOf(c) /\ pc'[c] = "draw" /\ job'[c] = "render"
  BY <1>1 DEF OnlyOf, Control
<1>3. ~Moves(c) /\ ~Moves(c)' /\ ~Dies(c) /\ ~Dies(c)'
  BY <1>1, <1>2 DEF Moves, Dies, InPass
<1> QED
  BY <1>1, <1>2, <1>3, QuietRegister

LEMMA PendingRegister ==
  ASSUME Register, Tables, Courses, Control, NEW c \in Clients, c \in setup.users,
         UNCHANGED setup, Pending(c)
  PROVE  Register'
<1>1. /\ pc[c] = "enter" /\ pc' = [pc EXCEPT ![c] = "idle"]
      /\ UNCHANGED <<job, vs, list, status, gvslocal, cnt, init>>
  BY Zenon DEF Pending, Goto, surfaces, device
<1>2. OnlyOf(c) /\ pc'[c] = "idle"
  BY <1>1 DEF OnlyOf, Control
<1>3. ~Moves(c) /\ ~Moves(c)' /\ ~Dies(c) /\ ~Dies(c)'
  BY <1>1, <1>2 DEF Moves, Dies, InPass
<1> QED
  BY <1>1, <1>2, <1>3, QuietRegister

\* Skip, Paint and Mark
LEMMA InPassRegister ==
  ASSUME Register, Tables, Courses, Control, NEW c \in Clients, c \in setup.users,
         UNCHANGED setup, Skip(c) \/ Paint(c) \/ Mark(c)
  PROVE  Register'
<1>1. pc[c] \in {"draw", "mark"}
  BY Zenon DEF Skip, Paint, Mark
<1>2. PICK p \in {"draw", "mark"} : pc' = [pc EXCEPT ![c] = p]
  <2>1. CASE Skip(c)
    <3>1. pc' = pc /\ pc[c] = "draw"
      BY <2>1, Zenon DEF Skip
    <3>2. pc = [pc EXCEPT ![c] = "draw"]
      BY <3>1 DEF Control
    <3> QED
      BY <3>1, <3>2
  <2>2. CASE Paint(c) \/ Mark(c)
    BY <2>2, Zenon DEF Paint, Mark, Goto
  <2> QED
    BY <2>1, <2>2
<1>3. UNCHANGED <<job, vs, list, status, gvslocal, cnt, init>>
  BY Zenon DEF Skip, Paint, Mark, surfaces, device
<1>4. OnlyOf(c) /\ pc'[c] = p
  BY <1>2, <1>3 DEF OnlyOf, Control
<1>5. ~Moves(c) /\ ~Moves(c)' /\ (Dies(c)' <=> Dies(c)) /\ vs'[c] = vs[c]
  BY <1>1, <1>3, <1>4 DEF Moves, Dies, InPass
<1>6. pc'[c] # "enter"
  BY <1>4
<1> QED
  BY <1>3, <1>4, <1>5, <1>6, QuietRegister

LEMMA FlipRegister ==
  ASSUME Register, Tables, Courses, Control, NEW c \in Clients, c \in setup.users,
         UNCHANGED setup, Flip(c)
  PROVE  Register'
<1>1. /\ pc[c] = "draw" /\ pc' = [pc EXCEPT ![c] = "idle"]
      /\ status' = IF job[c] = "destroy" THEN [status EXCEPT ![vs[c]] = "idle"]
                   ELSE status
      /\ UNCHANGED <<job, vs, list, gvslocal, cnt, init>>
  BY Zenon DEF Flip, Goto
<1>2. OnlyOf(c) /\ pc'[c] = "idle"
  BY <1>1 DEF OnlyOf, Control
<1>3. ~Moves(c) /\ ~Moves(c)' /\ ~Dies(c)' /\ (Dies(c) <=> job[c] = "destroy")
  BY <1>1, <1>2 DEF Moves, Dies, InPass
<1>4. CASE job[c] # "destroy"
  <2>1. ~Dies(c) /\ UNCHANGED status
    BY <1>1, <1>3, <1>4
  <2> QED
    BY <1>1, <1>2, <1>3, <2>1, QuietRegister
<1>5. CASE job[c] = "destroy"
  <2>1. status' = [status EXCEPT ![vs[c]] = "idle"] /\ Dies(c)
    BY <1>1, <1>3, <1>5
  <2>2. /\ Dying' = Dying \ {vs[c]} /\ vs[c] \in Dying
        /\ \A d, e \in Clients : Dies(d)' /\ Dies(e)' /\ vs'[d] = vs'[e] => d = e
    BY <1>2, <1>3, <2>1, DyingLess DEF Register
  <2>3. Busy' = Busy \ {vs[c]}
    BY <2>1 DEF Busy, Tables
  <2>4. Moving' = Moving
    BY <1>2, <1>3, MovingSame
  <2>5. Held' = Held /\ Listed' = Listed
    BY <1>1 DEF Held, Listed
  <2>6. Known'
    BY <1>1, <2>2, <2>3, <2>4, <2>5 DEF Register, Known
  <2>7. \A d \in Clients : Moves(d)' => Moves(d) /\ vs'[d] = vs[d]
    BY <1>2, <1>3 DEF OnlyOf, Moves
  <2>8. Owned'
    BY <1>1, <2>2, <2>7 DEF Register, Owned
  <2>9. Counted'
    BY <1>1, <2>4 DEF Register, Counted
  <2>10. Aimed'
    BY <1>2 DEF Register, Aimed, OnlyOf
  <2>11. SetUp'
    BY <1>1, <1>2 DEF Register, SetUp, OnlyOf, Calm
  <2> QED
    BY <2>6, <2>8, <2>9, <2>10, <2>11 DEF Register
<1> QED
  BY <1>4, <1>5

-------------------------------------------------------------------------------
(* The invariant of the registry *)

Inv == IInv /\ Types /\ Register

LEMMA InitInv == Init => Types /\ Register
<1> SUFFICES ASSUME Init PROVE Types /\ Register
  OBVIOUS
<1>1. list = <<>> /\ cnt = 0 /\ init = FALSE
  BY DEF Init
<1>2. /\ status = [s \in Surfaces |-> "idle"] /\ paddr = [s \in Surfaces |-> None]
      /\ rendmask = [s \in Surfaces |-> {}] /\ itask = [s \in Surfaces |-> FALSE]
      /\ gvslocal = [c \in Clients |-> {}] /\ came = [s \in Surfaces |-> "never"]
  BY DEF Init
<1>3. /\ cleanmask = {} /\ fb = [b \in Buffers |-> <<>>] /\ shown = None
      /\ pc = [c \in Clients |-> "idle"] /\ job = [c \in Clients |-> None]
      /\ vs = [c \in Clients |-> None] /\ at = [c \in Clients |-> None]
      /\ updated = [c \in Clients |-> FALSE]
  BY DEF Init
<1>4. Tables
  BY <1>1, <1>2 DEF Tables
<1>5. Pictures
  <2>1. <<>> \in Painting
    BY DEF Painting
  <2> QED
    BY <1>2, <1>3, <2>1 DEF Pictures
<1>6. Courses
  BY <1>1, <1>3 DEF Courses
<1>7. \A c \in Clients : pc[c] = "idle" /\ ~Moves(c) /\ ~Dies(c)
  BY <1>3 DEF Moves, Dies, InPass
<1>8. Moving = {} /\ Dying = {} /\ Listed = {} /\ Held = {} /\ Busy = {}
  <2>1. Moving = {} /\ Dying = {}
    BY <1>7, MovingIs, DyingIs
  <2>2. Listed = {}
    BY <1>1 DEF Listed, Elements
  <2>3. Held = {} /\ Busy = {}
    BY <1>2 DEF Held, Busy
  <2> QED
    BY <2>1, <2>2, <2>3
<1>9. Known
  BY <1>1, <1>8 DEF Known, Distinct
<1>10. Owned
  BY <1>2, <1>7 DEF Owned
<1>11. Counted
  <2>1. Cardinality({}) = 0
    BY FS_EmptySet
  <2>2. Len(list) = 0
    BY <1>1
  <2> QED
    BY <1>1, <1>8, <2>1, <2>2, VideoSurfaceAssumption DEF Counted
<1>12. Aimed /\ SetUp
  BY <1>1, <1>7 DEF Aimed, SetUp
<1> QED
  BY <1>4, <1>5, <1>6, <1>9, <1>10, <1>11, <1>12 DEF Types, Register

LEMMA StutterInv ==
  ASSUME Types, Register, UNCHANGED vars PROVE Types' /\ Register'
<1>1. UNCHANGED <<setup, list, status, paddr, rendmask, itask, gvslocal, came>>
  BY Zenon DEF vars, surfaces
<1>2. UNCHANGED <<cleanmask, fb, shown, vs, at, updated, init, cnt, pc, job>>
  BY Zenon DEF vars, device, display, control
<1>3. Types'
  BY <1>1, <1>2 DEF Types, Tables, Pictures, Courses, Buffers
<1>4. Listed' = Listed /\ Held' = Held /\ Busy' = Busy
  BY <1>1 DEF Listed, Held, Busy
<1>5. Moving' = Moving /\ Dying' = Dying
  BY <1>2 DEF Moving, Dying, InPass
<1>6. \A c \in Clients : (Moves(c)' <=> Moves(c)) /\ (Dies(c)' <=> Dies(c))
  BY <1>2 DEF Moves, Dies, InPass
<1>7. Known' /\ Counted'
  BY <1>1, <1>2, <1>4, <1>5 DEF Register, Known, Counted
<1>8. Owned'
  BY <1>1, <1>2, <1>6 DEF Register, Owned
<1>9. Aimed' /\ SetUp'
  BY <1>1, <1>2 DEF Register, Aimed, SetUp, Calm
<1> QED
  BY <1>3, <1>7, <1>8, <1>9 DEF Register

LEMMA InvHolds == Spec => []Inv
<1>1. ASSUME Inv, [Next]_vars
      PROVE  Types' /\ Register'
  <2>1. CASE UNCHANGED vars
    BY <1>1, <2>1, StutterInv DEF Inv
  <2>2. CASE Next
    <3>1. PICK c \in setup.users :
            Call(c) \/ RaiseAppend(c) \/ Enter(c) \/ Pending(c) \/ Pass(c)
      BY <2>2 DEF Next
    <3>2. /\ c \in Clients /\ UNCHANGED setup /\ Control /\ LockHeld
          /\ renderidx \in Buffers /\ Register /\ Types /\ Aimed
          /\ Tables /\ Courses
      BY <1>1, <2>2, <3>1, SetupTypes
         DEF Inv, IInv, Control, BuffersApart, Next, Register, Types
    <3>3. Types'
      BY <3>1, <3>2, CreateTypes, DestroyTypes, ConfigureTypes, RaiseTypes,
         RaiseAppendTypes, SubmitTypes, EnterTypes, SkipTypes, PaintTypes,
         MarkTypes, FlipTypes, PendingTypes, Zenon DEF Call, Pass
    <3>4. Register'
      BY <3>1, <3>2, CreateRegister, DestroyRegister, ConfigureRegister,
         RaiseRegister, RaiseAppendRegister, SubmitRegister, EnterRegister,
         PendingRegister, InPassRegister, FlipRegister, Zenon DEF Call, Pass
    <3> QED
      BY <3>3, <3>4
  <2> QED
    BY <1>1, <2>1, <2>2
<1>2. IInv /\ Types /\ Register /\ [Next]_vars => (Types /\ Register)'
  BY <1>1 DEF Inv
<1> QED
  BY <1>2, InitInv, IInvHolds, PTL DEF Spec, Inv

-------------------------------------------------------------------------------
(* The order of a list *)

InOrder(l, s, t) ==
  \E i, j \in 1 .. Len(l) : i < j /\ l[i] = s /\ l[j] = t

LEMMA OrderListed ==
  ASSUME NEW l, NEW s, NEW t, InOrder(l, s, t)
  PROVE  s \in Elements(l) /\ t \in Elements(l)
BY DEF InOrder, Elements

LEMMA OrderStrict ==
  ASSUME NEW S, NEW l \in Seq(S), Distinct(l)
  PROVE  /\ \A s : ~InOrder(l, s, s)
         /\ \A s, t, u : InOrder(l, s, t) /\ InOrder(l, t, u) => InOrder(l, s, u)
<1>1. Len(l) \in Nat
  OBVIOUS
<1>2. ASSUME NEW s, NEW t, NEW u, InOrder(l, s, t), InOrder(l, t, u)
      PROVE  InOrder(l, s, u)
  <2>1. PICK i \in 1 .. Len(l), j \in 1 .. Len(l) : i < j /\ l[i] = s /\ l[j] = t
    BY <1>2 DEF InOrder
  <2>2. PICK m \in 1 .. Len(l), k \in 1 .. Len(l) : m < k /\ l[m] = t /\ l[k] = u
    BY <1>2 DEF InOrder
  <2>3. m = j
    BY <2>1, <2>2 DEF Distinct
  <2>4. i < k
    BY <1>1, <2>1, <2>2, <2>3
  <2> QED
    BY <2>1, <2>2, <2>4 DEF InOrder
<1> QED
  BY <1>1, <1>2 DEF InOrder, Distinct

\* What is put at the end comes after the rest.
LEMMA OrderAppended ==
  ASSUME NEW S, NEW l \in Seq(S), NEW s \in S, NEW k, Extends(k, l, s)
  PROVE  \A x, y : InOrder(k, x, y) => x # s /\ (y # s => InOrder(l, x, y))
<1>1. /\ k \in Seq(S) /\ Len(k) = Len(l) + 1 /\ Len(l) \in Nat
      /\ k[Len(l) + 1] = s /\ \A i \in 1 .. Len(l) : k[i] = l[i] /\ l[i] # s
  BY DEF Extends, Elements
<1> SUFFICES ASSUME NEW x, NEW y, InOrder(k, x, y)
             PROVE  x # s /\ (y # s => InOrder(l, x, y))
  OBVIOUS
<1>2. PICK i \in 1 .. Len(k), j \in 1 .. Len(k) : i < j /\ k[i] = x /\ k[j] = y
  BY DEF InOrder
<1>3. i \in 1 .. Len(l)
  BY <1>1, <1>2
<1>4. y # s => j \in 1 .. Len(l)
  BY <1>1, <1>2
<1> QED
  BY <1>1, <1>2, <1>3, <1>4 DEF InOrder

\* To take one away leaves the others in their order.
LEMMA OrderUnlinked ==
  ASSUME NEW S, NEW l \in Seq(S), NEW s, NEW x, NEW y,
         InOrder(Unlink(l, s), x, y)
  PROVE  InOrder(l, x, y)
<1> DEFINE P == {j \in DOMAIN l : l[j] = s}
<1>1. CASE P = {}
  BY <1>1, Zenon DEF Unlink, Without
<1>2. CASE P # {}
  <2>1. PICK i \in 1 .. Len(l) : i = CHOOSE j \in P : TRUE
    BY <1>2
  <2>2. Unlink(l, s) = RemoveAt(l, i)
    BY <1>2, <2>1, Zenon DEF Unlink, Without
  <2>3. PICK k : k = RemoveAt(l, i)
    OBVIOUS
  <2>4. /\ Len(k) = Len(l) - 1 /\ Len(l) \in Nat
        /\ \A j \in 1 .. Len(k) : k[j] = IF j < i THEN l[j] ELSE l[j + 1]
    BY <2>3, RemovedAt
  <2>5. PICK m \in 1 .. Len(k), n \in 1 .. Len(k) : m < n /\ k[m] = x /\ k[n] = y
    BY <2>2, <2>3 DEF InOrder
  <2> DEFINE up(j) == IF j < i THEN j ELSE j + 1
  <2>6. /\ up(m) \in 1 .. Len(l) /\ up(n) \in 1 .. Len(l) /\ up(m) < up(n)
        /\ l[up(m)] = x /\ l[up(n)] = y
    BY <2>4, <2>5
  <2> QED
    BY <2>6 DEF InOrder
<1> QED
  BY <1>1, <1>2

LEMMA FirstIs ==
  ASSUME NEW S, NEW l \in Seq(S)
  PROVE  /\ l = <<>> => First(l) = None /\ Elements(l) = {}
         /\ l # <<>> => First(l) \in Elements(l)
         /\ \A t \in Elements(l) : t = First(l) \/ InOrder(l, First(l), t)
<1>1. Len(l) \in Nat /\ (l = <<>> <=> Len(l) = 0)
  OBVIOUS
<1>2. l # <<>> => 1 \in 1 .. Len(l) /\ First(l) = l[1]
  BY <1>1 DEF First
<1>3. ASSUME NEW t \in Elements(l)
      PROVE  t = First(l) \/ InOrder(l, First(l), t)
  <2>1. PICK j \in 1 .. Len(l) : l[j] = t
    BY DEF Elements
  <2>2. First(l) = l[1] /\ 1 \in 1 .. Len(l)
    BY <1>1, <1>2, <2>1
  <2>3. j # 1 => 1 < j
    BY <1>1, <2>1
  <2> QED
    BY <2>1, <2>2, <2>3 DEF InOrder
<1> QED
  BY <1>1, <1>2, <1>3 DEF Elements, First

\* NEXTSURFACE goes through the list in its order.
LEMMA NextIs ==
  ASSUME NEW S, list \in Seq(S), Distinct(list), NEW s \in Elements(list),
         NEW n, n = NextSurface(s), None \notin S
  PROVE  /\ n \in Elements(list) \cup {None}
         /\ \A t : InOrder(list, s, t) <=> t \in Elements(list) /\ (t = n \/ InOrder(list, n, t))
<1>1. PICK i \in 1 .. Len(list) : list[i] = s
  BY DEF Elements
<1>2. Len(list) \in Nat /\ \A j \in 1 .. Len(list) : list[j] \in S /\ (list[j] = s => j = i)
  BY <1>1 DEF Distinct
<1>3. CASE i = Len(list)
  <2>1. ~\E j \in 1 .. Len(list) - 1 : list[j] = s
    BY <1>1, <1>2, <1>3
  <2>2. n = None
    BY <2>1, Zenon DEF NextSurface
  <2>3. \A t : ~InOrder(list, s, t) /\ ~InOrder(list, n, t)
    BY <1>1, <1>2, <1>3, <2>2 DEF InOrder
  <2>4. None \notin Elements(list)
    BY <1>2 DEF Elements
  <2> QED
    BY <2>2, <2>3, <2>4
<1>4. CASE i # Len(list)
  <2>1. i \in 1 .. Len(list) - 1
    BY <1>1, <1>2, <1>4
  <2>2. PICK j \in 1 .. Len(list) - 1 :
          j = CHOOSE m \in 1 .. Len(list) - 1 : list[m] = s
    BY <1>1, <2>1
  <2>3. list[j] = s
    BY <1>1, <2>1, <2>2
  <2>4. j = i
    BY <1>2, <2>2, <2>3
  <2>5. n = list[j + 1]
    BY <1>1, <2>1, <2>2, Zenon DEF NextSurface
  <2>6. n = list[i + 1] /\ i + 1 \in 1 .. Len(list)
    BY <1>2, <2>1, <2>4, <2>5
  <2>7. ASSUME NEW t, InOrder(list, s, t)
        PROVE  t \in Elements(list) /\ (t = n \/ InOrder(list, n, t))
    <3>1. PICK a \in 1 .. Len(list), b \in 1 .. Len(list) : a < b /\ list[a] = s /\ list[b] = t
      BY <2>7 DEF InOrder
    <3>2. a = i /\ (b = i + 1 \/ i + 1 < b)
      BY <1>2, <3>1
    <3> QED
      BY <2>6, <3>1, <3>2 DEF InOrder, Elements
  <2>8. ASSUME NEW t, t = n \/ InOrder(list, n, t)
        PROVE  InOrder(list, s, t)
    <3>1. InOrder(list, s, n)
      BY <1>1, <1>2, <2>6 DEF InOrder
    <3> QED
      BY <2>8, <3>1, OrderStrict
  <2> QED
    BY <2>6, <2>7, <2>8 DEF Elements
<1> QED
  BY <1>3, <1>4

-------------------------------------------------------------------------------
(* What is painted in a buffer *)

\* l shows no surface twice
Single(l) == \A i, j \in DOMAIN l : l[i].surface = l[j].surface => i = j

\* l shows s
Depicts(l, s) == \E i \in DOMAIN l : l[i].surface = s

\* l shows s with frame f
DepictsFrame(l, s, f) == \E i \in DOMAIN l : l[i] = [surface |-> s, frame |-> f]

\* l shows t in front of s, if it shows both
Above(l, s, t) ==
  \A i, j \in DOMAIN l : l[i].surface = s /\ l[j].surface = t => i < j

\* k is what is left of l without its place i: two places come from two others,
\* in the same order.
RestOf(k, l, i) ==
  /\ \A j, m \in DOMAIN k : \E a, b \in DOMAIN l :
       /\ a # i /\ b # i /\ k[j] = l[a] /\ k[m] = l[b]
       /\ (a < b => j < m) /\ (a = b => j = m)
  /\ \A j \in DOMAIN l : j # i => \E m \in DOMAIN k : k[m] = l[j]

LEMMA CutOut ==
  ASSUME NEW S, NEW l \in Seq(S), NEW i \in DOMAIN l, NEW k, k = RemoveAt(l, i)
  PROVE  RestOf(k, l, i)
<1>1. DOMAIN l = 1 .. Len(l) /\ Len(l) \in Nat
  OBVIOUS
<1>2. i \in 1 .. Len(l)
  BY <1>1
<1>3. /\ k \in Seq(S) /\ Len(k) = Len(l) - 1
      /\ \A j \in 1 .. Len(k) : k[j] = IF j < i THEN l[j] ELSE l[j + 1]
  BY <1>2, RemovedAt
<1>4. DOMAIN k = 1 .. Len(l) - 1
  BY <1>1, <1>3
<1>5. ASSUME NEW j \in DOMAIN k
      PROVE  \E a \in DOMAIN l : a # i /\ k[j] = l[a] /\ a = IF j < i THEN j ELSE j + 1
  <2>1. CASE j < i
    BY <1>1, <1>2, <1>3, <1>4, <2>1
  <2>2. CASE ~(j < i)
    <3>1. j + 1 \in DOMAIN l /\ j + 1 # i /\ k[j] = l[j + 1]
      BY <1>1, <1>2, <1>3, <1>4, <2>2
    <3> QED
      BY <2>2, <3>1
  <2> QED
    BY <2>1, <2>2
<1>6. ASSUME NEW j \in DOMAIN k, NEW m \in DOMAIN k
      PROVE  \E a, b \in DOMAIN l :
               /\ a # i /\ b # i /\ k[j] = l[a] /\ k[m] = l[b]
               /\ (a < b => j < m) /\ (a = b => j = m)
  <2>1. PICK a \in DOMAIN l :
          a # i /\ k[j] = l[a] /\ a = IF j < i THEN j ELSE j + 1
    BY <1>5
  <2>2. PICK b \in DOMAIN l :
          b # i /\ k[m] = l[b] /\ b = IF m < i THEN m ELSE m + 1
    BY <1>5
  <2>3. i \in Int /\ j \in Int /\ m \in Int
    BY <1>2, <1>4
  <2>4. (a < b => j < m) /\ (a = b => j = m)
    BY <2>1, <2>2, <2>3
  <2> QED
    BY <2>1, <2>2, <2>4
<1>7. ASSUME NEW j \in DOMAIN l, j # i
      PROVE  \E m \in DOMAIN k : k[m] = l[j]
  <2>1. CASE j < i
    <3>1. j \in DOMAIN k /\ k[j] = l[j]
      BY <1>1, <1>2, <1>3, <1>4, <2>1
    <3> QED
      BY <3>1
  <2>2. CASE ~(j < i)
    <3>1. j - 1 \in DOMAIN k /\ ~(j - 1 < i) /\ (j - 1) + 1 = j
      BY <1>1, <1>2, <1>4, <1>7, <2>2
    <3>2. k[j - 1] = l[j]
      BY <1>3, <1>1, <1>4, <3>1
    <3> QED
      BY <3>1, <3>2
  <2> QED
    BY <2>1, <2>2
<1> QED
  BY <1>6, <1>7 DEF RestOf

\* l without the surface s
Wiped(k, l, s) ==
  /\ Single(k) /\ ~Depicts(k, s)
  /\ \A t : Depicts(k, t) => Depicts(l, t)
  /\ \A t, f : t # s /\ DepictsFrame(l, t, f) => DepictsFrame(k, t, f)
  /\ \A t, u : Above(l, t, u) => Above(k, t, u)

LEMMA RestSingle ==
  ASSUME NEW k, NEW l, NEW i, RestOf(k, l, i), Single(l)
  PROVE  Single(k)
<1> SUFFICES ASSUME NEW j \in DOMAIN k, NEW m \in DOMAIN k, k[j].surface = k[m].surface
             PROVE  j = m
  BY DEF Single
<1>1. PICK a \in DOMAIN l, b \in DOMAIN l :
        k[j] = l[a] /\ k[m] = l[b] /\ (a = b => j = m)
  BY DEF RestOf
<1>2. a = b
  BY <1>1, Zenon DEF Single
<1> QED
  BY <1>1, <1>2

LEMMA WithoutSurface ==
  ASSUME NEW l \in Painting, Single(l), NEW s,
         NEW P, P = {i \in DOMAIN l : l[i].surface = s}, NEW k, k = Without(l, P)
  PROVE  k \in Painting /\ Wiped(k, l, s)
<1>1. CASE P = {}
  <2>1. k = l
    BY <1>1, Zenon DEF Without
  <2> QED
    BY <1>1, <2>1 DEF Depicts, Wiped
<1>2. CASE P # {}
  <2>1. PICK i \in P : i = (CHOOSE j \in P : TRUE)
    BY <1>2
  <2>2. k = RemoveAt(l, i)
    BY <1>2, <2>1, Zenon DEF Without
  <2>4. i \in DOMAIN l /\ l[i].surface = s
    BY <2>1
  <2>5. k \in Painting
    BY WithoutType DEF Painting
  <2>6. RestOf(k, l, i)
    <3>1. PICK R : R = [surface : Surfaces, frame : Frames]
      OBVIOUS
    <3>2. l \in Seq(R)
      BY <3>1 DEF Painting
    <3> QED
      BY <2>2, <2>4, <3>2, CutOut
  <2>8. Single(k)
    BY <2>6, RestSingle
  <2>9. \A j \in DOMAIN k : \E a \in DOMAIN l : a # i /\ k[j] = l[a]
    BY <2>6 DEF RestOf
  <2>10. ~Depicts(k, s)
    BY <2>4, <2>9 DEF Single, Depicts
  <2>11. ASSUME NEW t, Depicts(k, t)
         PROVE  Depicts(l, t)
    BY <2>9, <2>11 DEF Depicts
  <2>12. ASSUME NEW t, NEW f, t # s, DepictsFrame(l, t, f)
         PROVE  DepictsFrame(k, t, f)
    <3>1. PICK j \in DOMAIN l : l[j] = [surface |-> t, frame |-> f]
      BY <2>12 DEF DepictsFrame
    <3>2. j # i
      BY <2>4, <2>12, <3>1
    <3>3. PICK m \in DOMAIN k : k[m] = l[j]
      BY <2>6, <3>2, Zenon DEF RestOf
    <3>4. k[m] = [surface |-> t, frame |-> f]
      BY <3>1, <3>3, Zenon
    <3> QED
      BY <3>4, Zenon DEF DepictsFrame
  <2>13. ASSUME NEW t, NEW u, Above(l, t, u)
         PROVE  Above(k, t, u)
    <3> SUFFICES ASSUME NEW j \in DOMAIN k, NEW m \in DOMAIN k,
                        k[j].surface = t, k[m].surface = u
                 PROVE  j < m
      BY DEF Above
    <3>1. PICK a \in DOMAIN l, b \in DOMAIN l :
            k[j] = l[a] /\ k[m] = l[b] /\ (a < b => j < m)
      BY <2>6, Zenon DEF RestOf
    <3> QED
      BY <2>13, <3>1 DEF Above
  <2> QED
    BY <2>5, <2>8, <2>10, <2>11, <2>12, <2>13 DEF Wiped
<1> QED
  BY <1>1, <1>2

\* To paint a surface puts it in front of all the others, with its frame.
InFront(k, l, s, f) ==
  /\ Single(k) /\ DepictsFrame(k, s, f)
  /\ \A t : Depicts(k, t) => t = s \/ Depicts(l, t)
  /\ \A t, g : t # s /\ DepictsFrame(l, t, g) => DepictsFrame(k, t, g)
  /\ \A t, u : t # s /\ u # s /\ Above(l, t, u) => Above(k, t, u)
  /\ \A t : t # s => Above(k, t, s)

LEMMA PaintedIs ==
  ASSUME NEW l \in Painting, Single(l), NEW s \in Surfaces, NEW f \in Frames,
         f = paddr[s], NEW k, k = PaintedOver(l, s)
  PROVE  InFront(k, l, s, f)
<1> DEFINE p == [surface |-> s, frame |-> f]
<1>15. PICK P : P = {i \in DOMAIN l : l[i].surface = s}
  OBVIOUS
<1>1. PICK m : m = Without(l, P)
  OBVIOUS
<1>2. m \in Painting /\ Wiped(m, l, s)
  BY <1>1, <1>15, WithoutSurface, Zenon
<1>3. k = Append(m, p)
  BY <1>1, <1>15, Zenon DEF PaintedOver
<1>4. /\ DOMAIN m = 1 .. Len(m) /\ Len(m) \in Nat /\ DOMAIN k = 1 .. Len(m) + 1
      /\ k[Len(m) + 1] = p /\ \A i \in DOMAIN m : k[i] = m[i]
  BY <1>2, <1>3 DEF Painting
<1>5. p.surface = s
  OBVIOUS
<1>6. \A i \in DOMAIN k : i \in DOMAIN m \/ (i = Len(m) + 1 /\ k[i] = p)
  BY <1>4
<1>7. \A i \in DOMAIN m : m[i].surface # s
  BY <1>2 DEF Depicts, Wiped
<1>8. Len(m) + 1 \in DOMAIN k /\ \A i \in DOMAIN m : i \in DOMAIN k /\ i < Len(m) + 1
  BY <1>4
<1>9. Single(k)
  BY <1>2, <1>4, <1>5, <1>6, <1>7 DEF Single, Wiped
<1>10. DepictsFrame(k, s, f)
  BY <1>4, <1>8 DEF DepictsFrame
<1>11. \A t : Depicts(k, t) => t = s \/ Depicts(l, t)
  BY <1>2, <1>4, <1>5, <1>6 DEF Depicts, Wiped
<1>12. ASSUME NEW t, NEW g, t # s, DepictsFrame(l, t, g)
       PROVE  DepictsFrame(k, t, g)
  BY <1>2, <1>4, <1>8, <1>12 DEF DepictsFrame, Wiped
<1>13. ASSUME NEW t, NEW u, t # s, u # s, Above(l, t, u)
       PROVE  Above(k, t, u)
  <2>1. Above(m, t, u)
    BY <1>2, <1>13 DEF Wiped
  <2> QED
    BY <1>4, <1>5, <1>6, <1>13, <2>1 DEF Above
<1>14. ASSUME NEW t, t # s
       PROVE  Above(k, t, s)
  BY <1>4, <1>5, <1>6, <1>7, <1>8, <1>14 DEF Above
<1> QED
  BY <1>9, <1>10, <1>11, <1>12, <1>13, <1>14 DEF InFront

-------------------------------------------------------------------------------
(* What a pass owes the screen *)

\* The surfaces that the pass of c has still to come to.
Left(c) ==
  {t \in Listed : InOrder(list, at[c], t) \/ (t = at[c] /\ pc[c] = "draw")}

\* A pass that refreshes all will draw s again.
Redo(s) == \E c \in Clients : InPass(c) /\ job[c] # "render" /\ s \in Left(c)

\* A pass has painted in buffer b, has passed s by and is still to come to t,
\* which it will paint again, in front.
Due(b, s, t) ==
  \E c \in Clients :
    InPass(c) /\ b = renderidx /\ updated[c] /\ s \notin Left(c) /\ t \in Left(c)

Visible(s) == status[s] = "visible"

Clear(s) == Visible(s) /\ came[s] = "clear"

Fresh(b, s) == DepictsFrame(fb[b], s, paddr[s])

\* A buffer shows a surface once, and none that is gone unless it is to be
\* cleaned; a surface that was painted has a frame.
Once == \A b \in Buffers : Single(fb[b])

NoGhosts == \A b \in Buffers \ cleanmask, s \in Surfaces : Depicts(fb[b], s) => s \in Held

Framed ==
  /\ \A b \in Buffers, s \in Surfaces : Depicts(fb[b], s) => paddr[s] # None
  /\ \A s \in Surfaces : came[s] # "never" => paddr[s] # None
  /\ \A s \in Surfaces : Visible(s) => itask[s]

\* What rendmask says of a surface is so, unless it is painted again anyway.
UpToDate ==
  \A s \in Listed, b \in Buffers :
    b \in rendmask[s] /\ came[s] # "never" /\ ~Redo(s)
      => b \notin cleanmask /\ (Clear(s) => Fresh(b, s))

Layered ==
  \A b \in Buffers \ cleanmask, s, t \in Listed :
    /\ InOrder(list, s, t) /\ Visible(s) /\ Visible(t)
    /\ b \in rendmask[s] \cap rendmask[t]
    /\ ~Redo(s) /\ ~Redo(t) /\ ~Due(b, s, t)
    => Above(fb[b], s, t)

Waiting ==
  \A c \in Clients : pc[c] = "enter"
    => vs[c] \in gvslocal[c] /\ Visible(vs[c]) /\ came[vs[c]] # "never"

\* A pass is at a surface of the list, or at its end.
OnList(c) ==
  /\ at[c] \in Listed \cup {None}
  /\ pc[c] = "mark" => at[c] # None /\ updated[c]

\* It cleans the buffer before it shows it.
Cleans(c) ==
  /\ updated[c] => renderidx \notin cleanmask
  /\ job[c] # "render" => Listed # {} /\ (Left(c) # Listed => updated[c])
  /\ job[c] = "render" =>
       /\ vs[c] \in Listed /\ Visible(vs[c]) /\ came[vs[c]] # "never"
       /\ vs[c] \notin Left(c) => renderidx \notin cleanmask

\* It has marked what it has passed by.
Visited(c) ==
  \A s \in Listed \ Left(c) :
    Clear(s) /\ ~(pc[c] = "mark" /\ s = at[c]) => renderidx \in rendmask[s]

\* What it has just painted is in front.
JustPainted(c) ==
  pc[c] = "mark" /\ Visible(at[c]) =>
    /\ \A s \in Surfaces : s # at[c] => Above(fb[renderidx], s, at[c])
    /\ came[at[c]] = "clear" => Fresh(renderidx, at[c])

Walk(c) == OnList(c) /\ Cleans(c) /\ Visited(c) /\ JustPainted(c)

Painted == Once /\ NoGhosts /\ Framed /\ UpToDate /\ Layered

Drawing == Painted /\ Waiting /\ \A c \in Clients : InPass(c) => Walk(c)

-------------------------------------------------------------------------------
(* One pass at a time *)

LEMMA OnePassAtATime ==
  ASSUME Inv, Calm, NEW c \in Clients, InPass(c)
  PROVE  /\ \A d \in Clients : InPass(d) => d = c
         /\ Moving = {} /\ Listed = Held
         /\ ~setup.layers => lock = c
<1>1. Control /\ LockHeld /\ SetUp /\ Known
  BY DEF Inv, IInv, Register
<1>2. setup.layers \in BOOLEAN
  BY <1>1, SetupTypes DEF Control
<1>3. \A d \in Clients : InPass(d) \/ Moves(d) => d \in setup.users
  BY <1>1 DEF SetUp, InPass, Moves
<1>4. \A d \in Clients : InPass(d) \/ Moves(d) => d = c /\ ~Moves(d)
  <2>1. CASE setup.layers
    BY <1>3, <2>1 DEF Calm, InPass, Moves
  <2>2. CASE ~setup.layers
    BY <1>1, <2>2 DEF LockHeld, Moves
  <2> QED
    BY <1>2, <2>1, <2>2
<1>5. Moving = {}
  BY <1>4, MovingIs
<1> QED
  BY <1>1, <1>4, <1>5 DEF Known, LockHeld

LEMMA NobodyDraws ==
  ASSUME Inv, Calm, NEW c \in Clients, c \in setup.users, ~InPass(c),
         lock = None \/ setup.layers
  PROVE  \A d \in Clients : ~InPass(d)
<1>1. Control /\ LockHeld /\ SetUp
  BY DEF Inv, IInv, Register
<1>2. setup.layers \in BOOLEAN
  BY <1>1, SetupTypes DEF Control
<1>3. CASE setup.layers
  BY <1>1, <1>3 DEF SetUp, Calm, InPass
<1>4. CASE ~setup.layers
  BY <1>1, <1>4, VideoSurfaceAssumption DEF LockHeld
<1> QED
  BY <1>2, <1>3, <1>4

LEMMA NothingDue ==
  (\A d \in Clients : ~InPass(d))
    => (\A s : ~Redo(s)) /\ (\A b, s, t : ~Due(b, s, t))
BY DEF Redo, Due

LEMMA NothingDueNext ==
  (\A d \in Clients : ~InPass(d)')
    => (\A s : ~Redo(s)') /\ (\A b, s, t : ~Due(b, s, t)')
BY DEF Redo, Due

LEMMA DueIs ==
  \A c \in Clients :
    InPass(c) /\ (\A d \in Clients : InPass(d) => d = c) =>
      /\ \A s : Redo(s) <=> job[c] # "render" /\ s \in Left(c)
      /\ \A b, s, t : Due(b, s, t) <=>
           b = renderidx /\ updated[c] /\ s \notin Left(c) /\ t \in Left(c)
BY DEF Redo, Due

LEMMA DueIsNext ==
  \A c \in Clients :
    InPass(c)' /\ (\A d \in Clients : InPass(d)' => d = c) =>
      /\ \A s : Redo(s)' <=> job'[c] # "render" /\ s \in Left(c)'
      /\ \A b, s, t : Due(b, s, t)' <=>
           b = renderidx' /\ updated'[c] /\ s \notin Left(c)' /\ t \in Left(c)'
BY DEF Redo, Due

\* What is left to do is at the end of the list.
LEMMA LeftIs ==
  ASSUME Tables, Known, NEW c \in Clients, OnList(c)
  PROVE  /\ Left(c) \subseteq Listed /\ Listed \subseteq Surfaces
         /\ \A s, t : s \in Left(c) /\ InOrder(list, s, t) => t \in Left(c)
         /\ at[c] = None => Left(c) = {}
         /\ pc[c] = "draw" /\ at[c] # None => at[c] \in Left(c)
         /\ pc[c] = "mark" => at[c] \in Listed /\ at[c] \notin Left(c)
         /\ \A t : InOrder(list, at[c], t) => t \in Left(c)
<1>1. list \in Seq(Surfaces) /\ Distinct(list)
  BY DEF Tables, Known
<1>2. Listed \subseteq Surfaces
  BY <1>1, ElementsAre DEF Listed
<1>3. \A s, t : InOrder(list, s, t) => s \in Listed /\ t \in Listed
  BY OrderListed DEF Listed
<1>4. /\ \A s : ~InOrder(list, s, s)
      /\ \A s, t, u : InOrder(list, s, t) /\ InOrder(list, t, u) => InOrder(list, s, u)
  BY <1>1, OrderStrict
<1>5. None \notin Surfaces
  BY VideoSurfaceAssumption DEF Surfaces
<1>6. \A t : InOrder(list, at[c], t) => t \in Left(c)
  BY <1>3 DEF Left
<1>7. \A s, t : s \in Left(c) /\ InOrder(list, s, t) => t \in Left(c)
  BY <1>3, <1>4 DEF Left
<1>8. at[c] = None => Left(c) = {}
  BY <1>2, <1>3, <1>5 DEF Left
<1>9. pc[c] = "draw" /\ at[c] # None => at[c] \in Left(c)
  BY DEF Left, OnList
<1>10. pc[c] = "mark" => at[c] \in Listed /\ at[c] \notin Left(c)
  BY <1>4 DEF Left, OnList
<1> QED
  BY <1>2, <1>6, <1>7, <1>8, <1>9, <1>10 DEF Left

\* NEXTSURFACE leaves behind where it was.
LEMMA LeftMoves ==
  ASSUME Tables, Known, NEW c \in Clients, at[c] \in Listed, list' = list,
         at'[c] = NextSurface(at[c]), pc'[c] = "draw"
  PROVE  /\ Left(c)' = IF pc[c] = "draw" THEN Left(c) \ {at[c]}
                       ELSE {t \in Listed : InOrder(list, at[c], t)}
         /\ at'[c] \in Listed \cup {None}
<1>1. PICK s : s = at[c]
  OBVIOUS
<1>2. PICK n : n = NextSurface(s)
  OBVIOUS
<1>3. None \notin Surfaces
  BY VideoSurfaceAssumption DEF Surfaces
<1>4. list \in Seq(Surfaces) /\ Distinct(list) /\ s \in Elements(list)
  BY <1>1 DEF Tables, Known, Listed
<1>5. /\ n \in Elements(list) \cup {None}
      /\ \A t : InOrder(list, s, t) <=> t \in Elements(list) /\ (t = n \/ InOrder(list, n, t))
  BY <1>2, <1>3, <1>4, NextIs
<1>6. \A t : ~InOrder(list, t, t)
  BY <1>4, OrderStrict
<1>7. Left(c)' = {t \in Listed : InOrder(list, n, t) \/ t = n}
  BY <1>1, <1>2 DEF Left, Listed
<1>8. Left(c)' = {t \in Listed : InOrder(list, s, t)}
  BY <1>5, <1>7 DEF Listed
<1>9. pc[c] = "draw" => Left(c) \ {s} = {t \in Listed : InOrder(list, s, t)}
  BY <1>1, <1>6 DEF Left
<1> QED
  BY <1>1, <1>2, <1>5, <1>8, <1>9 DEF Listed

-------------------------------------------------------------------------------
(* The drawing, action by action *)

LEMMA InitDrawing == Init => Drawing
<1> SUFFICES ASSUME Init PROVE Drawing
  OBVIOUS
<1>1. /\ list = <<>> /\ \A c \in Clients : pc[c] = "idle"
      /\ \A b \in Buffers : fb[b] = <<>>
  BY DEF Init
<1>2. \A s \in Surfaces : status[s] = "idle" /\ came[s] = "never"
  BY DEF Init
<1>3. Listed = {}
  BY <1>1 DEF Listed, Elements
<1>4. Once /\ NoGhosts /\ \A b \in Buffers, s \in Surfaces : ~Depicts(fb[b], s)
  BY <1>1 DEF Once, NoGhosts, Single, Depicts
<1>5. Framed
  BY <1>2, <1>4 DEF Framed, Visible
<1>6. UpToDate /\ Layered
  BY <1>3 DEF UpToDate, Layered
<1>7. Waiting /\ \A c \in Clients : ~InPass(c)
  BY <1>1 DEF Waiting, InPass
<1> QED
  BY <1>4, <1>5, <1>6, <1>7 DEF Drawing, Painted

LEMMA CreateDrawing ==
  ASSUME Inv, Calm, Drawing, NEW c \in Clients, c \in setup.users,
         UNCHANGED setup, Create(c)
  PROVE  Drawing'
<1>1. PICK s \in Surfaces, st \in Placed :
        /\ status[s] = "idle"
        /\ status' = [status EXCEPT ![s] = st]
        /\ itask' = [itask EXCEPT ![s] = st = "visible"]
        /\ came' = [came EXCEPT ![s] = "never"]
        /\ list' = Append(list, s)
        /\ gvslocal' = [gvslocal EXCEPT ![c] = @ \cup {s}]
  BY Zenon DEF Create
<1>2. /\ pc[c] = "idle" /\ lock = None
      /\ UNCHANGED <<paddr, rendmask, renderidx, cleanmask, fb, pc, vs>>
  BY Zenon DEF Create, display, control
<1>3. Tables /\ Known /\ Owned
  BY DEF Inv, Types, Register
<1>4. \A t \in Surfaces : t # s => /\ status'[t] = status[t] /\ itask'[t] = itask[t]
                                   /\ came'[t] = came[t]
  BY <1>1, <1>3 DEF Tables
<1>5. came'[s] = "never" /\ status'[s] = st /\ itask'[s] = (st = "visible")
  BY <1>1, <1>3 DEF Tables
<1>6. s \notin Held /\ s \notin Listed
  BY <1>1, <1>3 DEF Known, Busy
<1>7. \A d \in Clients : gvslocal[d] \subseteq gvslocal'[d]
  BY <1>1, <1>3 DEF Tables
<1>8. Held \subseteq Held'
  BY <1>7 DEF Held
<1>9. \A d \in Clients : ~InPass(d)
  BY <1>2, NobodyDraws DEF InPass
<1>10. \A d \in Clients : ~InPass(d)'
  BY <1>2, <1>9 DEF InPass
<1>11. PICK k : k = list'
  OBVIOUS
<1>12. Extends(k, list, s) /\ list \in Seq(Surfaces) /\ Distinct(list)
  BY <1>1, <1>3, <1>6, <1>11 DEF Extends, Listed, Tables, Known
<1>13. Longer(k, list, s)
  BY <1>12, Appended, Zenon
<1>14. Listed' = Listed \cup {s} /\ Listed \subseteq Surfaces
  BY <1>11, <1>12, <1>13, ElementsAre DEF Longer, Listed
<1>15. \A x, y : InOrder(list', x, y) => x # s /\ (y # s => InOrder(list, x, y))
  BY <1>11, <1>12, OrderAppended, Zenon
<1>16. Buffers' = Buffers
  BY DEF Buffers
<1>17. (\A t : ~Redo(t)) /\ (\A b, t, u : ~Due(b, t, u))
  BY <1>9, NothingDue
<1>18. Once' /\ NoGhosts'
  BY <1>2, <1>8, <1>16 DEF Drawing, Painted, Once, NoGhosts
<1>19. Framed'
  <2>1. \A t \in Surfaces : came'[t] # "never" => came[t] # "never"
    BY <1>4, <1>5
  <2>2. \A t \in Surfaces : Visible(t)' => itask'[t]
    BY <1>4, <1>5 DEF Drawing, Painted, Framed, Visible
  <2> QED
    BY <1>2, <1>16, <2>1, <2>2 DEF Drawing, Painted, Framed
<1>20. UpToDate'
  <2> SUFFICES ASSUME NEW t \in Listed', NEW b \in Buffers, b \in rendmask[t],
                      came'[t] # "never"
               PROVE  b \notin cleanmask /\ (Clear(t)' => Fresh(b, t)')
    BY <1>2, <1>16 DEF UpToDate
  <2>1. t \in Listed /\ t # s /\ t \in Surfaces
    BY <1>5, <1>14
  <2>2. came'[t] = came[t] /\ (Clear(t)' => Clear(t)) /\ (Fresh(b, t) => Fresh(b, t)')
    BY <1>2, <1>4, <2>1 DEF Clear, Visible, Fresh
  <2> QED
    BY <1>17, <2>1, <2>2 DEF Drawing, Painted, UpToDate
<1>21. Layered'
  <2> SUFFICES ASSUME NEW b \in Buffers \ cleanmask, NEW x \in Listed', NEW y \in Listed',
                      InOrder(list', x, y), Visible(x)', Visible(y)',
                      b \in rendmask[x] \cap rendmask[y]
               PROVE  Above(fb[b], x, y)
    BY <1>2, <1>16 DEF Layered
  <2>1. CASE y = s
    BY <1>6, <2>1 DEF Drawing, Painted, NoGhosts, Depicts, Above
  <2>2. CASE y # s
    <3>1. x # s /\ InOrder(list, x, y)
      BY <1>15, <2>2
    <3>2. x \in Listed /\ y \in Listed /\ Visible(x) /\ Visible(y)
      BY <1>4, <1>14, <2>2, <3>1 DEF Visible
    <3> QED
      BY <1>17, <3>1, <3>2 DEF Drawing, Painted, Layered
  <2> QED
    BY <2>1, <2>2
<1>22. Waiting'
  <2> SUFFICES ASSUME NEW d \in Clients, pc[d] = "enter"
               PROVE  /\ vs[d] \in gvslocal'[d] /\ status'[vs[d]] = "visible"
                      /\ came'[vs[d]] # "never"
    BY <1>2 DEF Waiting, Visible
  <2>1. vs[d] \in gvslocal[d] /\ Visible(vs[d]) /\ came[vs[d]] # "never"
    BY DEF Drawing, Waiting
  <2>2. vs[d] \in Held /\ vs[d] \in Surfaces
    BY <1>3, <2>1 DEF Held, Tables
  <2> QED
    BY <1>4, <1>6, <1>7, <2>1, <2>2 DEF Visible
<1> QED
  BY <1>10, <1>18, <1>19, <1>20, <1>21, <1>22 DEF Drawing, Painted

\* A window leaves the list before it is put on top.
LEMMA RaiseDrawing ==
  ASSUME Inv, Calm, Drawing, NEW c \in Clients, c \in setup.users,
         UNCHANGED setup, NEW s \in Surfaces, Raise(c, s)
  PROVE  Drawing'
<1>1. /\ setup.layers /\ pc[c] = "idle" /\ list' = Unlink(list, s)
      /\ pc' = [pc EXCEPT ![c] = "append"] /\ vs' = [vs EXCEPT ![c] = s]
      /\ s \in gvslocal[c]
      /\ UNCHANGED <<status, paddr, rendmask, itask, gvslocal, renderidx,
                     cleanmask, fb, came>>
  BY Zenon DEF Raise, Goto, device, display
<1>2. Tables /\ Known /\ Owned /\ Courses /\ Control
  BY DEF Inv, IInv, Types, Register
<1>3. \A d \in Clients : ~InPass(d)
  BY <1>1, NobodyDraws DEF InPass
<1>4. pc'[c] = "append" /\ \A d \in Clients : d # c => pc'[d] = pc[d] /\ vs'[d] = vs[d]
  BY <1>1, <1>2 DEF Control, Courses
<1>5. \A d \in Clients : ~InPass(d)'
  BY <1>3, <1>4 DEF InPass
<1>6. Listed' \subseteq Listed
  <2>1. s \in Listed
    BY <1>1, <1>2, HeldIsListed DEF Moves
  <2>2. PICK k : k = Unlink(list, s)
    OBVIOUS
  <2>3. list \in Seq(Surfaces) /\ Distinct(list) /\ s \in Elements(list)
    BY <1>2, <2>1 DEF Tables, Known, Listed
  <2>4. Elements(k) = Elements(list) \ {s}
    BY <2>2, <2>3, Unlinked, Zenon
  <2> QED
    BY <1>1, <2>2, <2>4 DEF Listed
<1>7. \A x, y : InOrder(list', x, y) => InOrder(list, x, y)
  BY <1>1, <1>2, OrderUnlinked DEF Tables
<1>8. Buffers' = Buffers /\ Held' = Held
  BY <1>1 DEF Buffers, Held
<1>9. (\A t : ~Redo(t)) /\ (\A b, t, u : ~Due(b, t, u))
  BY <1>3, NothingDue
<1>10. Once' /\ NoGhosts' /\ Framed'
  BY <1>1, <1>8 DEF Drawing, Painted, Once, NoGhosts, Framed, Visible
<1>11. UpToDate'
  <2> SUFFICES ASSUME NEW t \in Listed, NEW b \in Buffers, b \in rendmask[t],
                      came[t] # "never"
               PROVE  b \notin cleanmask /\ (Clear(t) => Fresh(b, t))
    BY <1>1, <1>6, <1>8 DEF UpToDate, Clear, Visible, Fresh
  <2> QED
    BY <1>9 DEF Drawing, Painted, UpToDate
<1>12. Layered'
  <2> SUFFICES ASSUME NEW b \in Buffers \ cleanmask, NEW x \in Listed, NEW y \in Listed,
                      InOrder(list, x, y), Visible(x), Visible(y),
                      b \in rendmask[x] \cap rendmask[y]
               PROVE  Above(fb[b], x, y)
    BY <1>1, <1>6, <1>7, <1>8 DEF Layered, Visible
  <2> QED
    BY <1>9 DEF Drawing, Painted, Layered
<1>13. Waiting'
  BY <1>1, <1>4 DEF Drawing, Waiting, Visible
<1> QED
  BY <1>5, <1>10, <1>11, <1>12, <1>13 DEF Drawing, Painted

LEMMA FirstLeft ==
  ASSUME list' \in Seq(Surfaces), NEW c \in Clients, pc'[c] = "draw",
         at'[c] = First(list')
  PROVE  Left(c)' = Listed' /\ at'[c] \in Listed' \cup {None}
<1>1. PICK l : l = list'
  OBVIOUS
<1>2. PICK a : a = First(l)
  OBVIOUS
<1>3. /\ l = <<>> => a = None /\ Elements(l) = {}
      /\ l # <<>> => a \in Elements(l)
      /\ \A t \in Elements(l) : t = a \/ InOrder(l, a, t)
  BY <1>1, <1>2, FirstIs
<1>4. Left(c)' = {t \in Elements(l) : InOrder(l, a, t) \/ t = a}
  BY <1>1, <1>2 DEF Left, Listed
<1> QED
  BY <1>1, <1>2, <1>3, <1>4 DEF Listed

\* What a pass begins with.
Begins(c, j, s, l) ==
  /\ pc'[c] = "draw" /\ job'[c] = j /\ vs'[c] = s /\ at'[c] = First(l)
  /\ ~updated'[c]
  /\ \A d \in Clients : d # c => pc'[d] = pc[d] /\ vs'[d] = vs[d]
  /\ \A t \in Surfaces : /\ came'[t] = "never" <=> came[t] = "never"
                         /\ came'[t] = "clear" <=> came[t] = "clear"

LEMMA PassBegins ==
  ASSUME Inv, NEW c \in Clients, NEW j, NEW s, NEW l, StartPass(c, j, s, l)
  PROVE  Begins(c, j, s, l)
<1>1. /\ pc' = [pc EXCEPT ![c] = "draw"] /\ job' = [job EXCEPT ![c] = j]
      /\ vs' = [vs EXCEPT ![c] = s] /\ at' = [at EXCEPT ![c] = First(l)]
      /\ updated' = [updated EXCEPT ![c] = FALSE]
      /\ came' = [t \in Surfaces |-> IF came[t] = "now" THEN "past" ELSE came[t]]
  BY Zenon DEF StartPass, Goto
<1>2. Control /\ Courses
  BY DEF Inv, IInv, Types
<1>3. PICK a : a = First(l)
  OBVIOUS
<1>4. pc'[c] = "draw" /\ job'[c] = j /\ vs'[c] = s /\ at'[c] = a
  BY <1>1, <1>2, <1>3 DEF Control, Courses
<1>5. updated'[c] = FALSE
  BY <1>1, <1>2, Zenon DEF Courses
<1>6. \A d \in Clients : d # c => pc'[d] = pc[d] /\ vs'[d] = vs[d]
  BY <1>1, <1>2 DEF Control, Courses
<1>7. \A t \in Surfaces : /\ came'[t] = "never" <=> came[t] = "never"
                          /\ came'[t] = "clear" <=> came[t] = "clear"
  BY <1>1
<1> QED
  BY <1>3, <1>4, <1>5, <1>6, <1>7 DEF Begins

\* A pass that draws everything again: what rendmask says does not matter.
LEMMA RefreshBegins ==
  ASSUME Inv', Drawing, NEW c \in Clients, \A d \in Clients : ~InPass(d),
         NEW j \in {"config", "destroy", "layer"}, NEW s, NEW l, l = list', l # <<>>,
         Begins(c, j, s, l),
         UNCHANGED <<setup, paddr, fb>>, cleanmask \subseteq cleanmask',
         Held' \subseteq Held, Held \ Held' # {} => cleanmask' = Buffers,
         \A t \in Surfaces : Visible(t)' => itask'[t],
         \A d \in Clients : d # c /\ pc[d] = "enter"
           => vs[d] \in gvslocal'[d] /\ status'[vs[d]] = "visible"
  PROVE  Drawing'
<1>1. /\ pc'[c] = "draw" /\ job'[c] = j /\ at'[c] = First(l)
      /\ ~updated'[c]
      /\ \A d \in Clients : d # c => pc'[d] = pc[d] /\ vs'[d] = vs[d]
      /\ \A t \in Surfaces : came'[t] = "never" <=> came[t] = "never"
  BY DEF Begins
<1>2. list' \in Seq(Surfaces) /\ Distinct(list')
  BY DEF Inv, Types, Tables, Register, Known
<1>3. Left(c)' = Listed' /\ at'[c] \in Listed' \cup {None}
  BY <1>1, <1>2, FirstLeft
<1>4. Listed' # {} /\ Listed' \subseteq Surfaces
  <2>1. First(l) \in Elements(l) /\ Elements(l) \subseteq Surfaces
    BY <1>2, FirstIs, ElementsAre
  <2> QED
    BY <2>1 DEF Listed
<1>5. InPass(c)' /\ \A d \in Clients : InPass(d)' => d = c
  BY <1>1 DEF InPass
<1>6. \A t \in Listed' : Redo(t)'
  <2>1. \A t : Redo(t)' <=> job'[c] # "render" /\ t \in Left(c)'
    BY <1>5, DueIsNext
  <2> QED
    BY <1>1, <1>3, <2>1
<1>7. UpToDate' /\ Layered'
  BY <1>6 DEF UpToDate, Layered
<1>8. Buffers' = Buffers
  BY DEF Buffers
<1>9. Once'
  BY <1>8 DEF Drawing, Painted, Once
<1>10. NoGhosts'
  <2>1. CASE cleanmask' = Buffers
    BY <1>8, <2>1 DEF NoGhosts
  <2>2. CASE Held' = Held
    BY <1>8, <2>2 DEF Drawing, Painted, NoGhosts
  <2> QED
    BY <2>1, <2>2
<1>11. Framed'
  BY <1>1, <1>8 DEF Drawing, Painted, Framed
<1>12. Waiting'
  <2> SUFFICES ASSUME NEW d \in Clients, pc'[d] = "enter"
               PROVE  /\ vs'[d] \in gvslocal'[d] /\ status'[vs'[d]] = "visible"
                      /\ came'[vs'[d]] # "never"
    BY DEF Waiting, Visible
  <2>1. d # c /\ pc[d] = "enter" /\ vs'[d] = vs[d]
    BY <1>1
  <2>2. vs[d] \in gvslocal'[d] /\ status'[vs[d]] = "visible" /\ came[vs[d]] # "never"
    BY <2>1 DEF Drawing, Waiting
  <2>3. vs[d] \in Surfaces
    BY <2>2 DEF Inv, Types, Tables
  <2> QED
    BY <1>1, <2>1, <2>2, <2>3
<1>13. Walk(c)'
  <2>1. OnList(c)'
    BY <1>1, <1>3 DEF OnList
  <2>2. Cleans(c)'
    BY <1>1, <1>3, <1>4 DEF Cleans
  <2>3. Visited(c)' /\ JustPainted(c)'
    BY <1>1, <1>3 DEF Visited, JustPainted
  <2> QED
    BY <2>1, <2>2, <2>3 DEF Walk
<1> QED
  BY <1>5, <1>7, <1>9, <1>10, <1>11, <1>12, <1>13 DEF Drawing, Painted

LEMMA DestroyDrawing ==
  ASSUME Inv, Inv', Calm, Drawing, NEW c \in Clients, c \in setup.users,
         UNCHANGED setup, NEW s \in Surfaces, Destroy(c, s)
  PROVE  Drawing'
<1>1. /\ pc[c] = "idle" /\ s \in gvslocal[c] /\ lock = None
      /\ gvslocal' = [gvslocal EXCEPT ![c] = @ \ {s}] /\ cleanmask' = Buffers
      /\ UNCHANGED <<itask, paddr, rendmask, renderidx, fb>>
      /\ \/ /\ list' = <<>> /\ status' = [status EXCEPT ![s] = "idle"]
            /\ UNCHANGED <<pc, vs, came>>
         \/ list' # <<>> /\ StartPass(c, "destroy", s, list') /\ UNCHANGED status
  BY Zenon DEF Destroy, control
<1>2. Tables /\ Known /\ Owned /\ Pictures
  BY DEF Inv, Types, Register
<1>3. /\ \A d \in Clients : d # c => gvslocal'[d] = gvslocal[d]
      /\ gvslocal'[c] = gvslocal[c] \ {s}
  BY <1>1, <1>2 DEF Tables
<1>4. Held' \subseteq Held
  BY <1>3 DEF Held
<1>5. \A d \in Clients : ~InPass(d)
  BY <1>1, NobodyDraws DEF InPass
<1>6. \A d \in Clients : pc[d] = "enter" =>
        /\ d # c /\ vs[d] \in gvslocal'[d] /\ vs[d] # s /\ vs[d] \in Surfaces
        /\ status[vs[d]] = "visible" /\ came[vs[d]] # "never"
  <2> SUFFICES ASSUME NEW d \in Clients, pc[d] = "enter"
               PROVE  /\ d # c /\ vs[d] \in gvslocal'[d] /\ vs[d] # s /\ vs[d] \in Surfaces
                      /\ status[vs[d]] = "visible" /\ came[vs[d]] # "never"
    OBVIOUS
  <2>1. vs[d] \in gvslocal[d] /\ status[vs[d]] = "visible" /\ came[vs[d]] # "never"
    BY DEF Drawing, Waiting, Visible
  <2>2. d # c
    BY <1>1
  <2>3. vs[d] # s
    BY <1>1, <1>2, <2>1, <2>2 DEF Owned
  <2>4. vs[d] \in Surfaces
    BY <1>2, <2>1 DEF Tables
  <2> QED
    BY <1>3, <2>1, <2>2, <2>3, <2>4
<1>7. CASE list' = <<>> /\ status' = [status EXCEPT ![s] = "idle"]
           /\ UNCHANGED <<pc, vs, came>>
  <2>1. \A t \in Surfaces : status'[t] = IF t = s THEN "idle" ELSE status[t]
    BY <1>2, <1>7 DEF Tables
  <2>2. Buffers' = Buffers
    BY DEF Buffers
  <2>3. Once' /\ NoGhosts'
    BY <1>1, <2>2 DEF Drawing, Painted, Once, NoGhosts
  <2>4. Framed'
    BY <1>1, <1>7, <2>1, <2>2 DEF Drawing, Painted, Framed, Visible
  <2>5. Listed' = {}
    BY <1>7 DEF Listed, Elements
  <2>6. UpToDate' /\ Layered'
    BY <2>5 DEF UpToDate, Layered
  <2>7. Waiting'
    BY <1>6, <1>7, <2>1 DEF Waiting, Visible
  <2>8. \A d \in Clients : ~InPass(d)'
    BY <1>5, <1>7 DEF InPass
  <2> QED
    BY <2>3, <2>4, <2>6, <2>7, <2>8 DEF Drawing, Painted
<1>8. CASE list' # <<>> /\ StartPass(c, "destroy", s, list') /\ UNCHANGED status
  <2>1. PICK l : l = list'
    OBVIOUS
  <2>2. StartPass(c, "destroy", s, l) /\ l # <<>>
    BY <1>8, <2>1, Zenon
  <2>3. Begins(c, "destroy", s, l)
    BY <2>2, PassBegins
  <2>4. \A t \in Surfaces : Visible(t)' => itask'[t]
    BY <1>1, <1>8 DEF Drawing, Painted, Framed, Visible
  <2>5. cleanmask \subseteq cleanmask'
    BY <1>1, <1>2 DEF Pictures
  <2>6. \A d \in Clients : d # c /\ pc[d] = "enter"
          => vs[d] \in gvslocal'[d] /\ status'[vs[d]] = "visible"
    BY <1>6, <1>8
  <2> QED
    BY <1>1, <1>4, <1>5, <2>1, <2>2, <2>3, <2>4, <2>5, <2>6, RefreshBegins
<1> QED
  BY <1>1, <1>7, <1>8

LEMMA ConfigureDrawing ==
  ASSUME Inv, Inv', Calm, Drawing, NEW c \in Clients, c \in setup.users,
         UNCHANGED setup, NEW s \in Surfaces, Configure(c, s)
  PROVE  Drawing'
<1>1. /\ pc[c] = "idle" /\ s \in gvslocal[c] /\ lock = None
      /\ list' = Append(Unlink(list, s), s) /\ cleanmask' = Buffers
      /\ StartPass(c, "config", s, list')
      /\ UNCHANGED <<paddr, gvslocal, fb>>
  BY Zenon DEF Configure, display
<1>2. PICK st : /\ status' = [status EXCEPT ![s] = st]
                /\ itask' = [itask EXCEPT ![s] = @ \/ st = "visible"]
  BY Zenon DEF Configure
<1>3. Tables /\ Known /\ Owned /\ Pictures
  BY DEF Inv, Types, Register
<1>4. Held' = Held
  BY <1>1 DEF Held
<1>5. \A d \in Clients : ~InPass(d)
  BY <1>1, NobodyDraws DEF InPass
<1>6. /\ \A t \in Surfaces : t # s => status'[t] = status[t] /\ itask'[t] = itask[t]
      /\ status'[s] = st
  BY <1>2, <1>3 DEF Tables
<1>7. st = "visible" => itask'[s]
  BY <1>2, <1>3, Zenon DEF Tables
<1>8. \A t \in Surfaces : Visible(t)' => itask'[t]
  BY <1>6, <1>7 DEF Drawing, Painted, Framed, Visible
<1>9. ASSUME NEW d \in Clients, d # c, pc[d] = "enter"
      PROVE  vs[d] \in gvslocal'[d] /\ status'[vs[d]] = "visible"
  <2>1. vs[d] \in gvslocal[d] /\ status[vs[d]] = "visible"
    BY <1>9 DEF Drawing, Waiting, Visible
  <2>2. vs[d] # s
    BY <1>1, <1>3, <1>9, <2>1 DEF Owned
  <2>3. vs[d] \in Surfaces
    BY <1>3, <2>1 DEF Tables
  <2> QED
    BY <1>1, <1>6, <2>1, <2>2, <2>3
<1>10. PICK l : l = list'
  OBVIOUS
<1>11. l # <<>>
  <2>1. PICK k : k = Unlink(list, s)
    OBVIOUS
  <2>2. k \in Seq(Surfaces)
    BY <1>3, <2>1, UnlinkType DEF Tables
  <2>3. l = Append(k, s)
    BY <1>1, <1>10, <2>1
  <2> QED
    BY <2>2, <2>3
<1>12. Begins(c, "config", s, l)
  <2>1. StartPass(c, "config", s, l)
    BY <1>1, <1>10, Zenon
  <2> QED
    BY <2>1, PassBegins
<1>13. cleanmask \subseteq cleanmask'
  BY <1>1, <1>3 DEF Pictures
<1> QED
  BY <1>1, <1>4, <1>5, <1>8, <1>9, <1>10, <1>11, <1>12, <1>13, RefreshBegins

LEMMA RaiseAppendDrawing ==
  ASSUME Inv, Inv', Calm, Drawing, NEW c \in Clients, c \in setup.users,
         UNCHANGED setup, RaiseAppend(c)
  PROVE  Drawing'
<1>1. PICK s : s = vs[c]
  OBVIOUS
<1>2. /\ pc[c] = "append" /\ list' = Append(list, s)
      /\ StartPass(c, "layer", s, list')
      /\ UNCHANGED <<status, paddr, itask, gvslocal, cleanmask, fb>>
  BY <1>1, Zenon DEF RaiseAppend, device, display
<1>3. Tables /\ Control /\ LockHeld
  BY DEF Inv, IInv, Types
<1>4. Held' = Held
  BY <1>2 DEF Held
<1>5. setup.layers
  BY <1>2, <1>3, SetupTypes DEF Control, LockHeld
<1>6. \A d \in Clients : ~InPass(d)
  BY <1>2, <1>5, NobodyDraws DEF InPass
<1>7. \A t \in Surfaces : Visible(t)' => itask'[t]
  BY <1>2 DEF Drawing, Painted, Framed, Visible
<1>8. \A d \in Clients : d # c /\ pc[d] = "enter"
        => vs[d] \in gvslocal'[d] /\ status'[vs[d]] = "visible"
  BY <1>2 DEF Drawing, Waiting, Visible
<1>9. PICK l : l = list'
  OBVIOUS
<1>10. l # <<>>
  BY <1>2, <1>3, <1>9 DEF Tables
<1>11. Begins(c, "layer", s, l)
  <2>1. StartPass(c, "layer", s, l)
    BY <1>2, <1>9, Zenon
  <2> QED
    BY <2>1, PassBegins
<1> QED
  BY <1>2, <1>4, <1>6, <1>7, <1>8, <1>9, <1>10, <1>11, RefreshBegins

LEMMA EnterDrawing ==
  ASSUME Inv, Inv', Calm, Drawing, NEW c \in Clients, c \in setup.users,
         UNCHANGED setup, Enter(c)
  PROVE  Drawing'
<1>1. PICK s : s = vs[c]
  OBVIOUS
<1>2. /\ pc[c] = "enter" /\ lock = None /\ StartPass(c, "render", s, list)
      /\ UNCHANGED <<list, status, paddr, rendmask, itask, gvslocal, renderidx,
                     cleanmask, fb>>
  BY <1>1, Zenon DEF Enter, surfaces, display
<1>3. Begins(c, "render", s, list)
  BY <1>2, PassBegins
<1>4. /\ pc'[c] = "draw" /\ job'[c] = "render" /\ vs'[c] = s /\ at'[c] = First(list')
      /\ ~updated'[c]
      /\ \A d \in Clients : d # c => pc'[d] = pc[d] /\ vs'[d] = vs[d]
      /\ \A t \in Surfaces : /\ came'[t] = "never" <=> came[t] = "never"
                             /\ came'[t] = "clear" <=> came[t] = "clear"
  BY <1>2, <1>3 DEF Begins
<1>5. Tables /\ Known /\ Owned /\ list' \in Seq(Surfaces)
  BY DEF Inv, Types, Register, Tables
<1>6. Left(c)' = Listed' /\ at'[c] \in Listed' \cup {None}
  BY <1>4, <1>5, FirstLeft
<1>7. \A d \in Clients : ~InPass(d)
  BY <1>2, NobodyDraws DEF InPass
<1>8. InPass(c)' /\ \A d \in Clients : InPass(d)' => d = c
  BY <1>4, <1>7 DEF InPass
<1>9. (\A t : ~Redo(t)) /\ (\A b, t, u : ~Due(b, t, u))
  BY <1>7, NothingDue
<1>10. Buffers' = Buffers /\ Held' = Held /\ Listed' = Listed /\ Listed \subseteq Surfaces
  <2>1. Listed \subseteq Surfaces
    BY <1>5, ElementsAre DEF Tables, Listed
  <2> QED
    BY <1>2, <2>1 DEF Buffers, Held, Listed
<1>11. Once' /\ NoGhosts' /\ Framed'
  BY <1>2, <1>4, <1>10 DEF Drawing, Painted, Once, NoGhosts, Framed, Visible
<1>12. UpToDate'
  <2> SUFFICES ASSUME NEW t \in Listed, NEW b \in Buffers, b \in rendmask[t],
                      came'[t] # "never"
               PROVE  b \notin cleanmask /\ (Clear(t)' => Fresh(b, t)')
    BY <1>2, <1>10 DEF UpToDate
  <2>1. came[t] # "never" /\ (Clear(t)' => Clear(t)) /\ (Fresh(b, t) => Fresh(b, t)')
    BY <1>2, <1>4, <1>10 DEF Clear, Visible, Fresh
  <2> QED
    BY <1>9, <2>1 DEF Drawing, Painted, UpToDate
<1>13. Layered'
  <2> SUFFICES ASSUME NEW b \in Buffers \ cleanmask, NEW x \in Listed, NEW y \in Listed,
                      InOrder(list, x, y), Visible(x), Visible(y),
                      b \in rendmask[x] \cap rendmask[y]
               PROVE  Above(fb[b], x, y)
    BY <1>2, <1>10 DEF Layered, Visible
  <2> QED
    BY <1>9 DEF Drawing, Painted, Layered
<1>14. s \in gvslocal[c] /\ status[s] = "visible" /\ came[s] # "never" /\ s \in Surfaces
  <2>1. s \in gvslocal[c] /\ status[s] = "visible" /\ came[s] # "never"
    BY <1>1, <1>2 DEF Drawing, Waiting, Visible
  <2> QED
    BY <1>5, <2>1 DEF Tables
<1>15. s \in Listed
  BY <1>2, <1>5, <1>14, HeldIsListed DEF Moves
<1>16. Waiting'
  <2> SUFFICES ASSUME NEW d \in Clients, pc'[d] = "enter"
               PROVE  /\ vs'[d] \in gvslocal'[d] /\ status'[vs'[d]] = "visible"
                      /\ came'[vs'[d]] # "never"
    BY DEF Waiting, Visible
  <2>1. d # c /\ pc[d] = "enter" /\ vs'[d] = vs[d]
    BY <1>4
  <2>2. vs[d] \in gvslocal[d] /\ status[vs[d]] = "visible" /\ came[vs[d]] # "never"
    BY <2>1 DEF Drawing, Waiting, Visible
  <2>3. vs[d] \in Surfaces
    BY <1>5, <2>2 DEF Tables
  <2> QED
    BY <1>2, <1>4, <2>1, <2>2, <2>3
<1>17. Walk(c)'
  <2>1. OnList(c)'
    BY <1>4, <1>6 DEF OnList
  <2>2. Cleans(c)'
    BY <1>2, <1>4, <1>6, <1>10, <1>14, <1>15 DEF Cleans, Visible
  <2>3. Visited(c)' /\ JustPainted(c)'
    BY <1>4, <1>6 DEF Visited, JustPainted
  <2> QED
    BY <2>1, <2>2, <2>3 DEF Walk
<1> QED
  BY <1>8, <1>11, <1>12, <1>13, <1>16, <1>17 DEF Drawing, Painted

\* A client that is in no pass does something else: the passes go on as they were.
LEMMA PassesGoOn ==
  ASSUME NEW c \in Clients, ~InPass(c), ~InPass(c)',
         \A d \in Clients : d # c => pc'[d] = pc[d],
         UNCHANGED <<list, job, at, updated, renderidx>>
  PROVE  /\ \A d \in Clients : InPass(d)' <=> InPass(d)
         /\ \A d \in Clients : InPass(d) => pc'[d] = pc[d] /\ d # c /\ Left(d)' = Left(d)
         /\ \A s : Redo(s)' <=> Redo(s)
         /\ \A b, s, t : Due(b, s, t)' <=> Due(b, s, t)
<1>1. \A d \in Clients : InPass(d)' <=> InPass(d)
  BY DEF InPass
<1>2. ASSUME NEW d \in Clients, InPass(d)
      PROVE  pc'[d] = pc[d] /\ d # c /\ Left(d)' = Left(d)
  BY <1>2 DEF Left, Listed
<1>3. ASSUME NEW s
      PROVE  Redo(s)' <=> Redo(s)
  BY <1>1, <1>2 DEF Redo
<1>4. ASSUME NEW b, NEW s, NEW t
      PROVE  Due(b, s, t)' <=> Due(b, s, t)
  BY <1>1, <1>2 DEF Due
<1> QED
  BY <1>1, <1>2, <1>3, <1>4

LEMMA SubmitDrawing ==
  ASSUME Inv, Calm, Drawing, NEW c \in Clients, c \in setup.users,
         UNCHANGED setup, NEW s \in Surfaces, NEW f \in Frames, Submit(c, s, f)
  PROVE  Drawing'
<1>1. /\ pc[c] = "idle" /\ s \in gvslocal[c]
      /\ paddr' = [paddr EXCEPT ![s] = f] /\ rendmask' = [rendmask EXCEPT ![s] = {}]
      /\ came' = [came EXCEPT ![s] = IF lock = None THEN "clear" ELSE "now"]
      /\ pc' = [pc EXCEPT ![c] = IF status[s] = "invisible" THEN "idle" ELSE "enter"]
      /\ vs' = [vs EXCEPT ![c] = s]
      /\ UNCHANGED <<list, status, itask, gvslocal, renderidx, cleanmask, fb, job,
                     at, updated>>
  BY Zenon DEF Submit, Goto, device, display
<1>2. Tables /\ Known /\ Owned /\ Pictures /\ Control /\ Courses
  BY DEF Inv, IInv, Types, Register
<1>3. /\ \A t \in Surfaces : t # s => /\ paddr'[t] = paddr[t] /\ rendmask'[t] = rendmask[t]
                                      /\ came'[t] = came[t]
      /\ paddr'[s] = f /\ rendmask'[s] = {} /\ came'[s] # "never"
  BY <1>1, <1>2 DEF Tables, Pictures
<1>4. came'[s] = "clear" => lock = None
  BY <1>1, <1>2 DEF Tables
<1>5. /\ pc'[c] = (IF status[s] = "invisible" THEN "idle" ELSE "enter") /\ vs'[c] = s
      /\ \A d \in Clients : d # c => pc'[d] = pc[d] /\ vs'[d] = vs[d]
  BY <1>1, <1>2 DEF Control, Courses
<1>6. ~InPass(c) /\ ~InPass(c)'
  BY <1>1, <1>5 DEF InPass
<1>7. /\ \A d \in Clients : InPass(d)' <=> InPass(d)
      /\ \A d \in Clients : InPass(d) => pc'[d] = pc[d] /\ d # c /\ Left(d)' = Left(d)
      /\ \A t : Redo(t)' <=> Redo(t)
      /\ \A b, t, u : Due(b, t, u)' <=> Due(b, t, u)
  BY <1>1, <1>5, <1>6, PassesGoOn
<1>8. f # None /\ Listed' = Listed /\ Held' = Held /\ Buffers' = Buffers /\ Listed \subseteq Surfaces
  <2>1. Listed \subseteq Surfaces
    BY <1>2, ElementsAre DEF Tables, Listed
  <2> QED
    BY <1>1, <2>1, VideoSurfaceAssumption DEF Buffers, Held, Listed
<1>9. Once' /\ NoGhosts'
  BY <1>1, <1>8 DEF Drawing, Painted, Once, NoGhosts
<1>10. Framed'
  <2>1. \A t \in Surfaces : paddr[t] # None => paddr'[t] # None
    BY <1>3, <1>8
  <2>2. \A t \in Surfaces : came'[t] # "never" => paddr'[t] # None
    BY <1>3, <1>8 DEF Drawing, Painted, Framed
  <2> QED
    BY <1>1, <1>8, <2>1, <2>2 DEF Drawing, Painted, Framed, Visible
<1>11. UpToDate'
  <2> SUFFICES ASSUME NEW t \in Listed, NEW b \in Buffers, b \in rendmask'[t],
                      came'[t] # "never", ~Redo(t)
               PROVE  b \notin cleanmask /\ (Clear(t)' => Fresh(b, t)')
    BY <1>1, <1>7, <1>8 DEF UpToDate
  <2>1. t # s /\ t \in Surfaces
    BY <1>3, <1>8
  <2>2. /\ b \in rendmask[t] /\ came[t] # "never" /\ (Clear(t)' => Clear(t))
        /\ (Fresh(b, t) => Fresh(b, t)')
    BY <1>1, <1>3, <2>1 DEF Clear, Visible, Fresh
  <2> QED
    BY <2>2 DEF Drawing, Painted, UpToDate
<1>12. Layered'
  <2> SUFFICES ASSUME NEW b \in Buffers \ cleanmask, NEW x \in Listed, NEW y \in Listed,
                      InOrder(list, x, y), Visible(x), Visible(y),
                      b \in rendmask'[x] \cap rendmask'[y],
                      ~Redo(x), ~Redo(y), ~Due(b, x, y)
               PROVE  Above(fb[b], x, y)
    BY <1>1, <1>7, <1>8 DEF Layered, Visible
  <2>1. b \in rendmask[x] \cap rendmask[y]
    BY <1>3, <1>8
  <2> QED
    BY <2>1 DEF Drawing, Painted, Layered
<1>13. Waiting'
  <2> SUFFICES ASSUME NEW d \in Clients, pc'[d] = "enter"
               PROVE  /\ vs'[d] \in gvslocal[d] /\ status[vs'[d]] = "visible"
                      /\ came'[vs'[d]] # "never"
    BY <1>1 DEF Waiting, Visible
  <2>1. CASE d = c
    <3>1. status[s] # "invisible" /\ vs'[d] = s
      BY <1>5, <2>1
    <3>2. s \in Busy
      BY <1>1, <1>2, HeldIsListed DEF Moves
    <3>3. status[s] = "visible"
      BY <1>2, <3>1, <3>2 DEF Tables, Busy
    <3> QED
      BY <1>1, <1>3, <2>1, <3>1, <3>3
  <2>2. CASE d # c
    <3>1. pc[d] = "enter" /\ vs'[d] = vs[d]
      BY <1>5, <2>2
    <3>2. vs[d] \in gvslocal[d] /\ status[vs[d]] = "visible" /\ came[vs[d]] # "never"
      BY <3>1 DEF Drawing, Waiting, Visible
    <3>3. vs[d] \in Surfaces
      BY <1>2, <3>2 DEF Tables
    <3>4. came'[vs[d]] # "never"
      BY <1>3, <3>2, <3>3
    <3> QED
      BY <3>1, <3>2, <3>4
  <2> QED
    BY <2>1, <2>2
<1>14. ASSUME NEW d \in Clients, InPass(d)'
       PROVE  Walk(d)'
  <2>1. /\ InPass(d) /\ pc'[d] = pc[d] /\ d # c /\ Left(d)' = Left(d) /\ Walk(d)
        /\ vs'[d] = vs[d]
    BY <1>5, <1>7, <1>14 DEF Drawing
  <2>2. came'[s] # "clear"
    <3>1. lock # None
      BY <1>6, <2>1, NobodyDraws
    <3> QED
      BY <1>4, <3>1
  <2>3. \A t \in Surfaces : (came'[t] = "never" => came[t] = "never")
                            /\ (came'[t] = "clear" => came[t] = "clear" /\ t # s)
    BY <1>3, <2>2
  <2>4. OnList(d)'
    BY <1>1, <1>8, <2>1 DEF Walk, OnList
  <2>5. Cleans(d)'
    <3>1. job[d] = "render" => vs[d] \in Surfaces /\ came'[vs[d]] # "never"
      BY <1>8, <2>1, <2>3 DEF Walk, Cleans
    <3> QED
      BY <1>1, <1>8, <2>1, <3>1 DEF Walk, Cleans, Visible
  <2>6. Visited(d)'
    <3> SUFFICES ASSUME NEW t \in Listed \ Left(d), Clear(t)', ~(pc[d] = "mark" /\ t = at[d])
                 PROVE  renderidx \in rendmask'[t]
      BY <1>1, <1>8, <2>1 DEF Visited
    <3>1. t \in Surfaces
      BY <1>8
    <3>2. Clear(t) /\ t # s
      BY <1>1, <2>3, <3>1 DEF Clear, Visible
    <3>3. renderidx \in rendmask[t]
      BY <2>1, <3>2 DEF Walk, Visited
    <3> QED
      BY <1>3, <3>1, <3>2, <3>3
  <2>7. JustPainted(d)'
    <3> SUFFICES ASSUME pc[d] = "mark", status[at[d]] = "visible"
                 PROVE  /\ \A t \in Surfaces : t # at[d] => Above(fb[renderidx], t, at[d])
                        /\ came'[at[d]] = "clear"
                             => DepictsFrame(fb[renderidx], at[d], paddr'[at[d]])
      BY <1>1, <2>1 DEF JustPainted, Visible, Fresh
    <3>1. at[d] \in Surfaces
      BY <1>8, <2>1 DEF Walk, OnList
    <3>2. /\ \A t \in Surfaces : t # at[d] => Above(fb[renderidx], t, at[d])
          /\ came[at[d]] = "clear" => DepictsFrame(fb[renderidx], at[d], paddr[at[d]])
      BY <2>1 DEF Walk, JustPainted, Visible, Fresh
    <3>3. came'[at[d]] = "clear" => came[at[d]] = "clear" /\ paddr'[at[d]] = paddr[at[d]]
      BY <1>3, <2>3, <3>1
    <3> QED
      BY <3>2, <3>3
  <2> QED
    BY <2>4, <2>5, <2>6, <2>7 DEF Walk
<1> QED
  BY <1>9, <1>10, <1>11, <1>12, <1>13, <1>14 DEF Drawing, Painted

\* Nothing of it changes but the place of a client that is in no pass.
LEMMA DrawingKept ==
  ASSUME Drawing, NEW c \in Clients, ~InPass(c), ~InPass(c)', pc'[c] # "enter",
         \A d \in Clients : d # c => pc'[d] = pc[d],
         UNCHANGED <<setup, list, status, paddr, rendmask, itask, gvslocal, came>>,
         UNCHANGED <<renderidx, cleanmask, fb, job, vs, at, updated>>
  PROVE  Drawing'
<1>1. /\ \A d \in Clients : InPass(d)' <=> InPass(d)
      /\ \A d \in Clients : InPass(d) => pc'[d] = pc[d] /\ d # c /\ Left(d)' = Left(d)
      /\ \A t : Redo(t)' <=> Redo(t)
      /\ \A b, t, u : Due(b, t, u)' <=> Due(b, t, u)
  BY PassesGoOn
<1>2. Listed' = Listed /\ Held' = Held /\ Buffers' = Buffers
  BY DEF Listed, Held, Buffers
<1>3. Once' /\ NoGhosts' /\ Framed'
  BY <1>2 DEF Drawing, Painted, Once, NoGhosts, Framed, Visible
<1>4. \A t \in Listed : (Clear(t)' <=> Clear(t)) /\ \A b \in Buffers : Fresh(b, t)' <=> Fresh(b, t)
  BY DEF Clear, Visible, Fresh
<1>5. UpToDate'
  BY <1>1, <1>2, <1>4 DEF Drawing, Painted, UpToDate
<1>6. Layered'
  BY <1>1, <1>2 DEF Drawing, Painted, Layered, Visible
<1>7. Waiting'
  BY DEF Drawing, Waiting, Visible
<1>8. ASSUME NEW d \in Clients, InPass(d)'
      PROVE  Walk(d)'
  <2>1. InPass(d) /\ pc'[d] = pc[d] /\ Left(d)' = Left(d) /\ Walk(d)
    BY <1>1, <1>8 DEF Drawing
  <2>2. OnList(d)' /\ Cleans(d)'
    BY <1>2, <2>1 DEF Walk, OnList, Cleans, Visible
  <2>3. Visited(d)'
    BY <1>2, <1>4, <2>1 DEF Walk, Visited
  <2>4. JustPainted(d)'
    BY <2>1 DEF Walk, JustPainted, Visible, Fresh
  <2> QED
    BY <2>2, <2>3, <2>4 DEF Walk
<1> QED
  BY <1>3, <1>5, <1>6, <1>7, <1>8 DEF Drawing, Painted

LEMMA PendingDrawing ==
  ASSUME Inv, Drawing, NEW c \in Clients, UNCHANGED setup, Pending(c)
  PROVE  Drawing'
<1>1. /\ pc[c] = "enter" /\ pc' = [pc EXCEPT ![c] = "idle"]
      /\ UNCHANGED <<list, status, paddr, rendmask, itask, gvslocal, came>>
      /\ UNCHANGED <<renderidx, cleanmask, fb, job, vs, at, updated>>
  BY Zenon DEF Pending, Goto, surfaces, device, display
<1>2. pc'[c] = "idle" /\ \A d \in Clients : d # c => pc'[d] = pc[d]
  BY <1>1 DEF Inv, IInv, Control
<1>3. ~InPass(c) /\ ~InPass(c)'
  BY <1>1, <1>2 DEF InPass
<1> QED
  BY <1>1, <1>2, <1>3, DrawingKept

LEMMA StutterDrawing ==
  ASSUME Drawing, UNCHANGED vars PROVE Drawing'
<1>1. UNCHANGED <<setup, list, status, paddr, rendmask, itask, gvslocal, came>>
  BY Zenon DEF vars, surfaces
<1>2. UNCHANGED <<renderidx, cleanmask, fb, pc, job, vs, at, updated>>
  BY Zenon DEF vars, device, display, control
<1>3. Listed' = Listed /\ Held' = Held /\ Buffers' = Buffers
  BY <1>1 DEF Listed, Held, Buffers
<1>4. \A d \in Clients : (InPass(d)' <=> InPass(d)) /\ Left(d)' = Left(d)
  BY <1>1, <1>2, <1>3 DEF InPass, Left
<1>5. (\A s : Redo(s)' <=> Redo(s)) /\ (\A b, s, t : Due(b, s, t)' <=> Due(b, s, t))
  BY <1>2, <1>4 DEF Redo, Due
<1>6. Once' /\ NoGhosts' /\ Framed'
  BY <1>1, <1>2, <1>3 DEF Drawing, Painted, Once, NoGhosts, Framed, Visible
<1>7. \A t \in Listed : (Clear(t)' <=> Clear(t)) /\ \A b \in Buffers : Fresh(b, t)' <=> Fresh(b, t)
  BY <1>1, <1>2 DEF Clear, Visible, Fresh
<1>8. UpToDate'
  BY <1>1, <1>2, <1>3, <1>5, <1>7 DEF Drawing, Painted, UpToDate
<1>9. Layered'
  BY <1>1, <1>2, <1>3, <1>5 DEF Drawing, Painted, Layered, Visible
<1>10. Waiting'
  BY <1>1, <1>2 DEF Drawing, Waiting, Visible
<1>11. ASSUME NEW d \in Clients, InPass(d)'
       PROVE  Walk(d)'
  <2>1. InPass(d) /\ Left(d)' = Left(d) /\ Walk(d)
    BY <1>4, <1>11 DEF Drawing
  <2>2. OnList(d)' /\ Cleans(d)'
    BY <1>1, <1>2, <1>3, <2>1 DEF Walk, OnList, Cleans, Visible
  <2>3. Visited(d)'
    BY <1>1, <1>2, <1>3, <1>7, <2>1 DEF Walk, Visited
  <2>4. JustPainted(d)'
    BY <1>1, <1>2, <2>1 DEF Walk, JustPainted, Visible, Fresh
  <2> QED
    BY <2>2, <2>3, <2>4 DEF Walk
<1> QED
  BY <1>6, <1>8, <1>9, <1>10, <1>11 DEF Drawing, Painted

\* What is known inside the pass of c.
LEMMA Inside ==
  ASSUME Inv, Calm, Drawing, NEW c \in Clients, InPass(c)
  PROVE  /\ Tables /\ Known /\ Pictures /\ Courses /\ Control
         /\ renderidx \in Buffers /\ Walk(c)
         /\ \A d \in Clients : InPass(d) => d = c
         /\ Listed = Held /\ Listed \subseteq Surfaces /\ None \notin Surfaces
         /\ at[c] # None => at[c] \in Listed
         /\ \A s : Redo(s) <=> job[c] # "render" /\ s \in Left(c)
         /\ \A b, s, t : Due(b, s, t) <=>
              b = renderidx /\ updated[c] /\ s \notin Left(c) /\ t \in Left(c)
<1>1. /\ \A d \in Clients : InPass(d) => d = c
      /\ Listed = Held
  BY OnePassAtATime
<1>2. /\ \A s : Redo(s) <=> job[c] # "render" /\ s \in Left(c)
      /\ \A b, s, t : Due(b, s, t) <=>
           b = renderidx /\ updated[c] /\ s \notin Left(c) /\ t \in Left(c)
  BY <1>1, DueIs
<1>3. Tables /\ Known /\ Pictures /\ Courses /\ Control /\ renderidx \in Buffers
  BY DEF Inv, IInv, BuffersApart, Types, Register
<1>4. Walk(c)
  BY DEF Drawing
<1>5. Listed \subseteq Surfaces
  BY <1>3, ElementsAre DEF Tables, Listed
<1>6. None \notin Surfaces
  BY VideoSurfaceAssumption DEF Surfaces
<1> QED
  BY <1>1, <1>2, <1>3, <1>4, <1>5, <1>6 DEF Walk, OnList

\* After the step c is still in its pass, and alone.
LEMMA StillInside ==
  ASSUME NEW c \in Clients, \A d \in Clients : InPass(d) => d = c, InPass(c)',
         \A d \in Clients : d # c => pc'[d] = pc[d]
  PROVE  /\ \A d \in Clients : InPass(d)' => d = c
         /\ \A s : Redo(s)' <=> job'[c] # "render" /\ s \in Left(c)'
         /\ \A b, s, t : Due(b, s, t)' <=>
              b = renderidx' /\ updated'[c] /\ s \notin Left(c)' /\ t \in Left(c)'
<1>1. \A d \in Clients : InPass(d)' => d = c
  BY DEF InPass
<1> QED
  BY <1>1, DueIsNext

LEMMA SkipDrawing ==
  ASSUME Inv, Calm, Drawing, NEW c \in Clients, UNCHANGED setup, Skip(c)
  PROVE  Drawing'
<1>1. PICK s : s = at[c]
  OBVIOUS
<1>2. /\ pc[c] = "draw" /\ s # None /\ job[c] = "render" /\ ~NeedRender(c, s)
      /\ at' = [at EXCEPT ![c] = NextSurface(s)]
      /\ UNCHANGED <<list, status, paddr, rendmask, itask, gvslocal, came>>
      /\ UNCHANGED <<renderidx, cleanmask, fb, pc, job, vs, updated>>
  BY <1>1, Zenon DEF Skip, Paints, surfaces, device, display
<1>3. InPass(c) /\ InPass(c)'
  BY <1>2 DEF InPass
<1>4. /\ Tables /\ Known /\ Pictures /\ Courses /\ Control
      /\ renderidx \in Buffers /\ Walk(c)
      /\ \A d \in Clients : InPass(d) => d = c
      /\ Listed \subseteq Surfaces /\ s \in Listed
      /\ \A t : ~Redo(t)
      /\ \A b, t, u : Due(b, t, u) <=>
           b = renderidx /\ updated[c] /\ t \notin Left(c) /\ u \in Left(c)
  BY <1>1, <1>2, <1>3, Inside
<1>5. at'[c] = NextSurface(at[c])
  BY <1>1, <1>2, <1>4 DEF Courses
<1>6. Left(c)' = Left(c) \ {s} /\ at'[c] \in Listed \cup {None}
  BY <1>1, <1>2, <1>4, <1>5, LeftMoves
<1>7. /\ \A d \in Clients : InPass(d)' => d = c
      /\ \A t : Redo(t)' <=> job'[c] # "render" /\ t \in Left(c)'
      /\ \A b, t, u : Due(b, t, u)' <=>
           b = renderidx' /\ updated'[c] /\ t \notin Left(c)' /\ u \in Left(c)'
  BY <1>2, <1>3, <1>4, StillInside
<1>8. Listed' = Listed /\ Held' = Held /\ Buffers' = Buffers
  BY <1>2 DEF Listed, Held, Buffers
<1>9. paddr[s] = None \/ status[s] = "invisible" \/ (renderidx \in rendmask[s] /\ ~updated[c])
  BY <1>2 DEF NeedRender
<1>10. s \in Left(c) /\ Left(c) \subseteq Listed
  BY <1>1, <1>2, <1>4, LeftIs DEF Walk
<1>11. Once' /\ NoGhosts' /\ Framed'
  BY <1>2, <1>8 DEF Drawing, Painted, Once, NoGhosts, Framed, Visible
<1>12. \A t \in Listed : (Clear(t)' <=> Clear(t)) /\ \A b \in Buffers : Fresh(b, t)' <=> Fresh(b, t)
  BY <1>2 DEF Clear, Visible, Fresh
<1>13. UpToDate'
  BY <1>2, <1>4, <1>8, <1>12 DEF Drawing, Painted, UpToDate
<1>14. Layered'
  <2> SUFFICES ASSUME NEW b \in Buffers \ cleanmask, NEW x \in Listed, NEW y \in Listed,
                      InOrder(list, x, y), Visible(x), Visible(y),
                      b \in rendmask[x] \cap rendmask[y], ~Due(b, x, y)'
               PROVE  Above(fb[b], x, y)
    BY <1>2, <1>8 DEF Layered, Visible
  <2>1. CASE ~Due(b, x, y)
    BY <1>4, <2>1 DEF Drawing, Painted, Layered
  <2>2. CASE Due(b, x, y)
    <3>1. y = s /\ updated[c]
      BY <1>2, <1>4, <1>6, <1>7, <2>2
    <3>2. paddr[s] = None
      BY <1>9, <3>1 DEF Visible
    <3>3. ~Depicts(fb[b], s)
      BY <1>4, <3>2 DEF Drawing, Painted, Framed
    <3> QED
      BY <3>1, <3>3 DEF Depicts, Above
  <2> QED
    BY <2>1, <2>2
<1>15. Waiting'
  BY <1>2 DEF Drawing, Waiting, Visible
<1>16. came[s] # "never" /\ Visible(s) => renderidx \in rendmask[s]
  BY <1>4, <1>9 DEF Drawing, Painted, Framed, Visible
<1>17. Walk(c)'
  <2>1. OnList(c)'
    BY <1>2, <1>6, <1>8 DEF OnList
  <2>2. Cleans(c)'
    <3>1. /\ vs[c] \in Listed /\ Visible(vs[c]) /\ came[vs[c]] # "never"
          /\ vs[c] \notin Left(c) => renderidx \notin cleanmask
          /\ updated[c] => renderidx \notin cleanmask
      BY <1>2, <1>4 DEF Walk, Cleans
    <3>2. vs[c] = s => renderidx \notin cleanmask
      BY <1>4, <1>16, <3>1 DEF Drawing, Painted, UpToDate
    <3>3. vs[c] \notin Left(c)' => renderidx \notin cleanmask
      BY <1>6, <3>1, <3>2
    <3> QED
      BY <1>2, <1>8, <3>1, <3>3 DEF Cleans, Visible
  <2>3. Visited(c)'
    <3> SUFFICES ASSUME NEW t \in Listed \ Left(c)', Clear(t)
                 PROVE  renderidx \in rendmask[t]
      BY <1>2, <1>8, <1>12 DEF Visited
    <3>1. CASE t = s
      BY <1>16, <3>1 DEF Clear
    <3>2. CASE t # s
      BY <1>2, <1>4, <1>6, <3>2 DEF Walk, Visited
    <3> QED
      BY <3>1, <3>2
  <2>4. JustPainted(c)'
    BY <1>2 DEF JustPainted
  <2> QED
    BY <2>1, <2>2, <2>3, <2>4 DEF Walk
<1> QED
  BY <1>7, <1>11, <1>13, <1>14, <1>15, <1>17 DEF Drawing, Painted

LEMMA MarkDrawing ==
  ASSUME Inv, Calm, Drawing, NEW c \in Clients, UNCHANGED setup, Mark(c)
  PROVE  Drawing'
<1>1. PICK s : s = at[c]
  OBVIOUS
<1>2. /\ pc[c] = "mark" /\ rendmask' = [rendmask EXCEPT ![s] = @ \cup {renderidx}]
      /\ at' = [at EXCEPT ![c] = NextSurface(s)] /\ pc' = [pc EXCEPT ![c] = "draw"]
      /\ UNCHANGED <<list, status, paddr, itask, gvslocal, came>>
      /\ UNCHANGED <<renderidx, cleanmask, fb, job, vs, updated>>
  BY <1>1, Zenon DEF Mark, Goto, device, display
<1>3. InPass(c)
  BY <1>2 DEF InPass
<1>4. /\ Tables /\ Known /\ Pictures /\ Courses /\ Control
      /\ renderidx \in Buffers /\ Walk(c)
      /\ \A d \in Clients : InPass(d) => d = c
      /\ Listed \subseteq Surfaces
      /\ \A t : Redo(t) <=> job[c] # "render" /\ t \in Left(c)
      /\ \A b, t, u : Due(b, t, u) <=>
           b = renderidx /\ updated[c] /\ t \notin Left(c) /\ u \in Left(c)
  BY <1>3, Inside
<1>5. /\ at'[c] = NextSurface(at[c]) /\ pc'[c] = "draw"
      /\ \A d \in Clients : d # c => pc'[d] = pc[d]
  BY <1>1, <1>2, <1>4 DEF Courses, Control
<1>6. s \in Listed /\ s \in Surfaces /\ updated[c] /\ renderidx \notin cleanmask
  BY <1>1, <1>2, <1>4 DEF Walk, OnList, Cleans
<1>7. /\ s \notin Left(c) /\ Left(c) \subseteq Listed
      /\ \A t : InOrder(list, s, t) => t \in Left(c)
  BY <1>1, <1>2, <1>4, LeftIs DEF Walk
<1>8. Left(c)' = Left(c) /\ at'[c] \in Listed \cup {None}
  <2>1. /\ Left(c)' = {t \in Listed : InOrder(list, at[c], t)}
        /\ at'[c] \in Listed \cup {None}
    BY <1>1, <1>2, <1>4, <1>5, <1>6, LeftMoves
  <2>2. Left(c) = {t \in Listed : InOrder(list, at[c], t)}
    BY <1>2 DEF Left
  <2> QED
    BY <2>1, <2>2
<1>9. InPass(c)'
  BY <1>5 DEF InPass
<1>10. /\ \A d \in Clients : InPass(d)' => d = c
       /\ \A t : Redo(t)' <=> Redo(t)
       /\ \A b, t, u : Due(b, t, u)' <=> Due(b, t, u)
  <2>1. /\ \A d \in Clients : InPass(d)' => d = c
        /\ \A t : Redo(t)' <=> job'[c] # "render" /\ t \in Left(c)'
        /\ \A b, t, u : Due(b, t, u)' <=>
             b = renderidx' /\ updated'[c] /\ t \notin Left(c)' /\ u \in Left(c)'
    BY <1>4, <1>5, <1>9, StillInside
  <2> QED
    BY <1>2, <1>4, <1>8, <2>1
<1>11. Listed' = Listed /\ Held' = Held /\ Buffers' = Buffers
  BY <1>2 DEF Listed, Held, Buffers
<1>12. /\ \A t \in Surfaces : t # s => rendmask'[t] = rendmask[t]
       /\ rendmask'[s] = rendmask[s] \cup {renderidx}
  BY <1>2, <1>4, <1>6 DEF Pictures
<1>13. Once' /\ NoGhosts' /\ Framed'
  BY <1>2, <1>11 DEF Drawing, Painted, Once, NoGhosts, Framed, Visible
<1>14. \A t \in Listed : (Clear(t)' <=> Clear(t)) /\ \A b \in Buffers : Fresh(b, t)' <=> Fresh(b, t)
  BY <1>2 DEF Clear, Visible, Fresh
<1>15. Visible(s) => /\ \A t \in Surfaces : t # s => Above(fb[renderidx], t, s)
                     /\ came[s] = "clear" => Fresh(renderidx, s)
  BY <1>1, <1>2, <1>4 DEF Walk, JustPainted, Visible, Fresh
<1>16. UpToDate'
  <2> SUFFICES ASSUME NEW t \in Listed, NEW b \in Buffers, b \in rendmask'[t],
                      came[t] # "never", ~Redo(t)
               PROVE  b \notin cleanmask /\ (Clear(t) => Fresh(b, t))
    BY <1>2, <1>10, <1>11, <1>14 DEF UpToDate
  <2>1. CASE b \in rendmask[t]
    BY <2>1 DEF Drawing, Painted, UpToDate
  <2>2. CASE b \notin rendmask[t]
    <3>1. t = s /\ b = renderidx
      BY <1>4, <1>12, <2>2
    <3> QED
      BY <1>6, <1>15, <3>1 DEF Clear
  <2> QED
    BY <2>1, <2>2
<1>17. Layered'
  <2> SUFFICES ASSUME NEW b \in Buffers \ cleanmask, NEW x \in Listed, NEW y \in Listed,
                      InOrder(list, x, y), Visible(x), Visible(y),
                      b \in rendmask'[x] \cap rendmask'[y],
                      ~Redo(x), ~Redo(y), ~Due(b, x, y)
               PROVE  Above(fb[b], x, y)
    BY <1>2, <1>10, <1>11 DEF Layered, Visible
  <2>1. CASE b \in rendmask[x] \cap rendmask[y]
    BY <2>1 DEF Drawing, Painted, Layered
  <2>2. CASE b \notin rendmask[y]
    <3>1. y = s /\ b = renderidx
      BY <1>4, <1>12, <2>2
    <3>2. x # s /\ x \in Surfaces
      BY <1>4, <1>7, <3>1
    <3> QED
      BY <1>15, <3>1, <3>2
  <2>3. CASE b \notin rendmask[x]
    <3>1. x = s /\ b = renderidx
      BY <1>4, <1>12, <2>3
    <3>2. Due(b, x, y)
      BY <1>4, <1>6, <1>7, <3>1
    <3> QED
      BY <3>2
  <2> QED
    BY <2>1, <2>2, <2>3
<1>18. Waiting'
  BY <1>2, <1>5 DEF Drawing, Waiting, Visible
<1>19. Walk(c)'
  <2>1. OnList(c)'
    BY <1>5, <1>8, <1>11 DEF OnList
  <2>2. Cleans(c)'
    BY <1>2, <1>4, <1>8, <1>11 DEF Walk, Cleans, Visible
  <2>3. Visited(c)'
    <3> SUFFICES ASSUME NEW t \in Listed \ Left(c), Clear(t)
                 PROVE  renderidx \in rendmask'[t]
      BY <1>2, <1>8, <1>11, <1>14 DEF Visited
    <3>1. CASE t = s
      BY <1>12, <3>1
    <3>2. CASE t # s
      <4>1. renderidx \in rendmask[t]
        BY <1>1, <1>4, <3>2 DEF Walk, Visited
      <4> QED
        BY <1>4, <1>12, <3>2, <4>1
    <3> QED
      BY <3>1, <3>2
  <2>4. JustPainted(c)'
    BY <1>5 DEF JustPainted
  <2> QED
    BY <2>1, <2>2, <2>3, <2>4 DEF Walk
<1> QED
  BY <1>10, <1>13, <1>16, <1>17, <1>18, <1>19 DEF Drawing, Painted

LEMMA FlipDrawing ==
  ASSUME Inv, Calm, Drawing, NEW c \in Clients, UNCHANGED setup, Flip(c)
  PROVE  Drawing'
<1>1. /\ pc[c] = "draw" /\ at[c] = None /\ pc' = [pc EXCEPT ![c] = "idle"]
      /\ status' = IF job[c] = "destroy" THEN [status EXCEPT ![vs[c]] = "idle"]
                   ELSE status
      /\ UNCHANGED <<list, paddr, rendmask, itask, gvslocal, came>>
      /\ UNCHANGED <<cleanmask, fb, vs>>
  BY Zenon DEF Flip, Goto
<1>2. InPass(c)
  BY <1>1 DEF InPass
<1>3. /\ Tables /\ Known /\ Pictures /\ Courses /\ Control /\ Walk(c)
      /\ \A d \in Clients : InPass(d) => d = c
      /\ Listed = Held /\ Listed \subseteq Surfaces
      /\ \A t : Redo(t) <=> job[c] # "render" /\ t \in Left(c)
      /\ \A b, t, u : Due(b, t, u) <=>
           b = renderidx /\ updated[c] /\ t \notin Left(c) /\ u \in Left(c)
  BY <1>2, Inside
<1>4. Left(c) = {}
  BY <1>1, <1>3, LeftIs DEF Walk
<1>5. (\A t : ~Redo(t)) /\ (\A b, t, u : ~Due(b, t, u))
  BY <1>3, <1>4
<1>6. pc'[c] = "idle" /\ \A d \in Clients : d # c => pc'[d] = pc[d]
  BY <1>1, <1>3 DEF Control
<1>7. \A d \in Clients : ~InPass(d)'
  BY <1>3, <1>6 DEF InPass
<1>8. \A t \in Held : status'[t] = status[t]
  <2>1. CASE job[c] = "destroy"
    <3>1. vs[c] \in Dying
      BY <1>2, <2>1 DEF Dying
    <3>2. vs[c] \notin Held
      BY <1>3, <3>1 DEF Known
    <3> QED
      BY <1>1, <1>3, <2>1, <3>2 DEF Tables
  <2>2. CASE job[c] # "destroy"
    BY <1>1, <2>2
  <2> QED
    BY <2>1, <2>2
<1>9. \A t \in Surfaces : Visible(t)' => Visible(t)
  BY <1>1, <1>3 DEF Tables, Visible
<1>10. Listed' = Listed /\ Held' = Held /\ Buffers' = Buffers
  BY <1>1 DEF Listed, Held, Buffers
<1>11. Once' /\ NoGhosts'
  BY <1>1, <1>10 DEF Drawing, Painted, Once, NoGhosts
<1>12. Framed'
  BY <1>1, <1>9, <1>10 DEF Drawing, Painted, Framed
<1>13. UpToDate'
  <2> SUFFICES ASSUME NEW t \in Listed, NEW b \in Buffers, b \in rendmask[t],
                      came[t] # "never"
               PROVE  b \notin cleanmask /\ (Clear(t)' => Fresh(b, t)')
    BY <1>1, <1>10 DEF UpToDate
  <2>1. (Clear(t)' => Clear(t)) /\ (Fresh(b, t) => Fresh(b, t)')
    BY <1>1, <1>3, <1>9 DEF Clear, Fresh
  <2> QED
    BY <1>5, <2>1 DEF Drawing, Painted, UpToDate
<1>14. Layered'
  <2> SUFFICES ASSUME NEW b \in Buffers \ cleanmask, NEW x \in Listed, NEW y \in Listed,
                      InOrder(list, x, y), Visible(x), Visible(y),
                      b \in rendmask[x] \cap rendmask[y]
               PROVE  Above(fb[b], x, y)
    BY <1>1, <1>3, <1>9, <1>10 DEF Layered
  <2> QED
    BY <1>5 DEF Drawing, Painted, Layered
<1>15. Waiting'
  <2> SUFFICES ASSUME NEW d \in Clients, pc'[d] = "enter"
               PROVE  /\ vs[d] \in gvslocal[d] /\ status'[vs[d]] = "visible"
                      /\ came[vs[d]] # "never"
    BY <1>1 DEF Waiting, Visible
  <2>1. vs[d] \in gvslocal[d] /\ status[vs[d]] = "visible" /\ came[vs[d]] # "never"
    BY <1>6 DEF Drawing, Waiting, Visible
  <2>2. vs[d] \in Held
    BY <2>1 DEF Held
  <2> QED
    BY <1>8, <2>1, <2>2
<1> QED
  BY <1>7, <1>11, <1>12, <1>13, <1>14, <1>15 DEF Drawing, Painted

\* What a pass shows at its end.
LEMMA FlipShows ==
  ASSUME Inv, Calm, Drawing, NEW c \in Clients, Flip(c)
  PROVE  Shows(renderidx, Ready({"clear"}))
<1>1. pc[c] = "draw" /\ at[c] = None /\ InPass(c)
  BY DEF Flip, InPass
<1>2. /\ Tables /\ Known /\ Pictures /\ Courses /\ Control /\ Walk(c)
      /\ renderidx \in Buffers
      /\ Listed = Held /\ Listed \subseteq Surfaces
      /\ \A t : Redo(t) <=> job[c] # "render" /\ t \in Left(c)
      /\ \A b, t, u : Due(b, t, u) <=>
           b = renderidx /\ updated[c] /\ t \notin Left(c) /\ u \in Left(c)
  BY <1>1, Inside
<1>3. Left(c) = {}
  BY <1>1, <1>2, LeftIs DEF Walk
<1>4. (\A t : ~Redo(t)) /\ (\A b, t, u : ~Due(b, t, u))
  BY <1>2, <1>3
<1>5. renderidx \notin cleanmask
  <2>1. CASE job[c] = "render"
    BY <1>2, <1>3, <2>1 DEF Walk, Cleans
  <2>2. CASE job[c] # "render"
    BY <1>2, <1>3, <2>2 DEF Walk, Cleans
  <2> QED
    BY <2>1, <2>2
<1>6. PICK S : S = Ready({"clear"})
  OBVIOUS
<1>7. ToSet(list) = Listed
  BY <1>2, ElementsAre DEF Tables, Listed
<1>8. S = {s \in Listed : Clear(s)}
  BY <1>6, <1>7 DEF Ready, Clear, Visible
<1>9. \A s \in S : renderidx \in rendmask[s] /\ Visible(s) /\ s \in Listed /\ came[s] # "never"
  BY <1>1, <1>2, <1>3, <1>8 DEF Walk, Visited, Clear
<1>10. PICK f : f = fb[renderidx]
  OBVIOUS
<1>11. f \in Painting
  BY <1>2, <1>10 DEF Pictures
<1>12. \A s \in S : \E i \in DOMAIN f : f[i] = [surface |-> s, frame |-> paddr[s]]
  BY <1>2, <1>4, <1>8, <1>9, <1>10 DEF Drawing, Painted, UpToDate, Fresh, DepictsFrame
<1>13. \A i \in DOMAIN f : f[i].surface \in Listed
  <2> SUFFICES ASSUME NEW i \in DOMAIN f PROVE f[i].surface \in Listed
    OBVIOUS
  <2>1. f[i] \in [surface : Surfaces, frame : Frames]
    <3>1. PICK R : R = [surface : Surfaces, frame : Frames]
      OBVIOUS
    <3>2. f \in Seq(R)
      BY <1>11, <3>1 DEF Painting
    <3>3. f[i] \in R
      BY <3>2
    <3> QED
      BY <3>1, <3>3
  <2>2. f[i].surface \in Surfaces /\ Depicts(f, f[i].surface)
    BY <2>1 DEF Depicts
  <2> QED
    BY <1>2, <1>5, <1>10, <2>2 DEF Drawing, Painted, NoGhosts
<1>14. \A i, j \in DOMAIN f : f[i].surface = f[j].surface => i = j
  BY <1>2, <1>10 DEF Drawing, Painted, Once, Single
<1>15. ASSUME NEW i \in DOMAIN f, NEW j \in DOMAIN f,
              {f[i].surface, f[j].surface} \subseteq S,
              Behind(f[i].surface, f[j].surface)
       PROVE  i < j
  <2>1. PICK x, y : x = f[i].surface /\ y = f[j].surface
    OBVIOUS
  <2>2. x \in S /\ y \in S /\ InOrder(list, x, y)
    BY <1>15, <2>1 DEF Behind, InOrder
  <2>3. Above(f, x, y)
    BY <1>2, <1>4, <1>5, <1>9, <1>10, <2>2 DEF Drawing, Painted, Layered
  <2> QED
    BY <2>1, <2>3 DEF Above
<1> QED
  BY <1>6, <1>7, <1>10, <1>12, <1>13, <1>14, <1>15 DEF Shows

\* k is what is in the buffer after s was painted there, or could not be.
LEMMA PaintDrawing ==
  ASSUME Inv, Calm, Drawing, NEW c \in Clients, UNCHANGED setup, Paint(c)
  PROVE  Drawing'
<1>1. PICK s : s = at[c]
  OBVIOUS
<1>2. PICK b0 : b0 = renderidx
  OBVIOUS
<1>3. PICK clean : clean = IF b0 \in cleanmask THEN <<>> ELSE fb[b0]
  OBVIOUS
<1>4. PICK k : k = IF paddr[s] = None \/ ~itask[s] THEN clean
                   ELSE PaintedOver(clean, s)
  OBVIOUS
<1>5. /\ pc[c] = "draw" /\ s # None /\ Paints(c, s)
      /\ fb' = [fb EXCEPT ![b0] = k]
      /\ rendmask' = IF job[c] = "render" THEN rendmask
                     ELSE [rendmask EXCEPT ![s] = {}]
      /\ cleanmask' = cleanmask \ {b0}
      /\ updated' = [updated EXCEPT ![c] = TRUE]
      /\ pc' = [pc EXCEPT ![c] = "mark"]
      /\ UNCHANGED <<list, status, paddr, itask, gvslocal, came>>
      /\ UNCHANGED <<renderidx, job, vs, at>>
  BY <1>1, <1>2, <1>3, <1>4, Zenon DEF Paint, Goto
<1>6. InPass(c)
  BY <1>5 DEF InPass
<1>7. /\ Tables /\ Known /\ Pictures /\ Courses /\ Control
      /\ b0 \in Buffers /\ Walk(c)
      /\ \A d \in Clients : InPass(d) => d = c
      /\ Listed = Held /\ Listed \subseteq Surfaces /\ s \in Listed
      /\ \A t : Redo(t) <=> job[c] # "render" /\ t \in Left(c)
      /\ \A b, t, u : Due(b, t, u) <=>
           b = b0 /\ updated[c] /\ t \notin Left(c) /\ u \in Left(c)
  BY <1>1, <1>2, <1>5, <1>6, Inside
<1>8. s \in Surfaces
  BY <1>7
<1>9. pc'[c] = "mark" /\ \A d \in Clients : d # c => pc'[d] = pc[d]
  BY <1>5, <1>7 DEF Control
<1>10. updated'[c] = TRUE
  BY <1>5, <1>7, Zenon DEF Courses
<1>11. /\ s \in Left(c) /\ Left(c) \subseteq Listed
       /\ \A x, y : x \in Left(c) /\ InOrder(list, x, y) => y \in Left(c)
  BY <1>1, <1>5, <1>7, LeftIs DEF Walk
<1>12. /\ \A x : ~InOrder(list, x, x)
       /\ \A y : InOrder(list, s, y) => y \in Left(c) \ {s}
  BY <1>7, <1>11, OrderStrict DEF Tables, Known
<1>13. Left(c)' = Left(c) \ {s}
  <2>1. Left(c)' = {t \in Listed : InOrder(list, s, t)}
    BY <1>1, <1>5, <1>9 DEF Left, Listed
  <2>2. Left(c) = {t \in Listed : InOrder(list, s, t) \/ t = s}
    BY <1>1, <1>5 DEF Left
  <2> QED
    BY <1>12, <2>1, <2>2
<1>14. InPass(c)'
  BY <1>9 DEF InPass
<1>15. /\ \A d \in Clients : InPass(d)' => d = c
       /\ \A t : Redo(t)' <=> job[c] # "render" /\ t \in Left(c) \ {s}
       /\ \A b, t, u : Due(b, t, u)' <=>
            b = b0 /\ t \notin Left(c) \ {s} /\ u \in Left(c) \ {s}
  <2>1. /\ \A d \in Clients : InPass(d)' => d = c
        /\ \A t : Redo(t)' <=> job'[c] # "render" /\ t \in Left(c)'
        /\ \A b, t, u : Due(b, t, u)' <=>
             b = renderidx' /\ updated'[c] /\ t \notin Left(c)' /\ u \in Left(c)'
    BY <1>7, <1>9, <1>14, StillInside
  <2> QED
    BY <1>2, <1>5, <1>10, <1>13, <2>1
<1>16. Listed' = Listed /\ Held' = Held /\ Buffers' = Buffers
  BY <1>5 DEF Listed, Held, Buffers
<1>17. /\ \A b \in Buffers : b # b0 => fb'[b] = fb[b]
       /\ fb'[b0] = k
  BY <1>5, <1>7 DEF Pictures
<1>18. /\ \A t \in Surfaces : t # s => rendmask'[t] = rendmask[t]
       /\ job[c] # "render" => rendmask'[s] = {}
       /\ job[c] = "render" => rendmask'[s] = rendmask[s]
  BY <1>5, <1>7, <1>8 DEF Pictures
<1>19. clean \in Painting /\ Single(clean)
  <2>1. <<>> \in Painting /\ Single(<<>>)
    BY DEF Painting, Single
  <2> QED
    BY <1>3, <1>7, <2>1 DEF Pictures, Drawing, Painted, Once
<1>20. \A t \in Surfaces : Depicts(clean, t) => paddr[t] # None /\ t \in Held
  <2>1. CASE b0 \in cleanmask
    BY <1>3, <2>1 DEF Depicts
  <2>2. CASE b0 \notin cleanmask
    BY <1>3, <1>7, <2>2 DEF Drawing, Painted, Framed, NoGhosts
  <2> QED
    BY <2>1, <2>2
<1>22. /\ Single(k)
       /\ \A t \in Surfaces : Depicts(k, t) => paddr[t] # None /\ t \in Held
       /\ \A t \in Surfaces : t # s => Above(k, t, s) \/ ~Visible(s)
       /\ Visible(s) /\ came[s] # "never" => DepictsFrame(k, s, paddr[s])
       /\ \A t, g : t # s /\ DepictsFrame(clean, t, g) => DepictsFrame(k, t, g)
       /\ \A t, u : t # s /\ u # s /\ Above(clean, t, u) => Above(k, t, u)
  <2>1. Visible(s) => itask[s]
    BY <1>8 DEF Drawing, Painted, Framed
  <2>2. came[s] # "never" => paddr[s] # None
    BY <1>8 DEF Drawing, Painted, Framed
  <2>3. CASE paddr[s] = None \/ ~itask[s]
    <3>1. k = clean
      BY <1>4, <2>3
    <3>2. Visible(s) => ~Depicts(k, s)
      BY <1>8, <1>20, <2>1, <2>3, <3>1
    <3>3. \A t \in Surfaces : t # s => Above(k, t, s) \/ ~Visible(s)
      BY <3>2 DEF Depicts, Above
    <3> QED
      BY <1>19, <1>20, <2>1, <2>2, <2>3, <3>1, <3>3
  <2>4. CASE ~(paddr[s] = None \/ ~itask[s])
    <3>1. PICK f \in Frames : f = paddr[s]
      BY <1>7, <1>8, <2>4 DEF Tables
    <3>2. k = PaintedOver(clean, s)
      BY <1>4, <2>4
    <3>3. InFront(k, clean, s, f)
      BY <1>8, <1>19, <3>1, <3>2, PaintedIs, Zenon
    <3>4. s \in Held /\ paddr[s] # None
      BY <1>7, <2>4
    <3> QED
      BY <1>20, <3>1, <3>3, <3>4 DEF InFront
  <2> QED
    BY <2>3, <2>4
<1>23. Once'
  BY <1>16, <1>17, <1>22 DEF Drawing, Painted, Once
<1>24. NoGhosts'
  <2> SUFFICES ASSUME NEW b \in Buffers \ (cleanmask \ {b0}), NEW t \in Surfaces,
                      Depicts(fb'[b], t)
               PROVE  t \in Held
    BY <1>5, <1>16 DEF NoGhosts
  <2>1. CASE b = b0
    BY <1>17, <1>22, <2>1
  <2>2. CASE b # b0
    BY <1>17, <2>2 DEF Drawing, Painted, NoGhosts
  <2> QED
    BY <2>1, <2>2
<1>25. Framed'
  <2> SUFFICES ASSUME NEW b \in Buffers, NEW t \in Surfaces, Depicts(fb'[b], t)
               PROVE  paddr[t] # None
    BY <1>5, <1>16 DEF Drawing, Painted, Framed, Visible
  <2>1. CASE b = b0
    BY <1>17, <1>22, <2>1
  <2>2. CASE b # b0
    BY <1>17, <2>2 DEF Drawing, Painted, Framed
  <2> QED
    BY <2>1, <2>2
\* A mark that counts after the step counted before it.
<1>26. ASSUME NEW t \in Listed, NEW b \in Buffers, b \in rendmask'[t], ~Redo(t)'
       PROVE  b \in rendmask[t] /\ ~Redo(t)
  <2>1. CASE t = s
    BY <1>7, <1>15, <1>18, <1>26, <2>1
  <2>2. CASE t # s
    <3>1. t \in Surfaces
      BY <1>7
    <3> QED
      BY <1>7, <1>15, <1>18, <1>26, <2>2, <3>1
  <2> QED
    BY <2>1, <2>2
<1>27. UpToDate'
  <2> SUFFICES ASSUME NEW t \in Listed, NEW b \in Buffers, b \in rendmask'[t],
                      came[t] # "never", ~Redo(t)'
               PROVE  b \notin cleanmask /\ (Clear(t) => DepictsFrame(fb'[b], t, paddr[t]))
    BY <1>5, <1>16 DEF UpToDate, Clear, Visible, Fresh
  <2>1. b \notin cleanmask /\ (Clear(t) => DepictsFrame(fb[b], t, paddr[t]))
    BY <1>26 DEF Drawing, Painted, UpToDate, Fresh
  <2>2. CASE b # b0
    BY <1>17, <2>1, <2>2
  <2>3. CASE b = b0
    <3>1. clean = fb[b0]
      BY <1>3, <2>1, <2>3
    <3>2. CASE t = s
      BY <1>17, <1>22, <2>1, <2>3, <3>2 DEF Clear
    <3>3. CASE t # s
      BY <1>17, <1>22, <2>1, <2>3, <3>1, <3>3
    <3> QED
      BY <3>2, <3>3
  <2> QED
    BY <2>2, <2>3
<1>28. Layered'
  <2> SUFFICES ASSUME NEW b \in Buffers \ (cleanmask \ {b0}), NEW x \in Listed, NEW y \in Listed,
                      InOrder(list, x, y), Visible(x), Visible(y),
                      b \in rendmask'[x] \cap rendmask'[y],
                      ~Redo(x)', ~Redo(y)', ~Due(b, x, y)'
               PROVE  Above(fb'[b], x, y)
    BY <1>5, <1>16 DEF Layered, Visible
  <2>1. b \in rendmask[x] \cap rendmask[y] /\ ~Redo(x) /\ ~Redo(y)
    BY <1>26
  <2>2. x # y /\ x \in Surfaces /\ y \in Surfaces
    BY <1>7, <1>12
  <2>3. CASE b # b0
    <3>1. ~Due(b, x, y) /\ b \notin cleanmask
      BY <1>7, <2>3
    <3>2. Above(fb[b], x, y)
      BY <2>1, <3>1 DEF Drawing, Painted, Layered
    <3> QED
      BY <1>17, <2>3, <3>2
  <2>4. CASE b = b0 /\ y = s
    BY <1>17, <1>22, <2>2, <2>4
  <2>5. CASE b = b0 /\ x = s
    <3>1. y \in Left(c) \ {s}
      BY <1>12, <2>5
    <3>2. Due(b, x, y)'
      BY <1>15, <2>5, <3>1
    <3> QED
      BY <3>2
  <2>6. CASE b = b0 /\ x # s /\ y # s
    <3>1. ~Due(b, x, y)
      BY <1>7, <1>15, <2>6
    <3>2. CASE b0 \in cleanmask
      <4>1. clean = <<>>
        BY <1>3, <3>2
      <4>2. Above(clean, x, y)
        BY <4>1 DEF Above
      <4> QED
        BY <1>17, <1>22, <2>6, <4>2
    <3>3. CASE b0 \notin cleanmask
      <4>1. Above(fb[b0], x, y) /\ clean = fb[b0]
        BY <1>3, <2>1, <2>6, <3>1, <3>3 DEF Drawing, Painted, Layered
      <4> QED
        BY <1>17, <1>22, <2>6, <4>1
    <3> QED
      BY <3>2, <3>3
  <2> QED
    BY <2>3, <2>4, <2>5, <2>6
<1>29. Waiting'
  BY <1>5, <1>9 DEF Drawing, Waiting, Visible
<1>30. Walk(c)'
  <2>1. OnList(c)'
    BY <1>1, <1>5, <1>7, <1>10, <1>16 DEF OnList
  <2>2. Cleans(c)'
    <3>1. renderidx' \notin cleanmask'
      BY <1>2, <1>5
    <3> QED
      BY <1>5, <1>7, <1>10, <1>16, <3>1 DEF Walk, Cleans, Visible
  <2>3. Visited(c)'
    <3> SUFFICES ASSUME NEW t \in Listed \ (Left(c) \ {s}), Clear(t), t # s
                 PROVE  b0 \in rendmask'[t]
      BY <1>1, <1>2, <1>5, <1>9, <1>13, <1>16 DEF Visited, Clear, Visible
    <3>1. b0 \in rendmask[t]
      BY <1>2, <1>5, <1>7 DEF Walk, Visited
    <3> QED
      BY <1>7, <1>18, <3>1
  <2>4. JustPainted(c)'
    <3> SUFFICES ASSUME Visible(s)
                 PROVE  /\ \A t \in Surfaces : t # s => Above(k, t, s)
                        /\ came[s] = "clear" => DepictsFrame(k, s, paddr[s])
      BY <1>1, <1>2, <1>5, <1>17 DEF JustPainted, Visible, Fresh
    <3> QED
      BY <1>22
  <2> QED
    BY <2>1, <2>2, <2>3, <2>4 DEF Walk
<1> QED
  BY <1>15, <1>23, <1>24, <1>25, <1>27, <1>28, <1>29, <1>30 DEF Drawing, Painted

-------------------------------------------------------------------------------
(* The drawing is kept *)

LEMMA DrawingStep ==
  ASSUME Inv, Inv', Calm, Drawing, [Next]_vars
  PROVE  Drawing'
<1>1. CASE UNCHANGED vars
  BY <1>1, StutterDrawing
<1>2. CASE Next
  <2>1. PICK c \in setup.users :
          Call(c) \/ RaiseAppend(c) \/ Enter(c) \/ Pending(c) \/ Pass(c)
    BY <1>2 DEF Next
  <2>2. c \in Clients /\ UNCHANGED setup
    BY <1>2, SetupTypes DEF Inv, IInv, Control, Next
  <2> QED
    BY <2>1, <2>2, CreateDrawing, DestroyDrawing, ConfigureDrawing, RaiseDrawing,
       RaiseAppendDrawing, SubmitDrawing, EnterDrawing, PendingDrawing,
       SkipDrawing, PaintDrawing, MarkDrawing, FlipDrawing, Zenon DEF Call, Pass
<1> QED
  BY <1>1, <1>2

LEMMA CalmStays == Calm /\ [Next]_vars => Calm'
<1> SUFFICES ASSUME Calm, [Next]_vars PROVE Calm'
  OBVIOUS
<1>1. UNCHANGED setup
  BY Zenon DEF Next, vars
<1> QED
  BY <1>1 DEF Calm

LEMMA DrawingHolds == Spec /\ Calm => [](Inv /\ Calm /\ Drawing)
<1>1. Inv /\ Inv' /\ Calm /\ Drawing /\ [Next]_vars => Drawing'
  BY DrawingStep
<1> QED
  BY <1>1, InitDrawing, CalmStays, InvHolds, PTL DEF Spec

\* Only the end of a pass puts another buffer on display.
LEMMA OnlyFlipShows ==
  ASSUME Inv, [Next]_vars, shown' # shown, shown' # None
  PROVE  \E c \in Clients : Flip(c)
<1>1. ASSUME UNCHANGED vars PROVE FALSE
  BY <1>1, Zenon DEF vars, display
<1>2. PICK c \in setup.users :
        Call(c) \/ RaiseAppend(c) \/ Enter(c) \/ Pending(c) \/ Pass(c)
  BY <1>1 DEF Next
<1>3. ASSUME NEW s \in Surfaces, Destroy(c, s) PROVE FALSE
  BY <1>3, Zenon DEF Destroy
<1>4. ASSUME \/ Create(c)
             \/ \E s \in Surfaces : Configure(c, s) \/ Raise(c, s)
             \/ \E s \in Surfaces, f \in Frames : Submit(c, s, f)
             \/ RaiseAppend(c) \/ Enter(c) \/ Pending(c)
             \/ Skip(c) \/ Paint(c) \/ Mark(c)
      PROVE  FALSE
  <2>1. UNCHANGED shown
    BY <1>4, Zenon DEF Create, Configure, Raise, Submit, RaiseAppend, Enter,
                       Pending, Skip, Paint, Mark, display
  <2> QED
    BY <2>1
<1>5. c \in Clients
  BY <1>2, SetupTypes DEF Inv, IInv, Control
<1> QED
  BY <1>2, <1>3, <1>4, <1>5, Zenon DEF Call, Pass

-------------------------------------------------------------------------------
(* The theorems *)

\* While no expose event raises a window, one client at a time is in a pass,
\* with vss_lock, and rendering is never left set: the lock that
\* render2VideoSurface, configVideoSurface and destroyVideoSurface take is
\* enough, for any number of processes.
THEOREM LockProtects == Spec => [](~setup.layers => OnePass)
<1>1. IInv => (~setup.layers => OnePass)
  BY DEF IInv, LockHeld, OnePass
<1> QED
  BY <1>1, IInvHolds, PTL

\* With two frame buffers or more no client paints the one on display, for any
\* number of clients that draw with the lock, and for one that also changes its
\* layer, which draws without it.  (Two at once without the lock would take
\* renderidx from each other between the steps that the model has.)
THEOREM NeverTears == Spec => [](setup.buffers > 1 /\ Calm => NoTearing)
<1>1. IInv => (setup.buffers > 1 /\ Calm => NoTearing)
  BY DEF IInv, BuffersApart, NoTearing
<1> QED
  BY <1>1, IInvHolds, PTL

\* The table of surfaces, the masks of the buffers and the course of each call
\* keep to their types; the counter of the surfaces never goes below zero.
THEOREM TypeCorrect == Spec => []TypeOK
<1>1. Inv => TypeOK
  <2> SUFFICES ASSUME Inv PROVE TypeOK
    OBVIOUS
  <2>1. Control /\ renderidx \in Buffers
    BY DEF Inv, IInv, BuffersApart
  <2>2. Tables /\ Pictures /\ Courses
    BY DEF Inv, Types
  <2>3. cnt \in Nat
    <3>1. Len(list) \in Nat /\ Cardinality(Moving) \in Nat
      BY <2>2, Finite DEF Inv, Register, Tables
    <3> QED
      BY <3>1 DEF Inv, Register, Counted
  <2> QED
    BY <2>1, <2>2, <2>3 DEF TypeOK, Control, Tables, Pictures, Courses, Painting,
                            Places, Jobs
<1> QED
  BY <1>1, InvHolds, PTL

\* What the device's list, the processes and the table know of the surfaces
\* agrees, whatever surfaces are created, destroyed and reconfigured by any
\* number of clients; windows may be raised as well where there is one client,
\* for _configMasterVideoLayer takes no lock.
THEOREM RegistryCorrect == Spec => [](Calm => Registry)
<1>1. Inv => (Calm => Registry)
  <2> SUFFICES ASSUME Inv, Calm PROVE Registry
    OBVIOUS
  <2>1. Known /\ Owned /\ Counted /\ (init <=> cnt > 0)
    BY DEF Inv, Register, SetUp
  <2>2. ToSet(list) = Listed
    BY ElementsAre DEF Inv, Types, Tables, Listed
  <2>3. Held = UNION {gvslocal[c] : c \in Clients}
    BY DEF Held
  <2>4. {s \in Surfaces : status[s] # "idle"} = ToSet(list) \cup Moving \cup Dying
    BY <2>1, <2>2 DEF Known, Busy
  <2>5. ToSet(list) \cup Moving = UNION {gvslocal[c] : c \in Clients}
    BY <2>1, <2>2, <2>3 DEF Known
  <2> QED
    BY <2>1, <2>4, <2>5 DEF Registry, Known, Distinct, Owned, Counted
<1> QED
  BY <1>1, InvHolds, PTL

\* What is put on display shows every visible surface whose latest frame came
\* while no pass was under way, those in front painted over those behind, and
\* nothing of a surface that was destroyed: rendmask and cleanmask forget
\* nothing, whatever surfaces are created, destroyed, reconfigured and drawn by
\* any number of clients; windows may be raised as well where there is one
\* client.
THEOREM PassesRefresh == Spec /\ Calm => RefreshesAll
<1>1. Inv /\ Calm /\ Drawing /\ [Next]_vars
        => [shown' # shown /\ shown' # None => Shows(shown', Ready({"clear"}))]_vars
  <2> SUFFICES ASSUME Inv, Calm, Drawing, [Next]_vars, shown' # shown, shown' # None
               PROVE  Shows(shown', Ready({"clear"}))
    OBVIOUS
  <2>1. PICK c \in Clients : Flip(c)
    BY OnlyFlipShows
  <2>2. shown' = renderidx
    BY <2>1, Zenon DEF Flip
  <2>3. Shows(renderidx, Ready({"clear"}))
    BY <2>1, FlipShows
  <2> QED
    BY <2>2, <2>3
<1> QED
  BY <1>1, DrawingHolds, PTL DEF Spec, RefreshesAll
===============================================================================
