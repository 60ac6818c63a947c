---------------------------- MODULE HwBufAllocator ----------------------------
(***************************************************************************)
(* libs/hbuf_alloc/hwbuffer_allocator.c: the process-wide allocator of     *)
(* physically contiguous buffers.  Buffers of one rounded size share a     *)
(* zone; a zone keeps the buffers its clients gave back in a free pool and *)
(* dies with its last outstanding buffer.  Every operation runs under      *)
(* g_hwallocator_lock, except that mfw_free_hw_buffer reads the handle     *)
(* before it takes the lock.                                               *)
(*                                                                         *)
(* A buffer stands for its descriptor, its physical memory and its         *)
(* mapping.  The doubly linked list "all" and the LIFO "free" are sets:    *)
(* their order decides only which cached buffer is handed out.  stale[z]   *)
(* is the part of the chain hanging off zone->free whose descriptors       *)
(* recycle_zone has freed: it does not reset zone->free.                   *)
(***************************************************************************)
EXTENDS Integers, FiniteSets

CONSTANTS Sizes,     \* the page-rounded sizes requested
          Buffers,   \* the pieces of device memory
          Clients,   \* the threads that allocate and free
          None       \* no buffer

ASSUME AllocatorAssumption ==
  /\ IsFiniteSet(Buffers)
  /\ None \notin Buffers

VARIABLES
  process,   \* "running", "exiting" (the destructor ran), "crashed"
             \* (NULL dereferenced) or "undefined" (freed memory used)
  opened,    \* allocator->devfd is open
  zones,     \* allocator->zones, by size
  all,       \* zone->all
  free,      \* zone->free, up to the first freed descriptor
  stale,     \* zone->free, from the first freed descriptor on
  cnt,       \* zone->cnt
  freecnt,   \* zone->freecnt
  zoneOf,    \* bufdesc->zone
  held,      \* handles each client holds
  freeing    \* the handle whose zone a client read, before it has the lock

vars == <<process, opened, zones, all, free, stale, cnt, freecnt, zoneOf,
          held, freeing>>

lists == <<zones, all, free, stale, cnt, freecnt>>

Init ==
  /\ process = "running"
  /\ opened = FALSE
  /\ zones = {}
  /\ all = [z \in Sizes |-> {}]
  /\ free = [z \in Sizes |-> {}]
  /\ stale = [z \in Sizes |-> {}]
  /\ cnt = [z \in Sizes |-> 0]
  /\ freecnt = [z \in Sizes |-> 0]
  /\ zoneOf \in [Buffers -> Sizes]
  /\ held = [c \in Clients |-> {}]
  /\ freeing = [c \in Clients |-> None]

Allocated == UNION {all[z] : z \in Sizes}

Outstanding == UNION {held[c] : c \in Clients}

-------------------------------------------------------------------------------
(* The pools after a sequence of list operations, as one record, so that  *)
(* the steps of one call compose.                                         *)

Pools == [zones |-> zones, all |-> all, free |-> free, stale |-> stale,
          cnt |-> cnt, freecnt |-> freecnt]

SetPools(p) ==
  /\ zones' = p.zones
  /\ all' = p.all
  /\ free' = p.free
  /\ stale' = p.stale
  /\ cnt' = p.cnt
  /\ freecnt' = p.freecnt

\* Mutant: the destroyed zone stays linked in the allocator.
DestroyedStillLinked(p, z) ==
  [zones |-> p.zones,
   all |-> [p.all EXCEPT ![z] = {}],
   free |-> [p.free EXCEPT ![z] = {}],
   stale |-> [p.stale EXCEPT ![z] = {}],
   cnt |-> [p.cnt EXCEPT ![z] = 0],
   freecnt |-> [p.freecnt EXCEPT ![z] = 0]]

\* destory_zone: every buffer of the zone is unmapped and given back,
\* handed out or not, and the zone is freed.
Destroyed(p, z) ==
  [zones |-> p.zones \ {z},
   all |-> [p.all EXCEPT ![z] = {}],
   free |-> [p.free EXCEPT ![z] = {}],
   stale |-> [p.stale EXCEPT ![z] = {}],
   cnt |-> [p.cnt EXCEPT ![z] = 0],
   freecnt |-> [p.freecnt EXCEPT ![z] = 0]]

\* Mutant: recycling counts every buffer of a zone as recycled.
RecycledMiscounted(s) ==
  LET others == zones \ {s}
      ofOther(z, x, y) == IF z \in others THEN x ELSE y
  IN [zones |-> zones,
      all |-> [z \in Sizes |-> ofOther(z, all[z] \ free[z], all[z])],
      free |-> [z \in Sizes |-> ofOther(z, {}, free[z])],
      stale |-> [z \in Sizes |-> ofOther(z, free[z], stale[z])],
      cnt |-> [z \in Sizes |-> ofOther(z, cnt[z] - Cardinality(free[z]), cnt[z])],
      freecnt |-> [z \in Sizes |->
                     ofOther(z, freecnt[z] - Cardinality(all[z]), freecnt[z])]]

\* recycle_exclude: the free buffers of every other zone go back to the
\* device; a zone left without buffers is freed; zone->free keeps its value.
RecycledExcept(s) ==
  LET others == zones \ {s}
      kept(z) == all[z] \ free[z]
      dead(z) == z \in others /\ kept(z) = {}
  IN [zones |-> {z \in zones : ~dead(z)},
      all |-> [z \in Sizes |-> IF z \in others THEN kept(z) ELSE all[z]],
      free |-> [z \in Sizes |-> IF z \in others THEN {} ELSE free[z]],
      stale |-> [z \in Sizes |->
                   IF z \in others
                   THEN IF dead(z) THEN {} ELSE free[z]
                   ELSE stale[z]],
      cnt |-> [z \in Sizes |->
                 IF z \in others
                 THEN IF dead(z) THEN 0 ELSE cnt[z] - Cardinality(free[z])
                 ELSE cnt[z]],
      freecnt |-> [z \in Sizes |->
                     IF z \in others
                     THEN IF dead(z) THEN 0
                          ELSE freecnt[z] - Cardinality(free[z])
                     ELSE freecnt[z]]]

\* find_or_create_zone_by_size, then LIST2_ADD(zone->all) and zone->cnt++.
WithNew(p, s, b) ==
  [zones |-> p.zones \cup {s},
   all |-> [p.all EXCEPT ![s] = @ \cup {b}],
   free |-> p.free,
   stale |-> p.stale,
   cnt |-> [p.cnt EXCEPT ![s] = @ + 1],
   freecnt |-> p.freecnt]

\* Mutant: bufdesc->zone is not set for a buffer that is handed out.
HandOutWithoutZone(c, s, b) ==
  /\ held' = [held EXCEPT ![c] = @ \cup {b}]
  /\ UNCHANGED <<zoneOf, freeing>>

HandOut(c, s, b) ==
  /\ held' = [held EXCEPT ![c] = @ \cup {b}]
  /\ zoneOf' = [zoneOf EXCEPT ![b] = s]
  /\ UNCHANGED freeing

Undefined ==
  /\ process' = "undefined"
  /\ UNCHANGED <<zones, all, free, stale, cnt, freecnt>>

-------------------------------------------------------------------------------
(* mfw_new_hw_buffer *)

\* The device cannot be opened: the call fails before it looks for a zone.
OpenFails ==
  /\ process = "running"
  /\ ~opened
  /\ UNCHANGED vars

\* malloc of a new zone fails: LIST2_ADD writes through the NULL pointer
\* before the caller tests it.
ZoneMallocFails(s) ==
  /\ process = "running"
  /\ s \notin zones
  /\ process' = "crashed"
  /\ opened' = TRUE
  /\ UNCHANGED <<zones, all, free, stale, cnt, freecnt, zoneOf, held, freeing>>

\* Mutant: the buffer handed out is not taken off the free pool.
ReuseWithoutPop(c, s) ==
  /\ process = "running"
  /\ \E b \in free[s] :
       /\ freecnt' = [freecnt EXCEPT ![s] = @ - 1]
       /\ HandOut(c, s, b)
  /\ UNCHANGED <<process, opened, zones, all, free, stale, cnt>>

\* LIST_POP of a cached buffer.
Reuse(c, s) ==
  /\ process = "running"
  /\ \E b \in free[s] :
       /\ free' = [free EXCEPT ![s] = @ \ {b}]
       /\ freecnt' = [freecnt EXCEPT ![s] = @ - 1]
       /\ HandOut(c, s, b)
  /\ UNCHANGED <<process, opened, zones, all, stale, cnt>>

\* LIST_POP of a descriptor that recycle_zone freed: the client gets a
\* buffer that may meanwhile be in use for another one.
ReuseStale(c, s) ==
  /\ process = "running"
  /\ free[s] = {}
  /\ \E b \in stale[s] : HandOut(c, s, b)
  /\ Undefined
  /\ UNCHANGED opened

MustCreate(s) == process = "running" /\ free[s] = {} /\ stale[s] = {}

\* create_hwbuf: the driver has memory at once.
Create(c, s) ==
  /\ MustCreate(s)
  /\ \E b \in Buffers \ Allocated :
       /\ SetPools(WithNew(Pools, s, b))
       /\ HandOut(c, s, b)
  /\ opened' = TRUE
  /\ UNCHANGED process

\* create_hwbuf: the driver has none, the free buffers of the other zones
\* are recycled and the second request succeeds.
RecycleAndCreate(c, s) ==
  /\ MustCreate(s)
  /\ \A z \in zones \ {s} : stale[z] = {}
  /\ LET p == RecycledExcept(s)
     IN \E b \in Buffers \ UNION {p.all[z] : z \in Sizes} :
          /\ SetPools(WithNew(p, s, b))
          /\ HandOut(c, s, b)
  /\ opened' = TRUE
  /\ UNCHANGED process

\* create_hwbuf fails: malloc or mmap at once, or the driver twice, after a
\* recycling.  mfw_new_hw_buffer then destroys a zone that has no buffer.
CreateFails(s, recycle) ==
  /\ MustCreate(s)
  /\ recycle => \A z \in zones \ {s} : stale[z] = {}
  /\ LET p == IF recycle THEN RecycledExcept(s) ELSE Pools
     IN SetPools(IF p.all[s] = {} THEN Destroyed(p, s) ELSE p)
  /\ opened' = TRUE
  /\ UNCHANGED <<process, zoneOf, held, freeing>>

\* A second recycling walks the dangling chain the first one left and frees
\* its descriptors again.
RecycleStale(s) ==
  /\ MustCreate(s)
  /\ \E z \in zones \ {s} : stale[z] # {}
  /\ Undefined
  /\ opened' = TRUE
  /\ UNCHANGED <<zoneOf, held, freeing>>

-------------------------------------------------------------------------------
(* mfw_free_hw_buffer *)

\* zone = bufdesc->zone, before LOCK().
FreeBegin(c, b) ==
  /\ process = "running"
  /\ freeing[c] = None
  /\ b \in held[c]
  /\ freeing' = [freeing EXCEPT ![c] = b]
  /\ held' = [held EXCEPT ![c] = @ \ {b}]
  /\ UNCHANGED <<process, opened, zones, all, free, stale, cnt, freecnt, zoneOf>>

\* LIST_PUSH, freecnt++, and the zone goes when all its buffers are free.
Pushed(z, b) ==
  [zones |-> zones,
   all |-> all,
   free |-> [free EXCEPT ![z] = @ \cup {b}],
   stale |-> stale,
   cnt |-> cnt,
   freecnt |-> [freecnt EXCEPT ![z] = @ + 1]]

FreeLocked(c) ==
  /\ process = "running"
  /\ freeing[c] # None
  /\ LET z == zoneOf[freeing[c]]
         p == Pushed(z, freeing[c])
     IN SetPools(IF p.freecnt[z] = p.cnt[z] THEN Destroyed(p, z) ELSE p)
  /\ freeing' = [freeing EXCEPT ![c] = None]
  /\ UNCHANGED <<process, opened, zoneOf, held>>

-------------------------------------------------------------------------------
(* hwbuffer_deconstructor: runs at exit, whoever still holds buffers.  A   *)
(* free that comes later uses its freed descriptor.                        *)

Deconstruct ==
  /\ process = "running"
  /\ process' = "exiting"
  /\ zones' = {}
  /\ all' = [z \in Sizes |-> {}]
  /\ free' = [z \in Sizes |-> {}]
  /\ stale' = [z \in Sizes |-> {}]
  /\ cnt' = [z \in Sizes |-> 0]
  /\ freecnt' = [z \in Sizes |-> 0]
  /\ UNCHANGED <<opened, zoneOf, held, freeing>>

FreeAfterExit(c) ==
  /\ process = "exiting"
  /\ held[c] # {} \/ freeing[c] # None
  /\ Undefined
  /\ UNCHANGED <<opened, zoneOf, held, freeing>>

-------------------------------------------------------------------------------
New(c, s) ==
  \/ Reuse(c, s)
  \/ ReuseStale(c, s)
  \/ Create(c, s)
  \/ RecycleAndCreate(c, s)
  \/ \E recycle \in BOOLEAN : CreateFails(s, recycle)
  \/ RecycleStale(s)
  \/ ZoneMallocFails(s)

Free(c) ==
  \/ \E b \in Buffers : FreeBegin(c, b)
  \/ FreeLocked(c)
  \/ FreeAfterExit(c)

Next ==
  \/ \E c \in Clients : (\E s \in Sizes : New(c, s)) \/ Free(c)
  \/ OpenFails
  \/ Deconstruct

Spec == Init /\ [][Next]_vars

-------------------------------------------------------------------------------
(* Properties *)

TypeOK ==
  /\ process \in {"running", "exiting", "crashed", "undefined"}
  /\ opened \in BOOLEAN
  /\ zones \in SUBSET Sizes
  /\ all \in [Sizes -> SUBSET Buffers]
  /\ free \in [Sizes -> SUBSET Buffers]
  /\ stale \in [Sizes -> SUBSET Buffers]
  /\ cnt \in [Sizes -> Nat]
  /\ freecnt \in [Sizes -> Nat]
  /\ zoneOf \in [Buffers -> Sizes]
  /\ held \in [Clients -> SUBSET Buffers]
  /\ freeing \in [Clients -> Buffers \cup {None}]

\* Buffers a client still answers for: held, or on their way to the pool.
Owned(c) == held[c] \cup ({freeing[c]} \ {None})

\* The counters free() compares to decide that a zone is idle say what the
\* lists hold, also after a recycling: if cnt or freecnt drifted, a zone
\* would be destroyed under its clients or never at all.
Accounting ==
  process = "running" =>
    \A z \in Sizes :
      /\ free[z] \subseteq all[z]
      /\ cnt[z] = Cardinality(all[z])
      /\ freecnt[z] = Cardinality(free[z])

\* The buffers of a zone that are not in its free pool are exactly those
\* owned by one client, whose handle names that zone: nothing that is in use
\* is destroyed, recycled, or handed out a second time.
Ownership ==
  process = "running" =>
    /\ \A c, d \in Clients : c # d => Owned(c) \cap Owned(d) = {}
    /\ \A z \in Sizes, b \in Buffers :
         b \in all[z] \ free[z]
           <=> zoneOf[b] = z /\ \E c \in Clients : b \in Owned(c)
    /\ \A y, z \in Sizes : y # z => all[y] \cap all[z] = {}

\* Between two calls every zone has a buffer outstanding and every buffer is
\* in a live zone: memory nobody uses goes back to the driver.
NoIdleZone ==
  process = "running" =>
    \A z \in Sizes :
      /\ z \in zones <=> all[z] # {}
      /\ z \in zones => free[z] # all[z]

\* The free pool of a zone links only buffers of the zone's all pool.
FreePoolLive ==
  process = "running" => \A z \in Sizes : stale[z] = {}

-------------------------------------------------------------------------------
(* The promise to the callers. *)

CONSTANTS Device, Pool

owner ==
  [b \in Buffers |->
     IF process = "running" /\ \E c \in Clients : b \in Owned(c)
     THEN CHOOSE c \in Clients : b \in Owned(c)
     ELSE IF \E z \in Sizes : b \in free[z] THEN Pool ELSE Device]

promised == process = "running"

Promise == INSTANCE BufferOwnership

PromiseSpec == Promise!Spec
===============================================================================
