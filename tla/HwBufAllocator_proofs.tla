------------------------ MODULE HwBufAllocator_proofs ------------------------
(***************************************************************************)
(* Theorems about HwBufAllocator, for any sizes, buffers and threads.      *)
(***************************************************************************)
EXTENDS HwBufAllocator, FiniteSetTheorems, TLAPS

\* A client that gives a handle back does not keep it, and a handle names
\* the zone whose lists its buffer is on.
Handles ==
  process = "running" =>
    \A c \in Clients : freeing[c] \notin held[c]

IInv == TypeOK /\ Accounting /\ Ownership /\ NoIdleZone /\ Handles

LEMMA InitIInv == Init => IInv
<1> SUFFICES ASSUME Init PROVE IInv
  OBVIOUS
<1>1. TypeOK
  BY DEF Init, TypeOK
<1>2. Accounting
  BY FS_EmptySet DEF Init, Accounting
<1>3. Ownership /\ Handles
  BY AllocatorAssumption DEF Init, Ownership, Handles, Owned
<1>4. NoIdleZone
  BY DEF Init, NoIdleZone
<1> QED
  BY <1>1, <1>2, <1>3, <1>4 DEF IInv

LEMMA ReuseStep ==
  ASSUME IInv, NEW c \in Clients, NEW s \in Sizes, Reuse(c, s)
  PROVE  IInv'
<1>0. PICK b \in free[s] :
        /\ free' = [free EXCEPT ![s] = @ \ {b}]
        /\ freecnt' = [freecnt EXCEPT ![s] = @ - 1]
        /\ HandOut(c, s, b)
  BY DEF Reuse
<1>1. /\ b \in Buffers /\ b \in all[s] /\ process = "running" /\ b # None
      /\ UNCHANGED <<process, opened, zones, all, stale, cnt, freeing>>
  BY <1>0, AllocatorAssumption DEF Reuse, IInv, TypeOK, Accounting, HandOut
<1>2. \A d \in Clients : b \notin Owned(d)
  BY <1>0, <1>1 DEF IInv, Ownership, TypeOK
<1>3. /\ freecnt[s] = Cardinality(free[s])
      /\ IsFiniteSet(free[s])
      /\ Cardinality(free[s] \ {b}) = Cardinality(free[s]) - 1
      /\ Cardinality(free[s] \ {b}) \in Nat
  BY <1>0, <1>1, AllocatorAssumption, FS_Subset, FS_RemoveElement, FS_CardinalityType
     DEF IInv, Accounting, TypeOK
<1>4. TypeOK'
  BY <1>0, <1>1, <1>3 DEF IInv, TypeOK, HandOut
<1>5. Accounting'
  BY <1>0, <1>1, <1>3 DEF IInv, Accounting, TypeOK
<1>6. /\ \A d \in Clients : Owned(d)' = IF d = c THEN Owned(d) \cup {b} ELSE Owned(d)
      /\ \A x \in Buffers : x # b => zoneOf'[x] = zoneOf[x]
      /\ zoneOf'[b] = s
  BY <1>0, <1>1 DEF Owned, HandOut, IInv, TypeOK
<1>7. Ownership'
  <2>1. \A d, e \in Clients : d # e => Owned(d)' \cap Owned(e)' = {}
    BY <1>1, <1>2, <1>6 DEF IInv, Ownership
  <2>2. ASSUME NEW z \in Sizes, NEW x \in Buffers
        PROVE  x \in all'[z] \ free'[z]
                 <=> zoneOf'[x] = z /\ \E d \in Clients : x \in Owned(d)'
    <3>1. CASE x = b
      BY <3>1, <1>0, <1>1, <1>6 DEF IInv, Ownership, TypeOK
    <3>2. CASE x # b
      BY <3>2, <1>0, <1>1, <1>6 DEF IInv, Ownership, TypeOK
    <3> QED BY <3>1, <3>2
  <2> QED
    BY <2>1, <2>2, <1>1 DEF IInv, Ownership
<1>8. NoIdleZone'
  BY <1>0, <1>1 DEF IInv, NoIdleZone, TypeOK, Accounting
<1>9. Handles'
  BY <1>0, <1>1, <1>2, <1>6 DEF IInv, Handles, HandOut, TypeOK, Owned
<1> QED
  BY <1>4, <1>5, <1>7, <1>8, <1>9 DEF IInv

-------------------------------------------------------------------------------
(* The steps of one call compose: what holds of the pools between two      *)
(* calls is stated of any value p of them, with the owners own and the     *)
(* zones zo of the handles.                                                *)

PoolType == [zones : SUBSET Sizes,
             all : [Sizes -> SUBSET Buffers],
             free : [Sizes -> SUBSET Buffers],
             stale : [Sizes -> SUBSET Buffers],
             cnt : [Sizes -> Nat],
             freecnt : [Sizes -> Nat]]

Counted(p) ==
  \A z \in Sizes : /\ p.free[z] \subseteq p.all[z]
                   /\ p.cnt[z] = Cardinality(p.all[z])
                   /\ p.freecnt[z] = Cardinality(p.free[z])

Owning(p, own, zo) ==
  /\ \A z \in Sizes, b \in Buffers :
       b \in p.all[z] \ p.free[z]
         <=> zo[b] = z /\ \E c \in Clients : b \in own[c]
  /\ \A y, z \in Sizes : y # z => p.all[y] \cap p.all[z] = {}

Busy(p) ==
  \A z \in Sizes : /\ z \in p.zones <=> p.all[z] # {}
                   /\ z \in p.zones => p.free[z] # p.all[z]

PoolsInv(p, own, zo) ==
  p \in PoolType /\ Counted(p) /\ Owning(p, own, zo) /\ Busy(p)

OwnedMap == [c \in Clients |-> Owned(c)]

LEMMA PoolsInvNow ==
  ASSUME IInv, process = "running"
  PROVE  PoolsInv(Pools, OwnedMap, zoneOf)
BY DEF IInv, TypeOK, Accounting, Ownership, NoIdleZone, PoolsInv, Pools,
       PoolType, Counted, Owning, Busy, OwnedMap

LEMMA RecycledInv ==
  ASSUME IInv, process = "running", NEW s \in Sizes
  PROVE  PoolsInv(RecycledExcept(s), OwnedMap, zoneOf)
<1> DEFINE p == RecycledExcept(s)
           others == zones \ {s}
<1>1. ASSUME NEW z \in others
      PROVE  all[z] \ free[z] # {}
  <2>1. z \in Sizes /\ z \in zones
    BY DEF IInv, TypeOK
  <2>2. free[z] \subseteq all[z] /\ free[z] # all[z]
    BY <2>1 DEF IInv, NoIdleZone, Accounting
  <2> QED
    BY <2>2
<1>2. ASSUME NEW z \in Sizes
      PROVE  /\ IsFiniteSet(free[z]) /\ Cardinality(free[z]) \in Nat
             /\ IsFiniteSet(all[z]) /\ Cardinality(all[z]) \in Nat
             /\ IsFiniteSet(all[z] \ free[z]) /\ Cardinality(all[z] \ free[z]) \in Nat
             /\ Cardinality(all[z] \ free[z]) = Cardinality(all[z]) - Cardinality(free[z])
  <2>1. free[z] \subseteq all[z] /\ all[z] \subseteq Buffers
    BY DEF IInv, TypeOK, Accounting
  <2>2. IsFiniteSet(all[z]) /\ IsFiniteSet(free[z]) /\ IsFiniteSet(all[z] \ free[z])
    BY <2>1, AllocatorAssumption, FS_Subset
  <2>3. all[z] \cap free[z] = free[z]
    BY <2>1
  <2> QED
    BY <2>2, <2>3, FS_CardinalityType, FS_Difference
<1>3. p = [zones |-> zones,
           all |-> [z \in Sizes |-> IF z \in others THEN all[z] \ free[z] ELSE all[z]],
           free |-> [z \in Sizes |-> IF z \in others THEN {} ELSE free[z]],
           stale |-> [z \in Sizes |-> IF z \in others THEN free[z] ELSE stale[z]],
           cnt |-> [z \in Sizes |-> IF z \in others THEN cnt[z] - Cardinality(free[z])
                                    ELSE cnt[z]],
           freecnt |-> [z \in Sizes |-> IF z \in others
                                        THEN freecnt[z] - Cardinality(free[z])
                                        ELSE freecnt[z]]]
  BY <1>1, Zenon DEF RecycledExcept
<1> HIDE DEF p
<1>4. Counted(p)
  <2>1. ASSUME NEW z \in Sizes
        PROVE  /\ p.free[z] \subseteq p.all[z]
               /\ p.cnt[z] = Cardinality(p.all[z])
               /\ p.freecnt[z] = Cardinality(p.free[z])
    <3>1. free[z] \subseteq all[z] /\ cnt[z] = Cardinality(all[z])
          /\ freecnt[z] = Cardinality(free[z])
      BY DEF IInv, Accounting
    <3>2. CASE z \in others
      <4>1. /\ p.all[z] = all[z] \ free[z] /\ p.free[z] = {}
            /\ p.cnt[z] = cnt[z] - Cardinality(free[z])
            /\ p.freecnt[z] = freecnt[z] - Cardinality(free[z])
        BY <3>2, <1>3
      <4>2. /\ Cardinality(free[z]) \in Nat
            /\ Cardinality(all[z] \ free[z]) = Cardinality(all[z]) - Cardinality(free[z])
        BY <1>2
      <4> QED
        BY <4>1, <4>2, <3>1, FS_EmptySet
    <3>3. CASE z \notin others
      BY <3>1, <3>3, <1>3
    <3> QED
      BY <3>2, <3>3
  <2> QED
    BY <2>1 DEF Counted
<1>7. p \in PoolType
  <2>1. \A z \in Sizes : p.cnt[z] \in Nat /\ p.freecnt[z] \in Nat
    <3> SUFFICES ASSUME NEW z \in Sizes PROVE p.cnt[z] \in Nat /\ p.freecnt[z] \in Nat
      OBVIOUS
    <3>1. free[z] \subseteq all[z] /\ cnt[z] = Cardinality(all[z])
          /\ freecnt[z] = Cardinality(free[z])
      BY DEF IInv, Accounting
    <3>2. cnt[z] - Cardinality(free[z]) \in Nat /\ freecnt[z] - Cardinality(free[z]) \in Nat
      <4>1. /\ Cardinality(free[z]) \in Nat
            /\ Cardinality(all[z] \ free[z]) \in Nat
            /\ Cardinality(all[z] \ free[z]) = Cardinality(all[z]) - Cardinality(free[z])
        BY <1>2
      <4> QED
        BY <4>1, <3>1
    <3> QED
      BY <3>2, <1>3 DEF IInv, TypeOK
  <2> QED
    BY <2>1, <1>3 DEF IInv, TypeOK, PoolType
<1>5. Owning(p, OwnedMap, zoneOf)
  BY <1>3 DEF IInv, TypeOK, Ownership, Owning, OwnedMap
<1>6. Busy(p)
  BY <1>1, <1>3 DEF IInv, TypeOK, NoIdleZone, Busy
<1> QED
  BY <1>4, <1>5, <1>6, <1>7 DEF PoolsInv, p

LEMMA WithNewInv ==
  ASSUME NEW p, NEW own \in [Clients -> SUBSET Buffers], NEW zo \in [Buffers -> Sizes],
         PoolsInv(p, own, zo), NEW s \in Sizes, NEW c \in Clients,
         NEW b \in Buffers \ UNION {p.all[z] : z \in Sizes}, p.free[s] = {}
  PROVE  PoolsInv(WithNew(p, s, b), [own EXCEPT ![c] = @ \cup {b}],
                  [zo EXCEPT ![b] = s])
<1> DEFINE q == WithNew(p, s, b)
           own1 == [own EXCEPT ![c] = @ \cup {b}]
           zo1 == [zo EXCEPT ![b] = s]
<1>1. p \in PoolType /\ Counted(p) /\ Owning(p, own, zo) /\ Busy(p)
  BY DEF PoolsInv
<1>2. q = [zones |-> p.zones \cup {s}, all |-> [p.all EXCEPT ![s] = @ \cup {b}],
           free |-> p.free, stale |-> p.stale,
           cnt |-> [p.cnt EXCEPT ![s] = @ + 1], freecnt |-> p.freecnt]
  BY DEF WithNew
<1>3. \A z \in Sizes : b \notin p.all[z] /\ b \notin p.free[z]
  BY <1>1 DEF Counted
<1>4. IsFiniteSet(p.all[s]) /\ Cardinality(p.all[s] \cup {b}) = Cardinality(p.all[s]) + 1
  BY <1>1, <1>3, AllocatorAssumption, FS_Subset, FS_AddElement DEF PoolType
<1>5. q \in PoolType
  BY <1>1, <1>2 DEF PoolType
<1>6. Counted(q)
  BY <1>1, <1>2, <1>4 DEF PoolType, Counted
<1>7. Owning(q, own1, zo1)
  <2>1. ASSUME NEW z \in Sizes, NEW x \in Buffers
        PROVE  x \in q.all[z] \ q.free[z]
                 <=> zo1[x] = z /\ \E d \in Clients : x \in own1[d]
    <3>1. CASE x = b
      BY <3>1, <1>1, <1>2, <1>3 DEF PoolType
    <3>2. CASE x # b
      BY <3>2, <1>1, <1>2, <1>3 DEF PoolType, Owning
    <3> QED BY <3>1, <3>2
  <2>2. \A y, z \in Sizes : y # z => q.all[y] \cap q.all[z] = {}
    BY <1>1, <1>2, <1>3 DEF PoolType, Owning
  <2> QED
    BY <2>1, <2>2 DEF Owning
<1>8. Busy(q)
  BY <1>1, <1>2, <1>3 DEF PoolType, Busy
<1> QED
  BY <1>5, <1>6, <1>7, <1>8 DEF PoolsInv

LEMMA DestroyedInv ==
  ASSUME NEW p, NEW own, NEW zo, PoolsInv(p, own, zo), NEW s \in Sizes,
         \A b \in Buffers : zo[b] = s => \A c \in Clients : b \notin own[c]
  PROVE  PoolsInv(Destroyed(p, s), own, zo)
<1>1. p \in PoolType /\ Counted(p) /\ Owning(p, own, zo) /\ Busy(p)
  BY DEF PoolsInv
<1>2. Destroyed(p, s) \in PoolType /\ Busy(Destroyed(p, s))
  BY <1>1 DEF Destroyed, PoolType, Busy
<1>3. Counted(Destroyed(p, s))
  BY <1>1, FS_EmptySet DEF Destroyed, PoolType, Counted
<1>4. Owning(Destroyed(p, s), own, zo)
  BY <1>1 DEF Destroyed, PoolType, Owning
<1> QED
  BY <1>2, <1>3, <1>4 DEF PoolsInv

\* The counted, owned and busy pools are what the invariant says of a
\* running process; the converse of PoolsInvNow, after a step.
LEMMA PoolsInvNext ==
  ASSUME NEW p, SetPools(p), PoolsInv(p, OwnedMap', zoneOf'),
         process' \in {"running"}, opened' \in BOOLEAN,
         zoneOf' \in [Buffers -> Sizes],
         held' \in [Clients -> SUBSET Buffers],
         freeing' \in [Clients -> Buffers \cup {None}],
         \A c, d \in Clients : c # d => Owned(c)' \cap Owned(d)' = {},
         \A c \in Clients : freeing'[c] \notin held'[c]
  PROVE  IInv'
<1>1. p \in PoolType /\ Counted(p) /\ Owning(p, OwnedMap', zoneOf') /\ Busy(p)
  BY DEF PoolsInv
<1>2. TypeOK'
  BY <1>1 DEF TypeOK, SetPools, PoolType
<1>3. Accounting' /\ NoIdleZone' /\ Handles'
  BY <1>1 DEF Accounting, NoIdleZone, Handles, Counted, Busy, SetPools
<1>4. Ownership'
  BY <1>1 DEF Ownership, Owning, SetPools, OwnedMap
<1> QED
  BY <1>2, <1>3, <1>4 DEF IInv

\* The step all successful creations share: from pools p that are in order,
\* a new buffer b for the zone s that has none free.
LEMMA CreateFrom ==
  ASSUME IInv, process = "running", NEW p, PoolsInv(p, OwnedMap, zoneOf),
         NEW s \in Sizes, NEW c \in Clients, p.free[s] = {},
         NEW b \in Buffers \ UNION {p.all[z] : z \in Sizes},
         SetPools(WithNew(p, s, b)), HandOut(c, s, b),
         opened' = TRUE, UNCHANGED process
  PROVE  IInv'
<1>1. OwnedMap \in [Clients -> SUBSET Buffers] /\ zoneOf \in [Buffers -> Sizes]
  BY DEF OwnedMap, Owned, IInv, TypeOK
<1>2. PoolsInv(WithNew(p, s, b), [OwnedMap EXCEPT ![c] = @ \cup {b}],
               [zoneOf EXCEPT ![b] = s])
  BY <1>1, WithNewInv
<1>3. \A d \in Clients : b \notin Owned(d)
  BY DEF PoolsInv, Owning, OwnedMap, IInv, TypeOK
<1>4. \A d \in Clients : Owned(d)' = IF d = c THEN Owned(d) \cup {b} ELSE Owned(d)
  BY DEF Owned, HandOut, IInv, TypeOK
<1>5. OwnedMap' = [OwnedMap EXCEPT ![c] = @ \cup {b}]
  BY <1>4 DEF OwnedMap
<1>6. zoneOf' = [zoneOf EXCEPT ![b] = s]
  BY DEF HandOut
<1>7. PoolsInv(WithNew(p, s, b), OwnedMap', zoneOf')
  BY <1>2, <1>5, <1>6
<1>8. \A d, e \in Clients : d # e => Owned(d)' \cap Owned(e)' = {}
  BY <1>3, <1>4 DEF IInv, Ownership
<1>9. \A d \in Clients : freeing'[d] \notin held'[d]
  BY <1>3, AllocatorAssumption DEF HandOut, IInv, TypeOK, Handles, Owned
<1>10. zoneOf' \in [Buffers -> Sizes] /\ held' \in [Clients -> SUBSET Buffers]
       /\ freeing' \in [Clients -> Buffers \cup {None}]
  BY DEF HandOut, IInv, TypeOK
<1> QED
  BY <1>7, <1>8, <1>9, <1>10, PoolsInvNext

LEMMA CreateStep ==
  ASSUME IInv, NEW c \in Clients, NEW s \in Sizes,
         Create(c, s) \/ RecycleAndCreate(c, s)
  PROVE  IInv'
<1>1. /\ process = "running" /\ free[s] = {} /\ opened' = TRUE
      /\ UNCHANGED process
  BY DEF Create, RecycleAndCreate, MustCreate
<1>2. CASE Create(c, s)
  <2>1. PICK b \in Buffers \ Allocated :
          SetPools(WithNew(Pools, s, b)) /\ HandOut(c, s, b)
    BY <1>2 DEF Create
  <2>2. Pools.free[s] = {} /\ b \in Buffers \ UNION {Pools.all[z] : z \in Sizes}
    BY <1>1 DEF Pools, Allocated
  <2> QED
    BY <1>1, <2>1, <2>2, PoolsInvNow, CreateFrom
<1>3. CASE RecycleAndCreate(c, s)
  <2> DEFINE p == RecycledExcept(s)
  <2>1. PICK b \in Buffers \ UNION {p.all[z] : z \in Sizes} :
          SetPools(WithNew(p, s, b)) /\ HandOut(c, s, b)
    BY <1>3 DEF RecycleAndCreate
  <2>2. p.free[s] = {}
    BY <1>1 DEF RecycledExcept
  <2>3. PoolsInv(p, OwnedMap, zoneOf)
    BY <1>1, RecycledInv
  <2> HIDE DEF p
  <2> QED
    BY <1>1, <2>1, <2>2, <2>3, CreateFrom
<1> QED
  BY <1>2, <1>3

LEMMA CreateFailsStep ==
  ASSUME IInv, NEW s \in Sizes, NEW recycle \in BOOLEAN, CreateFails(s, recycle)
  PROVE  IInv'
<1> DEFINE p == IF recycle THEN RecycledExcept(s) ELSE Pools
<1>1. /\ process = "running" /\ opened' = TRUE
      /\ SetPools(IF p.all[s] = {} THEN Destroyed(p, s) ELSE p)
      /\ UNCHANGED <<process, zoneOf, held, freeing>>
  BY DEF CreateFails, MustCreate
<1>2. PoolsInv(p, OwnedMap, zoneOf)
  BY <1>1, PoolsInvNow, RecycledInv
<1> HIDE DEF p
<1>3. /\ OwnedMap' = OwnedMap
      /\ \A d \in Clients : Owned(d)' = Owned(d)
  BY <1>1 DEF OwnedMap, Owned
<1>4. /\ zoneOf' \in [Buffers -> Sizes] /\ held' \in [Clients -> SUBSET Buffers]
      /\ freeing' \in [Clients -> Buffers \cup {None}] /\ process' \in {"running"}
      /\ \A c, d \in Clients : c # d => Owned(c)' \cap Owned(d)' = {}
      /\ \A c \in Clients : freeing'[c] \notin held'[c]
  BY <1>1, <1>3 DEF IInv, TypeOK, Ownership, Handles
<1>5. CASE p.all[s] = {}
  <2>1. \A b \in Buffers : zoneOf[b] = s => \A c \in Clients : b \notin OwnedMap[c]
    BY <1>2, <1>5 DEF PoolsInv, Owning
  <2>2. PoolsInv(Destroyed(p, s), OwnedMap', zoneOf')
    BY <1>1, <1>2, <1>3, <2>1, DestroyedInv
  <2> QED
    BY <1>1, <1>4, <1>5, <2>2, PoolsInvNext
<1>6. CASE p.all[s] # {}
  <2>1. PoolsInv(p, OwnedMap', zoneOf')
    BY <1>1, <1>2, <1>3
  <2> QED
    BY <1>1, <1>4, <1>6, <2>1, PoolsInvNext
<1> QED
  BY <1>5, <1>6

LEMMA FreeBeginStep ==
  ASSUME IInv, NEW c \in Clients, NEW b \in Buffers, FreeBegin(c, b)
  PROVE  IInv'
<1>1. /\ process = "running" /\ freeing[c] = None /\ b \in held[c] /\ b # None
      /\ UNCHANGED <<process, opened, zones, all, free, stale, cnt, freecnt, zoneOf>>
      /\ freeing' = [freeing EXCEPT ![c] = b]
      /\ held' = [held EXCEPT ![c] = @ \ {b}]
  BY AllocatorAssumption DEF FreeBegin
<1>2. \A d \in Clients : Owned(d)' = Owned(d)
  BY <1>1 DEF Owned, IInv, TypeOK
<1>3. TypeOK' /\ Accounting' /\ NoIdleZone'
  BY <1>1 DEF IInv, TypeOK, Accounting, NoIdleZone
<1>4. Ownership'
  BY <1>1, <1>2 DEF IInv, Ownership
<1>5. Handles'
  BY <1>1 DEF IInv, Handles, TypeOK
<1> QED
  BY <1>3, <1>4, <1>5 DEF IInv

LEMMA FreeLockedStep ==
  ASSUME IInv, NEW c \in Clients, FreeLocked(c)
  PROVE  IInv'
<1> DEFINE b == freeing[c]
           z == zoneOf[b]
           p == Pushed(z, b)
<1>1. /\ process = "running" /\ b # None
      /\ SetPools(IF p.freecnt[z] = p.cnt[z] THEN Destroyed(p, z) ELSE p)
      /\ freeing' = [freeing EXCEPT ![c] = None]
      /\ UNCHANGED <<process, opened, zoneOf, held>>
  BY DEF FreeLocked
<1>2. b \in Buffers /\ z \in Sizes /\ b \in Owned(c)
  BY <1>1 DEF IInv, TypeOK, Owned
<1>3. b \in all[z] /\ b \notin free[z]
  BY <1>1, <1>2 DEF IInv, Ownership
<1>4. /\ p.zones = zones /\ p.all = all /\ p.stale = stale /\ p.cnt = cnt
      /\ p.free = [free EXCEPT ![z] = @ \cup {b}]
      /\ p.freecnt = [freecnt EXCEPT ![z] = @ + 1]
      /\ p = [zones |-> p.zones, all |-> p.all, free |-> p.free, stale |-> p.stale,
              cnt |-> p.cnt, freecnt |-> p.freecnt]
  BY DEF Pushed
<1> HIDE DEF p, z, b
<1>5. /\ IsFiniteSet(free[z]) /\ IsFiniteSet(free[z] \cup {b}) /\ IsFiniteSet(all[z])
      /\ Cardinality(free[z] \cup {b}) = Cardinality(free[z]) + 1
  <2>1. free[z] \subseteq Buffers /\ all[z] \subseteq Buffers
    BY <1>2 DEF IInv, TypeOK
  <2>2. IsFiniteSet(free[z]) /\ IsFiniteSet(all[z])
    BY <2>1, AllocatorAssumption, FS_Subset
  <2> QED
    BY <1>3, <2>2, FS_AddElement
<1>6. p \in PoolType
  BY <1>2, <1>4 DEF PoolType, IInv, TypeOK
<1>7. Counted(p)
  BY <1>1, <1>2, <1>3, <1>4, <1>5 DEF Counted, IInv, TypeOK, Accounting
<1>8. /\ \A d \in Clients : Owned(d)' = Owned(d) \ {b}
      /\ OwnedMap' = [d \in Clients |-> Owned(d) \ {b}]
  <2>1. ASSUME NEW d \in Clients
        PROVE  Owned(d)' = Owned(d) \ {b}
    <3>1. CASE d = c
      BY <3>1, <1>1, <1>2 DEF Owned, IInv, TypeOK, Handles, b
    <3>2. CASE d # c
      <4>1. Owned(d)' = Owned(d)
        BY <3>2, <1>1 DEF Owned, IInv, TypeOK
      <4>2. b \notin Owned(d)
        BY <3>2, <1>1, <1>2 DEF IInv, Ownership
      <4> QED
        BY <4>1, <4>2
    <3> QED
      BY <3>1, <3>2
  <2> QED
    BY <2>1 DEF OwnedMap
<1>9. Owning(p, OwnedMap', zoneOf')
  <2>1. ASSUME NEW y \in Sizes, NEW x \in Buffers
        PROVE  x \in p.all[y] \ p.free[y]
                 <=> zoneOf[x] = y /\ \E d \in Clients : x \in Owned(d) \ {b}
    <3>1. CASE x = b
      BY <3>1, <1>1, <1>2, <1>3, <1>4 DEF IInv, Ownership, TypeOK, z
    <3>2. CASE x # b
      BY <3>2, <1>1, <1>2, <1>4 DEF IInv, Ownership, TypeOK
    <3> QED BY <3>1, <3>2
  <2>2. \A x, y \in Sizes : x # y => p.all[x] \cap p.all[y] = {}
    BY <1>1, <1>4 DEF IInv, Ownership
  <2> QED
    BY <2>1, <2>2, <1>1, <1>8 DEF Owning
<1>10. /\ zoneOf' \in [Buffers -> Sizes] /\ held' \in [Clients -> SUBSET Buffers]
       /\ freeing' \in [Clients -> Buffers \cup {None}] /\ process' \in {"running"}
       /\ opened' \in BOOLEAN
       /\ \A d, e \in Clients : d # e => Owned(d)' \cap Owned(e)' = {}
       /\ \A d \in Clients : freeing'[d] \notin held'[d]
  BY <1>1, <1>8, AllocatorAssumption DEF IInv, TypeOK, Ownership, Handles
<1>11. CASE p.freecnt[z] = p.cnt[z]
  <2>1. free[z] \cup {b} = all[z]
    <3>1. Cardinality(free[z] \cup {b}) = Cardinality(all[z])
      BY <1>1, <1>2, <1>4, <1>5, <1>11 DEF IInv, TypeOK, Accounting
    <3>2. free[z] \cup {b} \in SUBSET all[z]
      BY <1>1, <1>2, <1>3 DEF IInv, Accounting
    <3> QED
      BY <3>1, <3>2, <1>5, FS_Subset
  <2>2. \A x \in Buffers : zoneOf'[x] = z => \A d \in Clients : x \notin OwnedMap'[d]
    BY <2>1, <1>1, <1>2, <1>8 DEF IInv, Ownership
  <2>3. /\ \A y \in Sizes : y # z => (y \in p.zones <=> p.all[y] # {})
        /\ \A y \in Sizes : y # z /\ y \in p.zones => p.free[y] # p.all[y]
    BY <1>1, <1>4 DEF IInv, NoIdleZone, TypeOK
  <2>4. PoolsInv(Destroyed(p, z), OwnedMap', zoneOf')
    <3>1. Destroyed(p, z) \in PoolType /\ Busy(Destroyed(p, z))
      BY <1>2, <1>6, <2>3 DEF Destroyed, PoolType, Busy
    <3>2. Counted(Destroyed(p, z))
      BY <1>2, <1>6, <1>7, FS_EmptySet DEF Destroyed, PoolType, Counted
    <3>3. Owning(Destroyed(p, z), OwnedMap', zoneOf')
      BY <1>2, <1>6, <1>9, <2>2 DEF Destroyed, PoolType, Owning
    <3> QED
      BY <3>1, <3>2, <3>3 DEF PoolsInv
  <2> QED
    BY <1>1, <1>10, <1>11, <2>4, PoolsInvNext
<1>12. CASE p.freecnt[z] # p.cnt[z]
  <2>1. free[z] \cup {b} # all[z]
    <3>1. Cardinality(free[z] \cup {b}) # Cardinality(all[z])
      BY <1>1, <1>2, <1>4, <1>5, <1>12 DEF IInv, TypeOK, Accounting
    <3> QED
      BY <3>1
  <2>2. Busy(p)
    BY <2>1, <1>1, <1>2, <1>3, <1>4 DEF Busy, IInv, NoIdleZone, TypeOK
  <2>3. PoolsInv(p, OwnedMap', zoneOf')
    BY <1>6, <1>7, <1>9, <2>2 DEF PoolsInv
  <2> QED
    BY <1>1, <1>10, <1>12, <2>3, PoolsInvNext
<1> QED
  BY <1>11, <1>12

\* Leaving the running state keeps the types, which is all that is left.
LEMMA StopStep ==
  ASSUME IInv,
         \/ \E s \in Sizes : ZoneMallocFails(s) \/ RecycleStale(s)
         \/ \E s \in Sizes, c \in Clients : ReuseStale(c, s)
         \/ \E c \in Clients : FreeAfterExit(c)
         \/ Deconstruct
  PROVE  IInv'
<1>1. process' # "running"
  BY DEF ZoneMallocFails, RecycleStale, ReuseStale, FreeAfterExit, Deconstruct,
         Undefined
<1>2. ASSUME \E s \in Sizes, c \in Clients : ReuseStale(c, s) PROVE TypeOK'
  <2>1. PICK s \in Sizes, c \in Clients : ReuseStale(c, s)
    BY <1>2
  <2>2. PICK b \in stale[s] : HandOut(c, s, b)
    BY <2>1 DEF ReuseStale
  <2>3. b \in Buffers
    BY <2>2 DEF IInv, TypeOK
  <2> QED
    BY <2>1, <2>2, <2>3 DEF IInv, TypeOK, ReuseStale, Undefined, HandOut
<1>3. ASSUME NEW s \in Sizes, ZoneMallocFails(s) PROVE TypeOK'
  BY <1>3 DEF IInv, TypeOK, ZoneMallocFails
<1>4. ASSUME NEW s \in Sizes, RecycleStale(s) PROVE TypeOK'
  BY <1>4 DEF IInv, TypeOK, RecycleStale, Undefined
<1>5. ASSUME NEW c \in Clients, FreeAfterExit(c) PROVE TypeOK'
  BY <1>5 DEF IInv, TypeOK, FreeAfterExit, Undefined
<1>6. ASSUME Deconstruct PROVE TypeOK'
  BY <1>6 DEF IInv, TypeOK, Deconstruct
<1> QED
  BY <1>1, <1>2, <1>3, <1>4, <1>5, <1>6 DEF IInv, Accounting, Ownership, NoIdleZone, Handles

LEMMA NextIInv == IInv /\ [Next]_vars => IInv'
<1> SUFFICES ASSUME IInv, [Next]_vars PROVE IInv'
  OBVIOUS
<1>1. ASSUME NEW c \in Clients, NEW s \in Sizes, New(c, s) PROVE IInv'
  BY <1>1, ReuseStep, CreateStep, CreateFailsStep, StopStep DEF New
<1>2. ASSUME NEW c \in Clients, Free(c) PROVE IInv'
  BY <1>2, FreeBeginStep, FreeLockedStep, StopStep DEF Free
<1>3. CASE Deconstruct
  BY <1>3, StopStep
<1>4. CASE OpenFails \/ UNCHANGED vars
  BY <1>4 DEF OpenFails, vars, IInv, TypeOK, Accounting, Ownership, NoIdleZone,
              Handles, Owned
<1> QED
  BY <1>1, <1>2, <1>3, <1>4 DEF Next

THEOREM SpecIInv == Spec => []IInv
BY InitIInv, NextIInv, PTL DEF Spec

\* mfw_new_hw_buffer and mfw_free_hw_buffer keep every variable in its
\* range; the counters of a zone never go below zero.
THEOREM TypeCorrect == Spec => []TypeOK
BY SpecIInv, PTL DEF IInv

\* Whatever the threads allocate and free, and however often the allocator
\* recycles, no buffer in use is destroyed or handed out again, and the
\* counters that decide when a zone dies are exact, until the process exits,
\* crashes, or walks a free chain that recycle_zone left dangling.
THEOREM AllocatorCorrect == Spec => [](Accounting /\ Ownership /\ NoIdleZone)
BY SpecIInv, PTL DEF IInv

\* A zone leaves the table with the last of its buffers that is in use: memory
\* that nobody uses goes back to the driver.
THEOREM ZonesInUse == Spec => []NoIdleZone
BY SpecIInv, PTL DEF IInv

-------------------------------------------------------------------------------
(* The allocator keeps the promise of BufferOwnership. *)

InUse(b) == \E c \in Clients : b \in Owned(c)

Cached(b) == \E z \in Sizes : b \in free[z]

OwnerIs ==
  process = "running" =>
    /\ owner = [b \in Buffers |-> owner[b]]
    /\ \A b \in Buffers, c \in Clients : b \in Owned(c) => owner[b] = c
    /\ \A b \in Buffers : ~InUse(b) =>
         owner[b] = IF Cached(b) THEN Pool ELSE Device
    /\ \A b \in Buffers : Cached(b) => ~InUse(b)

LEMMA OwnerIsNow == IInv => OwnerIs
<1> SUFFICES ASSUME IInv, process = "running" PROVE OwnerIs
  BY DEF OwnerIs
<1>1. ASSUME NEW b \in Buffers, NEW c \in Clients, b \in Owned(c)
      PROVE  owner[b] = c
  <2>1. \A d \in Clients : b \in Owned(d) => d = c
    BY <1>1 DEF IInv, Ownership
  <2> QED
    BY <1>1, <2>1 DEF owner
<1>2. ASSUME NEW b \in Buffers, ~InUse(b)
      PROVE  owner[b] = IF Cached(b) THEN Pool ELSE Device
  BY <1>2 DEF owner, InUse, Cached
<1>3. ASSUME NEW b \in Buffers, Cached(b) PROVE ~InUse(b)
  <2>1. PICK z \in Sizes : b \in free[z]
    BY <1>3 DEF Cached
  <2>2. ASSUME NEW c \in Clients, b \in Owned(c) PROVE FALSE
    <3>1. b \in all[zoneOf[b]] \ free[zoneOf[b]] /\ zoneOf[b] \in Sizes
      BY <2>2 DEF IInv, TypeOK, Ownership
    <3>2. b \in all[z]
      BY <2>1 DEF IInv, Accounting
    <3> QED
      BY <2>1, <3>1, <3>2 DEF IInv, Ownership
  <2> QED
    BY <2>2 DEF InUse
<1> QED
  BY <1>1, <1>2, <1>3 DEF OwnerIs, owner

LEMMA OwnerIsNext == IInv' => OwnerIs'
BY OwnerIsNow, PTL

LEMMA AcquirePromise ==
  ASSUME IInv, IInv', process = "running", process' = "running",
         NEW c \in Clients, NEW b \in Buffers, ~InUse(b),
         NEW T \in SUBSET Buffers, \A x \in T : Cached(x),
         \A d \in Clients : Owned(d)' = IF d = c THEN Owned(d) \cup {b} ELSE Owned(d),
         \A x \in Buffers : x # b => (Cached(x)' <=> Cached(x) /\ x \notin T)
  PROVE  Promise!Acquire(c, b)
<1>1. OwnerIs /\ OwnerIs'
  BY OwnerIsNow, OwnerIsNext
<1>2. T \in SUBSET Promise!Pooled /\ owner[b] \in {Device, Pool}
  BY <1>1 DEF OwnerIs, Promise!Pooled
<1>3. ASSUME NEW x \in Buffers
      PROVE  owner'[x] = IF x = b THEN c ELSE IF x \in T THEN Device ELSE owner[x]
  <2>1. CASE x = b
    BY <2>1, <1>1 DEF OwnerIs
  <2>2. CASE x # b /\ InUse(x)
    <3>1. PICK d \in Clients : x \in Owned(d) /\ x \in Owned(d)'
      BY <2>2 DEF InUse
    <3> QED
      BY <3>1, <2>2, <1>1 DEF OwnerIs
  <2>3. CASE x # b /\ ~InUse(x)
    <3>1. ~InUse(x)'
      BY <2>3 DEF InUse
    <3> QED
      BY <3>1, <2>3, <1>1 DEF OwnerIs
  <2> QED
    BY <2>1, <2>2, <2>3
<1>4. owner' = [Promise!Trimmed(T) EXCEPT ![b] = c]
  BY <1>3 DEF owner, Promise!Trimmed
<1> QED
  BY <1>2, <1>4 DEF Promise!Acquire, promised

LEMMA ReusePromise ==
  ASSUME IInv, IInv', NEW c \in Clients, NEW s \in Sizes, Reuse(c, s)
  PROVE  \E b \in Buffers : Promise!Acquire(c, b)
<1>1. PICK b \in free[s] : /\ free' = [free EXCEPT ![s] = @ \ {b}]
                           /\ HandOut(c, s, b)
  BY DEF Reuse
<1>2. b \in Buffers /\ Cached(b) /\ process = "running" /\ process' = "running"
  BY DEF Reuse, IInv, TypeOK, Cached
<1>3. ~InUse(b)
  BY <1>2, OwnerIsNow DEF OwnerIs
<1>4. \A d \in Clients : Owned(d)' = IF d = c THEN Owned(d) \cup {b} ELSE Owned(d)
  BY <1>1 DEF Owned, HandOut, IInv, TypeOK
<1>5. \A x \in Buffers : x # b => (Cached(x)' <=> Cached(x) /\ x \notin {})
  BY <1>1 DEF Cached, IInv, TypeOK
<1>6. {} \in SUBSET Buffers /\ \A x \in {} : Cached(x)
  OBVIOUS
<1> QED
  BY <1>2, <1>3, <1>4, <1>5, <1>6, AcquirePromise

LEMMA FreeDisjoint ==
  ASSUME IInv, process = "running"
  PROVE  \A x, y \in Sizes : x # y => free[x] \cap free[y] = {}
<1>1. \A x \in Sizes : free[x] \subseteq all[x]
  BY DEF IInv, Accounting
<1>2. \A x, y \in Sizes : x # y => all[x] \cap all[y] = {}
  BY DEF IInv, Ownership
<1> QED
  BY <1>1, <1>2

LEMMA CreatePromise ==
  ASSUME IInv, IInv', NEW c \in Clients, NEW s \in Sizes,
         Create(c, s) \/ RecycleAndCreate(c, s)
  PROVE  \E b \in Buffers : Promise!Acquire(c, b)
<1>1. process = "running" /\ process' = "running" /\ free[s] = {}
  BY DEF Create, RecycleAndCreate, MustCreate
<1>2. ASSUME NEW b \in Buffers, HandOut(c, s, b)
      PROVE  \A d \in Clients : Owned(d)' = IF d = c THEN Owned(d) \cup {b} ELSE Owned(d)
  BY <1>2 DEF Owned, HandOut, IInv, TypeOK
<1>3. \A b \in Buffers : InUse(b) => \E z \in Sizes : b \in all[z] \ free[z]
  BY <1>1 DEF InUse, IInv, Ownership, TypeOK
<1>4. CASE Create(c, s)
  <2>1. PICK b \in Buffers \ Allocated :
          SetPools(WithNew(Pools, s, b)) /\ HandOut(c, s, b)
    BY <1>4 DEF Create
  <2>2. free' = free
    BY <2>1 DEF SetPools, WithNew, Pools
  <2>3. \A x \in Buffers : x # b => (Cached(x)' <=> Cached(x) /\ x \notin {})
    BY <2>2 DEF Cached
  <2>4. ~InUse(b)
    BY <2>1, <1>3 DEF Allocated
  <2>5. {} \in SUBSET Buffers /\ \A x \in {} : Cached(x)
    OBVIOUS
  <2> QED
    BY <1>1, <1>2, <2>1, <2>3, <2>4, <2>5, AcquirePromise
<1>5. CASE RecycleAndCreate(c, s)
  <2> DEFINE p == RecycledExcept(s)
             T == {x \in Buffers : \E z \in zones \ {s} : x \in free[z]}
  <2>1. PICK b \in Buffers \ UNION {p.all[z] : z \in Sizes} :
          SetPools(WithNew(p, s, b)) /\ HandOut(c, s, b)
    BY <1>5 DEF RecycleAndCreate
  <2>2. /\ \A z \in Sizes : p.all[z] = IF z \in zones \ {s} THEN all[z] \ free[z]
                                       ELSE all[z]
        /\ p.free = [z \in Sizes |-> IF z \in zones \ {s} THEN {} ELSE free[z]]
    BY Zenon DEF RecycledExcept
  <2>3. free' = p.free
    BY <2>1 DEF SetPools, WithNew
  <2> HIDE DEF p
  <2>4. ~InUse(b)
    <3>1. SUFFICES ASSUME InUse(b) PROVE FALSE
      OBVIOUS
    <3>2. PICK z \in Sizes : b \in all[z] \ free[z]
      BY <3>1, <1>3
    <3>3. b \in p.all[z]
      BY <3>2, <2>2
    <3> QED
      BY <2>1, <3>3
  <2>5. \A x \in Buffers : Cached(x)' <=> \E z \in Sizes : x \in free[z] /\ z \notin zones \ {s}
    BY <2>2, <2>3 DEF Cached
  <2>6. \A x, y \in Sizes : x # y => free[x] \cap free[y] = {}
    BY <1>1, FreeDisjoint
  <2>7. ASSUME NEW x \in Buffers
        PROVE  Cached(x)' <=> Cached(x) /\ x \notin T
    <3>1. ASSUME Cached(x)' PROVE Cached(x) /\ x \notin T
      <4>1. PICK z \in Sizes : x \in free[z] /\ z \notin zones \ {s}
        BY <2>5, <3>1
      <4>2. \A y \in Sizes : x \in free[y] => y = z
        BY <4>1, <2>6
      <4>3. zones \subseteq Sizes
        BY DEF IInv, TypeOK
      <4> QED
        BY <4>1, <4>2, <4>3 DEF Cached
    <3>2. ASSUME Cached(x), x \notin T PROVE Cached(x)'
      <4>1. PICK z \in Sizes : x \in free[z]
        BY <3>2 DEF Cached
      <4> QED
        BY <4>1, <3>2, <2>5
    <3> QED
      BY <3>1, <3>2
  <2>8. T \in SUBSET Buffers /\ \A x \in T : Cached(x)
    BY DEF Cached, IInv, TypeOK
  <2> HIDE DEF T
  <2> QED
    BY <1>1, <1>2, <2>1, <2>4, <2>7, <2>8, AcquirePromise
<1> QED
  BY <1>4, <1>5

\* A failed request may have cost the pool, never a client.
LEMMA CreateFailsPromise ==
  ASSUME IInv, IInv', NEW s \in Sizes, NEW recycle \in BOOLEAN,
         CreateFails(s, recycle)
  PROVE  Promise!FailToAcquire
<1> DEFINE p == IF recycle THEN RecycledExcept(s) ELSE Pools
           T == {x \in Buffers : recycle /\ \E z \in zones \ {s} : x \in free[z]}
<1>1. /\ process = "running" /\ process' = "running" /\ free[s] = {}
      /\ UNCHANGED <<held, freeing>>
      /\ SetPools(IF p.all[s] = {} THEN Destroyed(p, s) ELSE p)
  BY DEF CreateFails, MustCreate
<1>2. p.free = [z \in Sizes |-> IF recycle /\ z \in zones \ {s} THEN {} ELSE free[z]]
  <2>1. CASE recycle
    BY <2>1, Zenon DEF RecycledExcept
  <2>2. CASE ~recycle
    BY <2>2 DEF Pools, IInv, TypeOK
  <2> QED
    BY <2>1, <2>2
<1> HIDE DEF p
<1>3. free' = p.free
  <2>1. p.free = [p.free EXCEPT ![s] = {}]
    BY <1>1, <1>2
  <2> QED
    BY <1>1, <2>1 DEF SetPools, Destroyed
<1>4. \A x, y \in Sizes : x # y => free[x] \cap free[y] = {}
  BY <1>1 DEF IInv, Ownership, Accounting
<1>5. \A x \in Buffers : Cached(x)' <=> Cached(x) /\ x \notin T
  <2>1. CASE recycle
    BY <2>1, <1>2, <1>3, <1>4 DEF Cached, IInv, TypeOK
  <2>2. CASE ~recycle
    BY <2>2, <1>2, <1>3 DEF Cached
  <2> QED
    BY <2>1, <2>2
<1>6. OwnerIs /\ OwnerIs' /\ \A x \in Buffers : InUse(x)' <=> InUse(x)
  BY <1>1, OwnerIsNow, OwnerIsNext DEF InUse, Owned
<1>7. T \in SUBSET Promise!Pooled
  BY <1>1, <1>6 DEF OwnerIs, Promise!Pooled, Cached, IInv, TypeOK
<1>8. ASSUME NEW x \in Buffers
      PROVE  owner'[x] = IF x \in T THEN Device ELSE owner[x]
  <2>1. CASE InUse(x)
    <3>1. PICK d \in Clients : x \in Owned(d) /\ x \in Owned(d)'
      BY <2>1, <1>1 DEF InUse, Owned
    <3>2. x \notin T
      BY <2>1, <1>1, <1>6 DEF OwnerIs, Cached, IInv, TypeOK
    <3> QED
      BY <3>1, <3>2, <1>1, <1>6 DEF OwnerIs
  <2>2. CASE ~InUse(x)
    <3>1. x \in T => Cached(x)
      BY DEF Cached, IInv, TypeOK
    <3> QED
      BY <2>2, <3>1, <1>1, <1>5, <1>6 DEF OwnerIs
  <2> QED
    BY <2>1, <2>2
<1> HIDE DEF T
<1>9. owner' = Promise!Trimmed(T)
  BY <1>8 DEF owner, Promise!Trimmed
<1> QED
  BY <1>1, <1>7, <1>9 DEF Promise!FailToAcquire, promised

LEMMA FreeLockedPromise ==
  ASSUME IInv, IInv', NEW c \in Clients, FreeLocked(c)
  PROVE  \E b \in Buffers : Promise!Release(c, b)
<1>0. PICK b \in Buffers : b = freeing[c]
  BY DEF FreeLocked, IInv, TypeOK
<1> DEFINE z == zoneOf[b]
           gone == freecnt[z] + 1 = cnt[z]
           T == {x \in Buffers : gone /\ x \in free[z]}
<1>1. /\ process = "running" /\ process' = "running" /\ z \in Sizes /\ b \in Owned(c)
      /\ freeing' = [freeing EXCEPT ![c] = None] /\ held' = held
  BY <1>0, AllocatorAssumption DEF FreeLocked, IInv, TypeOK, Owned
<1>2. free' = IF gone THEN [free EXCEPT ![z] = {}]
                      ELSE [free EXCEPT ![z] = @ \cup {b}]
  <2> DEFINE p == Pushed(z, b)
  <2>1. /\ p.free = [free EXCEPT ![z] = free[z] \cup {b}]
        /\ p.freecnt = [freecnt EXCEPT ![z] = freecnt[z] + 1]
        /\ p.cnt = cnt
    BY Zenon DEF Pushed
  <2>2. free' = (IF p.freecnt[z] = p.cnt[z] THEN Destroyed(p, z) ELSE p).free
    BY <1>0 DEF FreeLocked, SetPools
  <2>3. p.freecnt[z] = freecnt[z] + 1
    BY <2>1, <1>1 DEF IInv, TypeOK
  <2>4. Destroyed(p, z).free = [p.free EXCEPT ![z] = {}]
    BY Zenon DEF Destroyed
  <2> HIDE DEF p, z
  <2>5. CASE gone
    <3>1. free' = Destroyed(p, z).free
      BY <2>1, <2>2, <2>3, <2>5
    <3>2. free' = [free EXCEPT ![z] = {}]
      BY <3>1, <2>4, <2>1, <1>1 DEF IInv, TypeOK
    <3> QED
      BY <3>2, <2>5
  <2>6. CASE ~gone
    <3>1. free' = p.free
      BY <2>1, <2>2, <2>3, <2>6
    <3> QED
      BY <3>1, <2>1, <2>6
  <2> QED
    BY <2>5, <2>6
<1>3. \A x, y \in Sizes : x # y => free[x] \cap free[y] = {}
  BY <1>1, FreeDisjoint
<1>4. OwnerIs /\ OwnerIs'
  BY OwnerIsNow, OwnerIsNext
<1> HIDE DEF gone, z
<1>5. /\ \A x \in Buffers : x # b => (InUse(x)' <=> InUse(x))
      /\ \A d \in Clients : Owned(d)' = Owned(d) \ {b}
  <2>1. ASSUME NEW d \in Clients
        PROVE  Owned(d)' = Owned(d) \ {b}
    <3>1. CASE d = c
      BY <3>1, <1>0, <1>1 DEF Owned, IInv, TypeOK, Handles
    <3>2. CASE d # c
      <4>1. Owned(d)' = Owned(d)
        BY <3>2, <1>1 DEF Owned, IInv, TypeOK
      <4>2. b \notin Owned(d)
        BY <3>2, <1>1 DEF IInv, Ownership
      <4> QED
        BY <4>1, <4>2
    <3> QED
      BY <3>1, <3>2
  <2> QED
    BY <2>1 DEF InUse
<1>6. \A x \in Buffers : x # b => (Cached(x)' <=> Cached(x) /\ x \notin T)
  <2>1. CASE gone
    BY <2>1, <1>1, <1>2, <1>3 DEF Cached, IInv, TypeOK
  <2>2. CASE ~gone
    BY <2>2, <1>1, <1>2 DEF Cached, IInv, TypeOK
  <2> QED
    BY <2>1, <2>2
<1>7. T \in SUBSET Promise!Pooled
  BY <1>1, <1>4 DEF OwnerIs, Promise!Pooled, Cached
<1>8. owner[b] = c /\ owner'[b] \in {Device, Pool}
  <2>1. ~InUse(b)'
    BY <1>5 DEF InUse
  <2> QED
    BY <2>1, <1>1, <1>4 DEF OwnerIs
<1>9. ASSUME NEW x \in Buffers, x # b
      PROVE  owner'[x] = IF x \in T THEN Device ELSE owner[x]
  <2>1. CASE InUse(x)
    <3>1. PICK d \in Clients : x \in Owned(d) /\ x \in Owned(d)'
      BY <2>1, <1>5, <1>9 DEF InUse
    <3>2. x \notin T
      BY <2>1, <1>1, <1>4 DEF OwnerIs, Cached
    <3> QED
      BY <3>1, <3>2, <1>1, <1>4 DEF OwnerIs
  <2>2. CASE ~InUse(x)
    <3>1. ~InUse(x)' /\ (x \in T => Cached(x))
      BY <2>2, <1>1, <1>5, <1>9 DEF Cached
    <3> QED
      BY <2>2, <3>1, <1>1, <1>4, <1>6, <1>9 DEF OwnerIs
  <2> QED
    BY <2>1, <2>2
<1> HIDE DEF T
<1>10. owner' = [Promise!Trimmed(T) EXCEPT ![b] = owner'[b]]
  <2>1. owner' = [x \in Buffers |-> owner'[x]]
    BY <1>1, <1>4 DEF OwnerIs
  <2>2. \A x \in Buffers : x # b => owner'[x] = Promise!Trimmed(T)[x]
    BY <1>9 DEF Promise!Trimmed
  <2>3. Promise!Trimmed(T) = [x \in Buffers |-> Promise!Trimmed(T)[x]]
    BY DEF Promise!Trimmed
  <2> QED
    BY <2>1, <2>2, <2>3
<1> QED
  BY <1>1, <1>7, <1>8, <1>10 DEF Promise!Release, promised

LEMMA StepPromise == IInv /\ IInv' /\ [Next]_vars => [Promise!Next]_<<owner, promised>>
<1> SUFFICES ASSUME IInv, IInv', [Next]_vars
             PROVE  Promise!Next \/ UNCHANGED <<owner, promised>>
  OBVIOUS
<1>1. CASE process' # "running"
  <2>1. promised' = FALSE
    BY <1>1 DEF promised
  <2>2. owner' \in [Buffers -> Clients \cup {Device, Pool}]
    BY <1>1 DEF owner
  <2> QED
    BY <2>1, <2>2 DEF Promise!Next, Promise!GiveUp
<1>2. CASE process' = "running" /\ UNCHANGED vars
  BY <1>2 DEF vars, owner, promised, Owned
<1>3. CASE process' = "running" /\ ~UNCHANGED vars
  <2>1. process = "running" /\ promised
    BY <1>3 DEF Next, New, Free, Reuse, ReuseStale, Create, RecycleAndCreate, CreateFails,
                RecycleStale, ZoneMallocFails, FreeBegin, FreeLocked, FreeAfterExit,
                OpenFails, Deconstruct, MustCreate, Undefined, promised
  <2>2. ASSUME NEW c \in Clients, NEW s \in Sizes, New(c, s)
        PROVE  Promise!Next
    <3>1. CASE Reuse(c, s) \/ Create(c, s) \/ RecycleAndCreate(c, s)
      BY <2>1, <3>1, ReusePromise, CreatePromise DEF Promise!Next
    <3>2. CASE \E recycle \in BOOLEAN : CreateFails(s, recycle)
      BY <2>1, <3>2, CreateFailsPromise DEF Promise!Next
    <3>3. CASE ReuseStale(c, s) \/ RecycleStale(s) \/ ZoneMallocFails(s)
      BY <1>3, <3>3 DEF ReuseStale, RecycleStale, ZoneMallocFails, Undefined
    <3> QED
      BY <2>2, <3>1, <3>2, <3>3 DEF New
  <2>3. ASSUME NEW c \in Clients, NEW b \in Buffers, FreeBegin(c, b)
        PROVE  UNCHANGED <<owner, promised>>
    <3>1. \A d \in Clients : Owned(d)' = Owned(d)
      BY <2>3, AllocatorAssumption DEF FreeBegin, Owned, IInv, TypeOK
    <3> QED
      BY <3>1, <2>3 DEF FreeBegin, owner, promised
  <2>4. ASSUME NEW c \in Clients, FreeLocked(c)
        PROVE  Promise!Next
    BY <2>1, <2>4, FreeLockedPromise DEF Promise!Next
  <2>5. CASE Deconstruct \/ \E c \in Clients : FreeAfterExit(c)
    BY <1>3, <2>5 DEF Deconstruct, FreeAfterExit, Undefined
  <2>6. CASE OpenFails
    BY <1>3, <2>6 DEF OpenFails
  <2> QED
    BY <1>3, <2>2, <2>3, <2>4, <2>5, <2>6 DEF Next, Free
<1> QED
  BY <1>1, <1>2, <1>3

LEMMA InitPromise == Init => Promise!Init
<1> SUFFICES ASSUME Init PROVE Promise!Init
  OBVIOUS
<1>1. \A b \in Buffers, c \in Clients : b \notin Owned(c)
  BY AllocatorAssumption DEF Init, Owned
<1>2. \A b \in Buffers : ~ \E z \in Sizes : b \in free[z]
  BY DEF Init
<1> QED
  BY <1>1, <1>2 DEF Init, owner, promised, Promise!Init

\* Zones, counters, free pools and recycling implement the promise to the
\* callers: memory leaves a client only when the client gives it back.
THEOREM AllocatorKeepsPromise == Spec => PromiseSpec
<1>1. Spec => []IInv
  BY SpecIInv
<1>2. Spec => Promise!Init /\ [][Promise!Next]_<<owner, promised>>
  BY <1>1, InitPromise, StepPromise, PTL DEF Spec
<1> QED
  BY <1>2 DEF PromiseSpec, Promise!Spec
==============================================================================
