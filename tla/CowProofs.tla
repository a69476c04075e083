----------------------------- MODULE CowProofs -----------------------------
(***************************************************************************)
(* Proofs about Cow, for any finite number of processes and pages: the     *)
(* safety properties, from the inductive invariant IInv, and that forks    *)
(* and faults implement PrivateMemory.                                     *)
(***************************************************************************)
EXTENDS Cow, FiniteSetTheorems, TLAPS

-----------------------------------------------------------------------------
(* Counting the entries that map a frame.                                  *)

\* The entries of the page tables x that map f.
Mapping(x, f) == {m \in Proc \X Page : x[m[1]][m[2]].frame = f}

\* There are finitely many entries, so they can be counted.
LEMMA MappingIsFinite ==
  ASSUME NEW x, NEW f
  PROVE  IsFiniteSet(Mapping(x, f)) /\ Cardinality(Mapping(x, f)) \in Nat
<1>1. IsFiniteSet(Proc \X Page)
  BY MemAssumption, FS_Product
<1>2. Mapping(x, f) \subseteq Proc \X Page
  BY DEF Mapping
<1> QED BY <1>1, <1>2, FS_Subset, FS_CardinalityType

\* The page tables y are x but for the entry e of page v of p.
Changed(x, y, p, v, e) ==
  \A q \in Proc, u \in Page : y[q][u] = IF q = p /\ u = v THEN e ELSE x[q][u]

\* What one changed entry does to the count of each frame.
LEMMA Remap ==
  ASSUME NEW x, NEW y, NEW p \in Proc, NEW v \in Page, NEW e, NEW f,
         Changed(x, y, p, v, e)
  PROVE  /\ e.frame = f /\ x[p][v].frame # f =>
              Cardinality(Mapping(y, f)) = Cardinality(Mapping(x, f)) + 1
         /\ e.frame # f /\ x[p][v].frame = f =>
              Cardinality(Mapping(y, f)) = Cardinality(Mapping(x, f)) - 1
         /\ (e.frame = f <=> x[p][v].frame = f) =>
              Mapping(y, f) = Mapping(x, f)
<1> DEFINE m == <<p, v>>
<1>2. \A n \in Proc \X Page : y[n[1]][n[2]] = IF n = m THEN e ELSE x[n[1]][n[2]]
  BY DEF Changed
<1>3. ASSUME e.frame = f, x[p][v].frame # f
      PROVE  Cardinality(Mapping(y, f)) = Cardinality(Mapping(x, f)) + 1
  <2>1. Mapping(y, f) = Mapping(x, f) \cup {m} /\ m \notin Mapping(x, f)
    BY <1>2, <1>3 DEF Mapping
  <2> QED BY <2>1, MappingIsFinite, FS_AddElement
<1>4. ASSUME e.frame # f, x[p][v].frame = f
      PROVE  Cardinality(Mapping(y, f)) = Cardinality(Mapping(x, f)) - 1
  <2>1. Mapping(y, f) = Mapping(x, f) \ {m} /\ m \in Mapping(x, f)
    BY <1>2, <1>4 DEF Mapping
  <2> QED BY <2>1, MappingIsFinite, FS_RemoveElement
<1>5. ASSUME e.frame = f <=> x[p][v].frame = f
      PROVE  Mapping(y, f) = Mapping(x, f)
  BY <1>2, <1>5 DEF Mapping
<1> QED BY <1>3, <1>4, <1>5

\* A frame that is mapped has a count of at least one, and of more when two
\* entries map it.
LEMMA CountedOnce ==
  ASSUME RefsExact, NEW f \in Frame, NEW m \in Mapping(pte, f)
  PROVE  /\ ref[f] \in Nat /\ ref[f] >= 1 /\ f \notin free
         /\ ref[f] <= 1 => Mapping(pte, f) = {m}
<1>1. ref[f] = Cardinality(Mapping(pte, f)) /\ free = {g \in Frame : ref[g] = 0}
  BY DEF RefsExact, Mappings, Mapping
<1>2. IsFiniteSet(Mapping(pte, f)) /\ ref[f] \in Nat
  BY <1>1, MappingIsFinite
<1>3. ref[f] # 0
  BY <1>1, <1>2, FS_EmptySet
<1>4. ASSUME ref[f] <= 1
      PROVE  Mapping(pte, f) = {m}
  <2>1. /\ IsFiniteSet(Mapping(pte, f) \ {m})
        /\ Cardinality(Mapping(pte, f) \ {m}) = ref[f] - 1
    BY <1>1, <1>2, FS_RemoveElement
  <2>2. Mapping(pte, f) \ {m} = {}
    BY <1>2, <1>3, <1>4, <2>1, FS_EmptySet
  <2> QED BY <2>2
<1> QED BY <1>1, <1>2, <1>3, <1>4

\* A free frame has no mapping.
LEMMA FreeIsUnmapped ==
  ASSUME RefsExact, NEW f \in free
  PROVE  f \in Frame /\ ref[f] = 0 /\ Mapping(pte, f) = {}
<1>1. f \in Frame /\ ref[f] = 0 /\ ref[f] = Cardinality(Mapping(pte, f))
  BY DEF RefsExact, Mappings, Mapping
<1> QED BY <1>1, MappingIsFinite, FS_EmptySet

-----------------------------------------------------------------------------
(* Each operation keeps the invariant.                                     *)

\* Load_icode's frames are distinct, and each counts its one mapping.
LEMMA InitHolds == Init => IInv
<1> SUFFICES ASSUME Init
             PROVE  IInv
  OBVIOUS
<1>1. PICK at \in [Loaded -> Frame] :
        /\ \A u, v \in Loaded : at[u] = at[v] => u = v
        /\ pte = [p \in Proc |-> [v \in Page |->
                    IF p = First /\ v \in Loaded
                    THEN [frame |-> at[v], w |-> v \in Writable, cow |-> FALSE]
                    ELSE Invalid]]
        /\ ref = [f \in Frame |-> IF \E v \in Loaded : at[v] = f THEN 1 ELSE 0]
        /\ free = {f \in Frame : \A v \in Loaded : at[v] # f}
  BY DEF Init
<1>2. ASSUME NEW p \in Proc, NEW v \in Page
      PROVE  /\ pte[p][v] \in Entry
             /\ pte[p][v].frame = IF p = First /\ v \in Loaded THEN at[v] ELSE None
             /\ ~pte[p][v].cow
             /\ pte[p][v].w <=> p = First /\ v \in Loaded /\ v \in Writable
             /\ Mapped(p, v) <=> p = First /\ v \in Loaded
  <2>1. CASE p = First /\ v \in Loaded
    <3>1. pte[p][v] = [frame |-> at[v], w |-> v \in Writable, cow |-> FALSE]
      BY <1>1, <2>1
    <3>2. at[v] \in Frame
      BY <2>1
    <3>3. CASE v \in Writable
      <4>1. pte[p][v] = [frame |-> at[v], w |-> TRUE, cow |-> FALSE]
        BY <3>1, <3>3
      <4> QED BY <2>1, <3>2, <3>3, <4>1, MemAssumption DEF Entry, Mapped
    <3>4. CASE v \notin Writable
      <4>1. pte[p][v] = [frame |-> at[v], w |-> FALSE, cow |-> FALSE]
        <5>1. (v \in Writable) = FALSE
          BY <3>4
        <5> QED BY <3>1, <5>1, Zenon
      <4> QED BY <2>1, <3>2, <3>4, <4>1, MemAssumption DEF Entry, Mapped
    <3> QED BY <3>3, <3>4
  <2>2. CASE ~(p = First /\ v \in Loaded)
    <3>1. pte[p][v] = Invalid
      BY <1>1, <2>2
    <3> QED BY <2>2, <3>1, MemAssumption DEF Entry, Invalid, Mapped
  <2> QED BY <2>1, <2>2
<1>3. TypeOK
  <2>1. pte \in [Proc -> [Page -> Entry]]
    BY <1>1, MemAssumption DEF Entry, Invalid
  <2> QED BY <1>1, <2>1, MemAssumption DEF Init, TypeOK
<1>4. RefsExact
  <2>1. ASSUME NEW f \in Frame
        PROVE  ref[f] = Cardinality(Mappings(f))
    <3>1. CASE \E v \in Loaded : at[v] = f
      <4>1. PICK v \in Loaded : at[v] = f
        BY <3>1
      <4>2. Mappings(f) = {<<First, v>>}
        BY <1>1, <1>2, <4>1, MemAssumption DEF Mappings, Invalid
      <4> QED BY <1>1, <3>1, <4>2, FS_Singleton
    <3>2. CASE ~ \E v \in Loaded : at[v] = f
      <4>1. \A p \in Proc, v \in Page : pte[p][v].frame # f
        <5> SUFFICES ASSUME NEW p \in Proc, NEW v \in Page
                     PROVE  pte[p][v].frame # f
          OBVIOUS
        <5> QED BY <1>2, <3>2, MemAssumption
      <4>2. Mappings(f) = {}
        BY <4>1 DEF Mappings
      <4> QED BY <1>1, <3>2, <4>2, FS_EmptySet
    <3> QED BY <3>1, <3>2
  <2>2. free = {f \in Frame : ref[f] = 0}
    BY <1>1
  <2> QED BY <2>1, <2>2 DEF RefsExact
<1>5. WritableIsPrivate
  BY <1>1, <1>2, MemAssumption DEF WritableIsPrivate, Invalid
<1>6. BitsFitArea
  <2> SUFFICES ASSUME NEW p \in Proc, NEW v \in Page
               PROVE  /\ Mapped(p, v) /\ v \in Writable => pte[p][v].w # pte[p][v].cow
                      /\ ~Mapped(p, v) \/ v \notin Writable =>
                           ~pte[p][v].w /\ ~pte[p][v].cow
    BY DEF BitsFitArea
  <2>1. ~pte[p][v].cow /\ (pte[p][v].w <=> Mapped(p, v) /\ v \in Writable)
    BY <1>2
  <2>2. pte[p][v].w \in BOOLEAN /\ pte[p][v].cow \in BOOLEAN
    BY <1>2 DEF Entry
  <2> QED BY <2>1, <2>2
<1>7. DeadMapNothing /\ LoopOK
  BY <1>2 DEF Init, DeadMapNothing, LoopOK
<1> QED BY <1>3, <1>4, <1>5, <1>6, <1>7 DEF IInv

\* Operations that leave page tables, counts and the free list alone keep what
\* only these decide.
LEMMA TablesKept ==
  ASSUME IInv, UNCHANGED <<pte, ref, free>>
  PROVE  RefsExact' /\ WritableIsPrivate' /\ BitsFitArea'
BY DEF IInv, RefsExact, Mappings, WritableIsPrivate, BitsFitArea, Mapped

\* A store to user memory, by the process or by the kernel for it.
LEMMA StoreKeeps ==
  ASSUME IInv, NEW p \in Proc, NEW v \in Page, NEW i \in Word, NEW x \in Value,
         Store(p, v, i, x)
  PROVE  IInv'
<1>1. TypeOK'
  BY DEF IInv, TypeOK, Store, kernel
<1>2. (DeadMapNothing /\ LoopOK)'
  BY DEF IInv, DeadMapNothing, LoopOK, Store, kernel, Mapped
<1> QED BY <1>1, <1>2, TablesKept DEF IInv, Store

\* exit_mmap begins.
LEMMA ExitMmapKeeps ==
  ASSUME IInv, NEW p \in Proc, InUser(p), ExitMmap(p)
  PROVE  IInv'
<1>1. TypeOK'
  BY DEF IInv, TypeOK, ExitMmap
<1>2. (DeadMapNothing /\ LoopOK)'
  BY DEF IInv, TypeOK, DeadMapNothing, LoopOK, InUser, ExitMmap, Mapped
<1> QED BY <1>1, <1>2, TablesKept DEF IInv, ExitMmap

\* The zombie that is reaped has no memory already.
LEMMA ReapKeeps ==
  ASSUME IInv, NEW c \in Proc, life[c] = "zombie", op = "none",
         life' = [life EXCEPT ![c] = "none"],
         parent' \in [Proc -> Proc \cup {None}],
         data' \in [Frame -> [Word -> Value]],
         UNCHANGED <<pte, ref, free, kernel, panic>>
  PROVE  IInv'
<1>1. TypeOK'
  BY DEF IInv, TypeOK, kernel
<1>2. (DeadMapNothing /\ LoopOK)'
  BY DEF IInv, TypeOK, DeadMapNothing, LoopOK, Mapped, kernel
<1> QED BY <1>1, <1>2, TablesKept DEF IInv

\* do_wait's store of the exit code, or the panic in its place.
LEMMA ReapCodeKeeps ==
  ASSUME IInv, NEW p \in Proc, NEW c \in Proc, NEW v \in Page, NEW i \in Word,
         NEW x \in Value, ReapCode(p, c, v, i, x)
  PROVE  IInv'
<1>1. CASE pte[p][v].w
  <2>1. parent' = [parent EXCEPT ![c] = None]
    BY <1>1 DEF ReapCode, Reap
  <2>2. data' = [data EXCEPT ![pte[p][v].frame][i] = x]
    BY <1>1 DEF ReapCode
  <2>3. /\ parent' \in [Proc -> Proc \cup {None}]
        /\ data' \in [Frame -> [Word -> Value]]
    BY <2>1, <2>2 DEF IInv, TypeOK
  <2> QED BY <1>1, <2>3, ReapKeeps DEF ReapCode, Reap, InUser
<1>2. CASE ~pte[p][v].w
  <2>1. TypeOK'
    BY <1>2 DEF IInv, TypeOK, ReapCode, kernel
  <2>2. (DeadMapNothing /\ LoopOK)'
    BY <1>2 DEF IInv, DeadMapNothing, LoopOK, ReapCode, kernel, Mapped
  <2> QED BY <1>2, <2>1, <2>2, TablesKept DEF IInv, ReapCode
<1> QED BY <1>1, <1>2

\* fork begins: the child has an empty page table.
LEMMA ForkKeeps ==
  ASSUME IInv, NEW p \in Proc, NEW c \in Proc, Fork(p, c)
  PROVE  IInv'
<1>1. TypeOK'
  BY DEF IInv, TypeOK, Fork
<1>2. (DeadMapNothing /\ LoopOK)'
  BY DEF IInv, TypeOK, DeadMapNothing, LoopOK, InUser, Fork, Mapped
<1> QED BY <1>1, <1>2, TablesKept DEF IInv, Fork

\* fork gives up.
LEMMA CopyFailsKeeps ==
  ASSUME IInv, CopyFails
  PROVE  IInv'
<1>1. TypeOK'
  BY DEF IInv, TypeOK, CopyFails
<1>2. (DeadMapNothing /\ LoopOK)'
  BY DEF IInv, TypeOK, DeadMapNothing, LoopOK, CopyFails, Mapped
<1> QED BY <1>1, <1>2, TablesKept DEF IInv, CopyFails

\* fork is done.
LEMMA ForkEndsKeeps ==
  ASSUME IInv, ForkEnds
  PROVE  IInv'
<1>1. TypeOK'
  BY DEF IInv, TypeOK, LoopOK, ForkEnds
<1>2. (DeadMapNothing /\ LoopOK)'
  BY DEF IInv, TypeOK, DeadMapNothing, LoopOK, ForkEnds, Mapped
<1> QED BY <1>1, <1>2, TablesKept DEF IInv, ForkEnds

\* exit_mmap is done.
LEMMA UnmapEndsKeeps ==
  ASSUME IInv, UnmapEnds
  PROVE  IInv'
<1>1. TypeOK'
  BY DEF IInv, TypeOK, LoopOK, UnmapEnds
<1>2. (DeadMapNothing /\ LoopOK)'
  BY DEF IInv, TypeOK, DeadMapNothing, LoopOK, UnmapEnds, Mapped
<1> QED BY <1>1, <1>2, TablesKept DEF IInv, UnmapEnds

\* What one entry maps: the frames it counts for.
LEMMA MappingOf ==
  ASSUME IInv, NEW p \in Proc, NEW v \in Page, Mapped(p, v)
  PROVE  /\ pte[p][v] \in Entry /\ pte[p][v].frame \in Frame
         /\ <<p, v>> \in Mapping(pte, pte[p][v].frame)
BY DEF IInv, TypeOK, Entry, Mapped, Mapping

\* A fault on a page with one mapping left makes it writable.
LEMMA ReuseKeeps ==
  ASSUME IInv, NEW p \in Proc, NEW v \in Page, CanFix(p, v), Reuse(p, v)
  PROVE  IInv'
<1> DEFINE f == pte[p][v].frame
           e == ReadWrite(f)
<1>1. f \in Frame /\ pte[p][v] \in Entry /\ <<p, v>> \in Mapping(pte, f)
  BY MappingOf DEF CanFix
<1>2. e \in Entry /\ e.frame = f /\ e.w /\ ~e.cow
  BY <1>1 DEF Entry, ReadWrite
<1>3. pte' = [pte EXCEPT ![p][v] = e]
  BY DEF IInv, TypeOK, Reuse
<1>4. pte \in [Proc -> [Page -> Entry]] /\ pte' \in [Proc -> [Page -> Entry]]
  BY <1>2, <1>3 DEF IInv, TypeOK
<1>5. \A q \in Proc, u \in Page :
        /\ pte'[q][u] = IF q = p /\ u = v THEN e ELSE pte[q][u]
        /\ pte'[q][u].frame = pte[q][u].frame
  BY <1>2, <1>3, <1>4
<1> HIDE DEF e
<1>6. \A q \in Proc, u \in Page : Mapped(q, u)' <=> Mapped(q, u)
  BY <1>5 DEF Mapped
<1>7. TypeOK'
  BY <1>4 DEF IInv, TypeOK, Reuse, kernel
<1>8. RefsExact'
  <2>1. \A g \in Frame : Mappings(g)' = Mappings(g)
    BY <1>5 DEF Mappings
  <2> QED BY <2>1 DEF IInv, RefsExact, Reuse
<1>9. WritableIsPrivate'
  <2>1. Mapping(pte, f) = {<<p, v>>}
    BY <1>1, CountedOnce DEF IInv, Reuse
  <2>2. ASSUME NEW q \in Proc, NEW u \in Page, pte[q][u].frame = f
        PROVE  q = p /\ u = v
    <3>1. <<q, u>> \in Mapping(pte, f)
      BY <2>2 DEF Mapping
    <3> QED BY <2>1, <3>1
  <2> QED BY <1>5, <2>2 DEF IInv, WritableIsPrivate
<1>10. BitsFitArea'
  BY <1>2, <1>5, <1>6 DEF IInv, BitsFitArea, CanFix
<1>11. (DeadMapNothing /\ LoopOK)'
  BY <1>5, <1>6 DEF IInv, TypeOK, DeadMapNothing, LoopOK, Reuse, kernel
<1> QED BY <1>7, <1>8, <1>9, <1>10, <1>11 DEF IInv

\* A fault on a shared page: the process gets a frame of its own.
LEMMA CopyKeeps ==
  ASSUME IInv, NEW p \in Proc, NEW v \in Page, op = "none", life[p] = "user",
         CanFix(p, v), Copy(p, v)
  PROVE  IInv'
<1> DEFINE f == pte[p][v].frame
<1>1. f \in Frame /\ pte[p][v] \in Entry /\ <<p, v>> \in Mapping(pte, f)
  BY MappingOf DEF CanFix
<1>2. PICK g \in free :
        /\ data' = Copied(g, f)
        /\ pte' = [pte EXCEPT ![p][v] = ReadWrite(g)]
        /\ ref' = [RefLess(ref, f) EXCEPT ![g] = @ + 1]
        /\ free' = (free \ {g}) \cup Freed(ref, f)
  BY DEF Copy
<1> DEFINE e == ReadWrite(g)
<1>3. g \in Frame /\ ref[g] = 0 /\ Mapping(pte, g) = {}
  BY FreeIsUnmapped DEF IInv
<1>4. ref \in [Frame -> Nat] /\ ref[f] \in Nat /\ ref[f] > 1 /\ f # g
  BY <1>1, <1>3 DEF IInv, TypeOK, Copy
<1>5. e \in Entry /\ e.frame = g /\ e.w /\ ~e.cow
  BY <1>3 DEF Entry, ReadWrite
<1>6. pte \in [Proc -> [Page -> Entry]] /\ pte' \in [Proc -> [Page -> Entry]]
  BY <1>2, <1>5 DEF IInv, TypeOK
<1> HIDE DEF e
<1>7. \A q \in Proc, u \in Page :
        pte'[q][u] = IF q = p /\ u = v THEN e ELSE pte[q][u]
  BY <1>2, <1>6 DEF e
<1> HIDE DEF f
<1>8. \A q \in Proc, u \in Page : Mapped(q, u)' <=> Mapped(q, u)
  BY <1>3, <1>5, <1>7, MemAssumption DEF Mapped, CanFix
<1>9. /\ ref' \in [Frame -> Nat]
      /\ \A h \in Frame : ref'[h] = IF h = f THEN ref[f] - 1
                                    ELSE IF h = g THEN 1 ELSE ref[h]
      /\ free' = free \ {g}
  BY <1>1, <1>2, <1>3, <1>4 DEF RefLess, Freed
<1>10. TypeOK'
  <2>1. data' \in [Frame -> [Word -> Value]]
    BY <1>1, <1>2, <1>3 DEF IInv, TypeOK, Copied
  <2> QED BY <1>6, <1>9, <2>1 DEF IInv, TypeOK, Copy, kernel
<1>11. RefsExact'
  <2>0. Changed(pte, pte', p, v, e)
    BY <1>7 DEF Changed
  <2>1. \A h \in Frame : /\ Mappings(h) = Mapping(pte, h)
                         /\ Mappings(h)' = Mapping(pte', h)
                         /\ ref[h] = Cardinality(Mapping(pte, h))
    BY DEF IInv, RefsExact, Mappings, Mapping
  <2>2. ASSUME NEW h \in Frame
        PROVE  ref'[h] = Cardinality(Mapping(pte', h))
    <3>1. CASE h = f
      <4>1. Cardinality(Mapping(pte', h)) = Cardinality(Mapping(pte, h)) - 1
        <5>1. e.frame # h /\ pte[p][v].frame = h
          BY <1>4, <1>5, <3>1 DEF f
        <5> QED BY <2>0, <5>1, Remap
      <4> QED BY <1>4, <1>9, <2>1, <3>1, <4>1
    <3>2. CASE h = g
      <4>1. Cardinality(Mapping(pte', h)) = Cardinality(Mapping(pte, h)) + 1
        <5>1. e.frame = h /\ pte[p][v].frame # h
          BY <1>4, <1>5, <3>2 DEF f
        <5> QED BY <2>0, <5>1, Remap
      <4> QED BY <1>3, <1>4, <1>9, <2>1, <3>2, <4>1
    <3>3. CASE h # f /\ h # g
      <4>1. Mapping(pte', h) = Mapping(pte, h)
        BY <1>5, <2>0, <3>3, Remap DEF f
      <4> QED BY <1>9, <2>1, <3>3, <4>1
    <3> QED BY <3>1, <3>2, <3>3
  <2>3. free' = {h \in Frame : ref'[h] = 0}
    BY <1>1, <1>3, <1>4, <1>9 DEF IInv, RefsExact
  <2> QED BY <2>1, <2>2, <2>3 DEF RefsExact
<1>12. WritableIsPrivate'
  <2>1. ASSUME NEW q \in Proc, NEW u \in Page
        PROVE  pte[q][u].frame # g
    <3>1. <<q, u>> \notin Mapping(pte, g)
      BY <1>3
    <3> QED BY <3>1 DEF Mapping
  <2> QED BY <1>5, <1>7, <2>1 DEF IInv, WritableIsPrivate
<1>13. BitsFitArea'
  BY <1>5, <1>7, <1>8 DEF IInv, BitsFitArea, CanFix
<1>14. (DeadMapNothing /\ LoopOK)'
  BY <1>8 DEF IInv, TypeOK, DeadMapNothing, LoopOK, Copy, kernel
<1> QED BY <1>10, <1>11, <1>12, <1>13, <1>14 DEF IInv

\* One turn of unmap_range.
LEMMA UnmapPageKeeps ==
  ASSUME IInv, NEW v \in Page, UnmapPage(v)
  PROVE  IInv'
<1> DEFINE f == pte[target][v].frame
<1>1. target \in Proc /\ op \in {"undo", "exit"} /\ v \in todo
  BY DEF IInv, LoopOK, UnmapPage
<1>2. CASE ~Mapped(target, v)
  <2>1. TypeOK'
    BY <1>2 DEF IInv, TypeOK, UnmapPage
  <2>2. (DeadMapNothing /\ LoopOK)'
    BY <1>2 DEF IInv, DeadMapNothing, LoopOK, UnmapPage, Mapped
  <2> QED BY <1>2, <2>1, <2>2, TablesKept DEF IInv, UnmapPage
<1>3. CASE Mapped(target, v)
  <2>1. f \in Frame /\ pte[target][v] \in Entry /\ <<target, v>> \in Mapping(pte, f)
    BY <1>1, <1>3, MappingOf
  <2>2. /\ pte' = [pte EXCEPT ![target][v] = Invalid]
        /\ ref' = RefLess(ref, f)
        /\ free' = free \cup Freed(ref, f)
    BY <1>3 DEF UnmapPage
  <2>3. Invalid \in Entry /\ Invalid.frame = None /\ ~Invalid.w /\ ~Invalid.cow
    BY DEF Entry, Invalid
  <2>4. pte \in [Proc -> [Page -> Entry]] /\ pte' \in [Proc -> [Page -> Entry]]
    BY <2>2, <2>3 DEF IInv, TypeOK
  <2>5. \A q \in Proc, u \in Page :
          pte'[q][u] = IF q = target /\ u = v THEN Invalid ELSE pte[q][u]
    BY <1>1, <2>2, <2>4
  <2>6. ref \in [Frame -> Nat] /\ ref[f] \in Nat /\ ref[f] >= 1
    BY <2>1, CountedOnce DEF IInv, TypeOK
  <2> HIDE DEF f
  <2>7. /\ ref' \in [Frame -> Nat]
        /\ \A h \in Frame : ref'[h] = IF h = f THEN ref[f] - 1 ELSE ref[h]
        /\ free' = free \cup (IF ref[f] = 1 THEN {f} ELSE {})
    BY <2>1, <2>2, <2>6 DEF RefLess, Freed
  <2>8. TypeOK'
    BY <2>1, <2>4, <2>7 DEF IInv, TypeOK, UnmapPage
  <2>9. RefsExact'
    <3>1. \A h \in Frame : /\ Mappings(h) = Mapping(pte, h)
                           /\ Mappings(h)' = Mapping(pte', h)
                           /\ ref[h] = Cardinality(Mapping(pte, h))
      BY DEF IInv, RefsExact, Mappings, Mapping
    <3>2. ASSUME NEW h \in Frame
          PROVE  ref'[h] = Cardinality(Mapping(pte', h))
      <4>1. /\ pte[target][v].frame = h =>
                 Cardinality(Mapping(pte', h)) = Cardinality(Mapping(pte, h)) - 1
            /\ pte[target][v].frame # h => Mapping(pte', h) = Mapping(pte, h)
        <5>1. Changed(pte, pte', target, v, Invalid)
          BY <2>5 DEF Changed
        <5> QED BY <1>1, <2>3, <5>1, Remap, MemAssumption
      <4> QED BY <2>7, <3>1, <4>1 DEF f
    <3>3. free' = {h \in Frame : ref'[h] = 0}
      BY <2>1, <2>6, <2>7 DEF IInv, RefsExact
    <3> QED BY <3>1, <3>2, <3>3 DEF RefsExact
  <2>10. WritableIsPrivate'
    <3>1. \A q \in Proc, u \in Page : pte[q][u].w => pte[q][u].frame # None
      BY DEF IInv, BitsFitArea, Mapped
    <3> QED BY <2>3, <2>5, <3>1 DEF IInv, WritableIsPrivate
  <2>11. BitsFitArea'
    BY <2>3, <2>5 DEF IInv, BitsFitArea, Mapped
  <2>12. (DeadMapNothing /\ LoopOK)'
    BY <1>1, <2>3, <2>5 DEF IInv, TypeOK, DeadMapNothing, LoopOK, UnmapPage, Mapped
  <2> QED BY <2>8, <2>9, <2>10, <2>11, <2>12 DEF IInv
<1> QED BY <1>2, <1>3

\* One turn of copy_range.
LEMMA CopyPageKeeps ==
  ASSUME IInv, NEW v \in Page, CopyPage(v)
  PROVE  IInv'
<1> DEFINE f == pte[actor][v].frame
           s == Shared(pte[actor][v])
<1>1. /\ actor \in Proc /\ target \in Proc /\ actor # target
      /\ op = "fork" /\ v \in todo /\ ~Mapped(target, v)
  BY DEF IInv, LoopOK, CopyPage
<1>2. CASE ~Mapped(actor, v)
  <2>1. TypeOK'
    BY <1>2 DEF IInv, TypeOK, CopyPage
  <2>2. (DeadMapNothing /\ LoopOK)'
    BY <1>1, <1>2 DEF IInv, DeadMapNothing, LoopOK, CopyPage, Mapped
  <2> QED BY <1>2, <2>1, <2>2, TablesKept DEF IInv, CopyPage
<1>3. CASE Mapped(actor, v)
  <2>1. f \in Frame /\ pte[actor][v] \in Entry /\ <<actor, v>> \in Mapping(pte, f)
    BY <1>1, <1>3, MappingOf
  <2>2. /\ pte' = [pte EXCEPT ![actor][v] = s, ![target][v] = s]
        /\ ref' = [ref EXCEPT ![f] = @ + 1]
    BY <1>3 DEF CopyPage
  <2>3. /\ s \in Entry /\ s.frame = f /\ ~s.w
        /\ s.cow <=> pte[actor][v].w \/ pte[actor][v].cow
    BY <2>1 DEF Entry, Shared
  <2>4. pte \in [Proc -> [Page -> Entry]] /\ pte' \in [Proc -> [Page -> Entry]]
    BY <2>2, <2>3 DEF IInv, TypeOK
  <2> HIDE DEF s
  <2>5. ASSUME NEW q \in Proc, NEW u \in Page
        PROVE  pte'[q][u] = IF q \in {actor, target} /\ u = v THEN s ELSE pte[q][u]
    <3>1. CASE q = actor
      BY <1>1, <2>2, <2>4, <3>1
    <3>2. CASE q = target
      BY <1>1, <2>2, <2>4, <3>2
    <3>3. CASE q \notin {actor, target}
      BY <1>1, <2>2, <2>4, <3>3
    <3> QED BY <3>1, <3>2, <3>3
  <2> DEFINE y == [q \in Proc |-> [u \in Page |->
                     IF q = actor /\ u = v THEN s ELSE pte[q][u]]]
  <2>6. ref \in [Frame -> Nat] /\ ref[f] \in Nat /\ ref[f] >= 1
    BY <2>1, CountedOnce DEF IInv, TypeOK
  <2> HIDE DEF f
  <2>7. /\ ref' \in [Frame -> Nat]
        /\ \A h \in Frame : ref'[h] = IF h = f THEN ref[f] + 1 ELSE ref[h]
    BY <2>1, <2>2, <2>6
  <2>8. TypeOK'
    BY <2>4, <2>7 DEF IInv, TypeOK, CopyPage
  <2>9. RefsExact'
    <3>1. \A h \in Frame : /\ Mappings(h) = Mapping(pte, h)
                           /\ Mappings(h)' = Mapping(pte', h)
                           /\ ref[h] = Cardinality(Mapping(pte, h))
      BY DEF IInv, RefsExact, Mappings, Mapping
    <3>2. ASSUME NEW h \in Frame
          PROVE  ref'[h] = Cardinality(Mapping(pte', h))
      <4>1. Mapping(y, h) = Mapping(pte, h)
        <5>1. Changed(pte, y, actor, v, s)
          BY DEF Changed
        <5> HIDE DEF y
        <5> QED BY <1>1, <2>3, <5>1, Remap DEF f
      <4>2. /\ s.frame = h =>
                 Cardinality(Mapping(pte', h)) = Cardinality(Mapping(y, h)) + 1
            /\ s.frame # h => Mapping(pte', h) = Mapping(y, h)
        <5>1. Changed(y, pte', target, v, s)
          BY <1>1, <2>5 DEF Changed
        <5>2. y[target][v].frame = None /\ h # None
          BY <1>1, MemAssumption DEF Mapped
        <5> HIDE DEF y
        <5> QED BY <1>1, <5>1, <5>2, Remap
      <4> QED BY <2>3, <2>7, <3>1, <4>1, <4>2
    <3>3. free' = {h \in Frame : ref'[h] = 0}
      BY <2>6, <2>7 DEF IInv, RefsExact, CopyPage
    <3> QED BY <3>1, <3>2, <3>3 DEF RefsExact
  <2>10. WritableIsPrivate'
    BY <1>1, <2>3, <2>5 DEF IInv, WritableIsPrivate, f
  <2>11. BitsFitArea'
    <3>1. \A q \in Proc, u \in Page : Mapped(q, u)' <=>
            IF q = target /\ u = v THEN TRUE ELSE Mapped(q, u)
      BY <1>1, <1>3, <2>3, <2>5 DEF Mapped, f
    <3>2. s.w \in BOOLEAN /\ s.cow \in BOOLEAN
      BY <2>3 DEF Entry
    <3>3. /\ v \in Writable => s.cow
          /\ v \notin Writable => ~s.cow
      BY <1>1, <1>3, <2>1, <2>3 DEF IInv, BitsFitArea, Entry
    <3>4. ASSUME NEW q \in Proc, NEW u \in Page
          PROVE  /\ Mapped(q, u)' /\ u \in Writable => pte'[q][u].w # pte'[q][u].cow
                 /\ ~Mapped(q, u)' \/ u \notin Writable =>
                      ~pte'[q][u].w /\ ~pte'[q][u].cow
      <4>1. CASE q \in {actor, target} /\ u = v
        BY <1>1, <1>3, <2>3, <2>5, <3>1, <3>2, <3>3, <4>1
      <4>2. CASE ~(q \in {actor, target} /\ u = v)
        <5>1. pte'[q][u] = pte[q][u] /\ (Mapped(q, u)' <=> Mapped(q, u))
          BY <1>1, <2>5, <3>1, <4>2
        <5> QED BY <5>1 DEF IInv, BitsFitArea
      <4> QED BY <4>1, <4>2
    <3> QED BY <3>4 DEF BitsFitArea
  <2>12. (DeadMapNothing /\ LoopOK)'
    BY <1>1, <2>3, <2>5 DEF IInv, TypeOK, DeadMapNothing, LoopOK, CopyPage, Mapped, f
  <2> QED BY <2>8, <2>9, <2>10, <2>11, <2>12 DEF IInv
<1> QED BY <1>2, <1>3

\* A step of a process in user mode.
LEMMA UserStepKeeps ==
  ASSUME IInv, NEW p \in Proc, UserStep(p)
  PROVE  IInv'
<1>1. CASE Exit(p)
  BY <1>1, ExitMmapKeeps DEF Exit
<1>2. ASSUME NEW v \in Page, StoreFault(p, v)
      PROVE  IInv'
  <2>1. CASE CanFix(p, v) /\ Reuse(p, v)
    BY <2>1, ReuseKeeps
  <2>2. CASE CanFix(p, v) /\ Copy(p, v)
    BY <1>2, <2>2, CopyKeeps DEF StoreFault, InUser
  <2>3. CASE ExitMmap(p)
    BY <1>2, <2>3, ExitMmapKeeps DEF StoreFault
  <2> QED BY <1>2, <2>1, <2>2, <2>3 DEF StoreFault
<1>3. ASSUME NEW v \in Page, LoadFault(p, v)
      PROVE  IInv'
  BY <1>3, ExitMmapKeeps DEF LoadFault
<1>4. ASSUME NEW v \in Page, NEW i \in Word, NEW x \in Value, Store(p, v, i, x)
      PROVE  IInv'
  BY <1>4, StoreKeeps
<1>5. ASSUME NEW c \in Proc, Fork(p, c)
      PROVE  IInv'
  BY <1>5, ForkKeeps
<1>6. ASSUME NEW c \in Proc, ReapNoCode(p, c)
      PROVE  IInv'
  <2>1. parent' \in [Proc -> Proc \cup {None}] /\ data' \in [Frame -> [Word -> Value]]
    BY <1>6 DEF IInv, TypeOK, ReapNoCode, Reap
  <2> QED BY <1>6, <2>1, ReapKeeps DEF ReapNoCode, Reap, InUser
<1>7. ASSUME NEW c \in Proc, NEW v \in Page, NEW i \in Word, NEW x \in Value,
             ReapCode(p, c, v, i, x)
      PROVE  IInv'
  BY <1>7, ReapCodeKeeps
<1> QED BY <1>1, <1>2, <1>3, <1>4, <1>5, <1>6, <1>7 DEF UserStep

\* Every step keeps the invariant.
LEMMA NextKeeps == IInv /\ [Next]_vars => IInv'
<1> SUFFICES ASSUME IInv, [Next]_vars
             PROVE  IInv'
  OBVIOUS
<1>1. CASE UNCHANGED vars
  <2>1. (TypeOK /\ DeadMapNothing /\ LoopOK)'
    BY <1>1 DEF IInv, TypeOK, DeadMapNothing, LoopOK, Mapped, vars
  <2> QED BY <1>1, <2>1, TablesKept DEF IInv, vars
<1>2. ASSUME NEW p \in Proc, UserStep(p)
      PROVE  IInv'
  BY <1>2, UserStepKeeps
<1>3. ASSUME NEW c \in Proc, ReapOrphan(c)
      PROVE  IInv'
  <2>1. parent' \in [Proc -> Proc \cup {None}] /\ data' \in [Frame -> [Word -> Value]]
    BY <1>3 DEF IInv, TypeOK, ReapOrphan
  <2> QED BY <1>3, <2>1, ReapKeeps DEF ReapOrphan
<1>4. CASE LoopStep
  BY <1>4, CopyPageKeeps, UnmapPageKeeps, CopyFailsKeeps, ForkEndsKeeps,
     UnmapEndsKeeps DEF LoopStep
<1>5. CASE Stopped
  BY <1>1, <1>5 DEF Stopped
<1> QED BY <1>1, <1>2, <1>3, <1>4, <1>5 DEF Next

\* The inductive invariant holds always.
THEOREM Invariance == Spec => []IInv
<1> QED BY InitHolds, NextKeeps, PTL DEF Spec

\* The variables keep their types: in particular no reference count of
\* page_ref_dec becomes negative.
THEOREM TypeCorrect == Spec => []TypeOK
<1>1. IInv => TypeOK
  BY DEF IInv
<1> QED BY <1>1, Invariance, PTL

\* page->ref is the number of page table entries that map the page, and the
\* free list holds those with none: page_insert and page_remove_pte, called
\* from fork, faults and exit, neither lose a page nor free one in use.
THEOREM ReferencesExact == Spec => []RefsExact
<1>1. IInv => RefsExact
  BY DEF IInv
<1> QED BY <1>1, Invariance, PTL

\* What do_pgfault and copy_range make writable has no other mapping.
THEOREM WritersAreAlone == Spec => []WritableIsPrivate
<1>1. IInv => WritableIsPrivate
  BY DEF IInv
<1> QED BY <1>1, Invariance, PTL

\* copy_range and do_pgfault keep every page of a writable area writable or
\* copy-on-write, and every other page read-only.
THEOREM BitsCorrect == Spec => []BitsFitArea
<1>1. IInv => BitsFitArea
  BY DEF IInv
<1> QED BY <1>1, Invariance, PTL

\* exit_mmap leaves no mapping behind, nor does a fork that fails.
THEOREM NothingLeftBehind == Spec => []DeadMapNothing
<1>1. IInv => DeadMapNothing
  BY DEF IInv
<1> QED BY <1>1, Invariance, PTL

\* Every entry of every page table is one that the fault handler can go on from
\* (copy_range, do_pgfault, unmap_range).
THEOREM MapsCorrect == Spec => []MapsOK
<1>1. IInv => MapsOK
  BY DEF IInv, MapsOK
<1> QED BY <1>1, Invariance, PTL

-----------------------------------------------------------------------------
(* Fork and faults implement private memories.                             *)

\* A process whose entries and frames' contents do not change, and that keeps
\* its memory or has none, keeps what it sees.
LEMMA SameMemory ==
  ASSUME \A p \in Proc : HasMemory(p)' <=> HasMemory(p),
         \A p \in Proc, v \in Page : HasMemory(p) =>
           /\ Mapped(p, v)' <=> Mapped(p, v)
           /\ Mapped(p, v) => data'[pte'[p][v].frame] = data[pte[p][v].frame]
  PROVE  Memory' = Memory
BY DEF Memory

\* The memory that load_icode builds.
LEMMA InitRefines == Init => Private!Init
<1> SUFFICES ASSUME Init
             PROVE  Private!Init
  OBVIOUS
<1>1. TypeOK
  BY InitHolds DEF IInv
<1>2. Memory \in [Proc -> [Page -> [Word -> Value] \cup {Nothing}]]
  BY <1>1 DEF Memory, TypeOK, Entry, Mapped
<1>3. \A p \in Proc \ {First} : ~HasMemory(p)
  BY DEF Init, HasMemory
<1>4. \A p \in Proc \ {First} : Memory[p] = [v \in Page |-> Nothing]
  BY <1>3 DEF Memory
<1> QED BY <1>2, <1>4 DEF Private!Init, Private!Image, Private!NoMemory

\* A store reaches the memory of its process only: no other entry maps the
\* frame.
LEMMA StoreRefines ==
  ASSUME IInv, NEW p \in Proc, NEW v \in Page, NEW i \in Word, NEW x \in Value,
         InUser(p), pte[p][v].w,
         data' = [data EXCEPT ![pte[p][v].frame][i] = x],
         UNCHANGED <<pte, op, target>>,
         \A q \in Proc : life'[q] = "user" <=> life[q] = "user"
  PROVE  Private!Store(p, v, i, x)
<1> DEFINE f == pte[p][v].frame
<1>1. /\ Mapped(p, v) /\ v \in Writable /\ f \in Frame
      /\ data \in [Frame -> [Word -> Value]]
  BY DEF IInv, TypeOK, BitsFitArea, Mapped, Entry
<1>2. HasMemory(p)
  BY DEF InUser, HasMemory
<1>3. \A q \in Proc : HasMemory(q)' <=> HasMemory(q)
  BY DEF HasMemory
<1>4. Memory[p][v] = data[f]
  BY <1>1, <1>2 DEF Memory
<1>5. Memory[p][v] # Nothing
  <2>1. data[f] \in [Word -> Value]
    BY <1>1
  <2> QED BY <1>4, <2>1, MemAssumption
<1>6. Memory' = [Memory EXCEPT ![p][v][i] = x]
  <2>1. ASSUME NEW q \in Proc, NEW u \in Page
        PROVE  Memory'[q][u] = IF q = p /\ u = v THEN [data[f] EXCEPT ![i] = x]
                               ELSE Memory[q][u]
    <3>1. CASE q = p /\ u = v
      <4>1. Memory'[q][u] = data'[f]
        BY <1>1, <1>2, <1>3, <3>1 DEF Memory, Mapped
      <4> QED BY <1>1, <3>1, <4>1
    <3>2. CASE ~(q = p /\ u = v)
      <4>1. pte[q][u].frame # f
        BY <3>2 DEF IInv, WritableIsPrivate
      <4>2. Mapped(q, u) => data'[pte[q][u].frame] = data[pte[q][u].frame]
        BY <1>1, <4>1 DEF IInv, TypeOK, Entry, Mapped
      <4> QED BY <1>3, <3>2, <4>2 DEF Memory, Mapped
    <3> QED BY <3>1, <3>2
  <2>2. Memory = [q \in Proc |-> [u \in Page |-> Memory[q][u]]]
    BY DEF Memory
  <2>3. Memory' = [q \in Proc |-> [u \in Page |-> Memory'[q][u]]]
    BY DEF Memory
  <2>4. [Memory EXCEPT ![p][v][i] = x] =
          [q \in Proc |-> [u \in Page |->
             IF q = p /\ u = v THEN [data[f] EXCEPT ![i] = x] ELSE Memory[q][u]]]
    BY <1>4, <2>2
  <2> HIDE DEF f
  <2> QED BY <2>1, <2>3, <2>4
<1> QED BY <1>1, <1>5, <1>6 DEF Private!Store

\* exit_mmap takes the memory of a process away when it begins.
LEMMA ExitRefines ==
  ASSUME IInv, NEW p \in Proc, InUser(p), ExitMmap(p)
  PROVE  Private!Exit(p)
<1>1. \A q \in Proc : HasMemory(q)' <=> q # p /\ HasMemory(q)
  BY DEF InUser, ExitMmap, HasMemory
<1>2. Memory' = [q \in Proc |-> [v \in Page |->
                   IF q # p /\ HasMemory(q) /\ Mapped(q, v)
                   THEN data[pte[q][v].frame] ELSE Nothing]]
  BY <1>1 DEF Memory, ExitMmap, Mapped
<1>3. Memory' = [Memory EXCEPT ![p] = [v \in Page |-> Nothing]]
  BY <1>2 DEF Memory
<1> QED BY <1>3 DEF Private!Exit, Private!NoMemory

\* A page fault shows nobody anything new: the copy has the content of the
\* page, and no entry maps the frame it is made in.
LEMMA FaultRefines ==
  ASSUME IInv, NEW p \in Proc, NEW v \in Page, CanFix(p, v),
         Reuse(p, v) \/ Copy(p, v)
  PROVE  Memory' = Memory
<1> DEFINE f == pte[p][v].frame
<1>1. f \in Frame /\ pte \in [Proc -> [Page -> Entry]]
  BY MappingOf DEF CanFix, IInv, TypeOK
<1>2. \A q \in Proc : HasMemory(q)' <=> HasMemory(q)
  BY DEF Reuse, Copy, HasMemory, kernel
<1>3. CASE Reuse(p, v)
  <2>1. ASSUME NEW q \in Proc, NEW u \in Page
        PROVE  pte'[q][u].frame = pte[q][u].frame
    BY <1>1, <1>3 DEF Reuse, ReadWrite
  <2>2. data' = data
    BY <1>3 DEF Reuse
  <2> QED BY <1>2, <2>1, <2>2, SameMemory DEF Mapped
<1>4. CASE Copy(p, v)
  <2>1. PICK g \in free : /\ data' = Copied(g, f)
                          /\ pte' = [pte EXCEPT ![p][v] = ReadWrite(g)]
    BY <1>4 DEF Copy
  <2>2. g \in Frame /\ Mapping(pte, g) = {}
    BY FreeIsUnmapped DEF IInv
  <2>3. \A h \in Frame : data'[h] = IF h = g THEN data[f] ELSE data[h]
    BY <2>1, <2>2 DEF Copied, IInv, TypeOK
  <2>4. ASSUME NEW q \in Proc, NEW u \in Page
        PROVE  /\ Mapped(q, u)' <=> Mapped(q, u)
               /\ Mapped(q, u) => data'[pte'[q][u].frame] = data[pte[q][u].frame]
    <3>1. CASE q = p /\ u = v
      <4>1. pte'[q][u].frame = g
        BY <1>1, <2>1, <3>1 DEF ReadWrite
      <4>2. g # None /\ Mapped(q, u)
        BY <2>2, <3>1, MemAssumption DEF CanFix
      <4> QED BY <2>2, <2>3, <3>1, <4>1, <4>2 DEF Mapped
    <3>2. CASE ~(q = p /\ u = v)
      <4>1. pte'[q][u] = pte[q][u]
        BY <1>1, <2>1, <3>2
      <4>2. pte[q][u].frame # g
        <5>1. <<q, u>> \notin Mapping(pte, g)
          BY <2>2
        <5> QED BY <5>1 DEF Mapping
      <4> QED BY <1>1, <2>3, <4>1, <4>2 DEF Mapped, Entry
    <3> QED BY <3>1, <3>2
  <2> QED BY <1>2, <2>4, SameMemory
<1> QED BY <1>3, <1>4

\* When fork is done the child has its parent's memory.
LEMMA ForkRefines ==
  ASSUME IInv, ForkEnds
  PROVE  Private!Fork(actor, target)
<1>1. /\ op = "fork" /\ op' = "none" /\ todo = {}
      /\ life' = [life EXCEPT ![target] = "user"]
      /\ pte' = pte /\ data' = data
  BY DEF ForkEnds
<1>2. /\ actor \in Proc /\ target \in Proc
      /\ life[actor] = "user" /\ life[target] = "none"
  BY <1>1 DEF IInv, LoopOK
<1>3. \A v \in Page : pte[target][v].frame = pte[actor][v].frame
  BY <1>1 DEF IInv, LoopOK
<1>4. life' \in [Proc -> {"none", "user", "zombie"}] /\ life'[target] = "user"
      /\ \A q \in Proc : q # target => life'[q] = life[q]
  BY <1>1, <1>2 DEF IInv, TypeOK
<1>5. /\ actor # target /\ HasMemory(actor) /\ ~HasMemory(target)
      /\ \A q \in Proc : HasMemory(q)' <=> q = target \/ HasMemory(q)
  BY <1>1, <1>2, <1>4 DEF HasMemory
<1>6. Memory[target] = [v \in Page |-> Nothing]
  BY <1>2, <1>5 DEF Memory
<1>7. Memory' = [Memory EXCEPT ![target] = Memory[actor]]
  <2>1. Memory[actor] = [v \in Page |-> IF Mapped(actor, v)
                           THEN data[pte[actor][v].frame] ELSE Nothing]
    BY <1>2, <1>5 DEF Memory
  <2>2. Memory' = [q \in Proc |-> [v \in Page |->
                     IF q = target
                     THEN IF Mapped(target, v) THEN data[pte[target][v].frame]
                          ELSE Nothing
                     ELSE IF HasMemory(q) /\ Mapped(q, v)
                          THEN data[pte[q][v].frame] ELSE Nothing]]
    BY <1>1, <1>2, <1>5 DEF Memory, Mapped
  <2>3. \A v \in Page :
          (IF Mapped(target, v) THEN data[pte[target][v].frame] ELSE Nothing) =
            (IF Mapped(actor, v) THEN data[pte[actor][v].frame] ELSE Nothing)
    BY <1>3 DEF Mapped
  <2>4. Memory' = [q \in Proc |-> IF q = target THEN Memory[actor] ELSE Memory[q]]
    <3>1. [v \in Page |-> IF Mapped(target, v)
                          THEN data[pte[target][v].frame] ELSE Nothing] = Memory[actor]
      BY <2>1, <2>3
    <3>2. \A q \in Proc : q # target =>
            Memory[q] = [v \in Page |-> IF HasMemory(q) /\ Mapped(q, v)
                                        THEN data[pte[q][v].frame] ELSE Nothing]
      BY DEF Memory
    <3>3. ASSUME NEW q \in Proc
          PROVE  Memory'[q] = IF q = target THEN Memory[actor] ELSE Memory[q]
      BY <2>2, <3>1, <3>2
    <3>4. Memory' = [q \in Proc |-> Memory'[q]]
      BY <2>2
    <3> QED BY <3>3, <3>4
  <2>5. Memory = [q \in Proc |-> Memory[q]]
    BY DEF Memory
  <2> QED BY <1>2, <2>4, <2>5
<1> QED BY <1>6, <1>7 DEF Private!Fork, Private!NoMemory

\* The loops of fork and exit_mmap work on a process that has no memory.
LEMMA LoopRefines ==
  ASSUME IInv, LoopStep
  PROVE  \/ Memory' = Memory
         \/ ForkEnds /\ actor \in Proc /\ target \in Proc
<1>1. ASSUME NEW v \in Page, CopyPage(v)
      PROVE  Memory' = Memory
  <2>1. /\ actor \in Proc /\ target \in Proc /\ actor # target
        /\ ~HasMemory(target)
    BY <1>1 DEF IInv, LoopOK, CopyPage, HasMemory
  <2>2. \A q \in Proc : HasMemory(q)' <=> HasMemory(q)
    BY <1>1 DEF CopyPage, HasMemory
  <2>3. ASSUME NEW q \in Proc, NEW u \in Page, q # target
        PROVE  pte'[q][u].frame = pte[q][u].frame
    <3> DEFINE s == Shared(pte[actor][v])
    <3>1. s.frame = pte[actor][v].frame
      BY DEF Shared
    <3>2. CASE Mapped(actor, v)
      <4>1. pte' = [pte EXCEPT ![actor][v] = s, ![target][v] = s]
        BY <1>1, <3>2 DEF CopyPage
      <4> HIDE DEF s
      <4>2. pte'[q] = IF q = actor THEN [pte[q] EXCEPT ![v] = s] ELSE pte[q]
        BY <2>1, <2>3, <4>1 DEF IInv, TypeOK
      <4> QED BY <2>1, <3>1, <4>2 DEF IInv, TypeOK
    <3>3. CASE ~Mapped(actor, v)
      BY <1>1, <3>3 DEF CopyPage
    <3> QED BY <3>2, <3>3
  <2> QED BY <1>1, <2>1, <2>2, <2>3, SameMemory DEF CopyPage, Mapped
<1>2. ASSUME NEW v \in Page, UnmapPage(v)
      PROVE  Memory' = Memory
  <2>1. target \in Proc /\ ~HasMemory(target)
    BY <1>2 DEF IInv, LoopOK, UnmapPage, HasMemory
  <2>2. \A q \in Proc : HasMemory(q)' <=> HasMemory(q)
    BY <1>2 DEF UnmapPage, HasMemory
  <2>3. \A q \in Proc, u \in Page : q # target => pte'[q][u] = pte[q][u]
    BY <1>2, <2>1 DEF IInv, TypeOK, UnmapPage
  <2> QED BY <1>2, <2>1, <2>2, <2>3, SameMemory DEF UnmapPage, Mapped
<1>3. CASE CopyFails
  <2>1. \A q \in Proc : HasMemory(q)' <=> HasMemory(q)
    BY <1>3 DEF CopyFails, HasMemory
  <2> QED BY <1>3, <2>1, SameMemory DEF CopyFails, Mapped
<1>4. CASE UnmapEnds
  <2>1. \A q \in Proc : HasMemory(q)' <=> HasMemory(q)
    BY <1>4, MemAssumption DEF IInv, TypeOK, LoopOK, UnmapEnds, HasMemory
  <2> QED BY <1>4, <2>1, SameMemory DEF UnmapEnds, Mapped
<1>5. CASE ForkEnds
  BY <1>5 DEF IInv, LoopOK, ForkEnds
<1> QED BY <1>1, <1>2, <1>3, <1>4, <1>5 DEF LoopStep

\* Every step is a step of the private memories, or changes none of them.
LEMMA StepRefines == IInv /\ [Next]_vars => [Private!Next]_Memory
<1> SUFFICES ASSUME IInv, [Next]_vars
             PROVE  Private!Next \/ Memory' = Memory
  BY DEF Memory
<1>1. CASE UNCHANGED vars
  BY <1>1 DEF vars, Memory, HasMemory, Mapped
<1>2. ASSUME NEW p \in Proc, UserStep(p)
      PROVE  Private!Next \/ Memory' = Memory
  <2>1. CASE Exit(p)
    BY <2>1, ExitRefines DEF Exit, Private!Next
  <2>2. ASSUME NEW v \in Page, StoreFault(p, v) \/ LoadFault(p, v)
        PROVE  Private!Next \/ Memory' = Memory
    <3>1. CASE InUser(p) /\ ExitMmap(p)
      BY <3>1, ExitRefines DEF Private!Next
    <3>2. CASE CanFix(p, v) /\ (Reuse(p, v) \/ Copy(p, v))
      BY <3>2, FaultRefines
    <3> QED BY <2>2, <3>1, <3>2 DEF StoreFault, LoadFault
  <2>3. ASSUME NEW v \in Page, NEW i \in Word, NEW x \in Value, Store(p, v, i, x)
        PROVE  Private!Next
    BY <2>3, StoreRefines DEF Store, kernel, Private!Next
  <2>4. ASSUME NEW c \in Proc, Fork(p, c)
        PROVE  Memory' = Memory
    <3>1. \A q \in Proc : HasMemory(q)' <=> HasMemory(q)
      BY <2>4 DEF Fork, InUser, HasMemory
    <3> QED BY <2>4, <3>1, SameMemory DEF Fork, Mapped
  <2>5. ASSUME NEW c \in Proc, ReapNoCode(p, c)
        PROVE  Memory' = Memory
    <3>1. \A q \in Proc : HasMemory(q)' <=> HasMemory(q)
      BY <2>5 DEF IInv, TypeOK, ReapNoCode, Reap, HasMemory, kernel
    <3> QED BY <2>5, <3>1, SameMemory DEF ReapNoCode, Mapped
  <2>6. ASSUME NEW c \in Proc, NEW v \in Page, NEW i \in Word, NEW x \in Value,
               ReapCode(p, c, v, i, x)
        PROVE  Private!Next \/ Memory' = Memory
    <3>1. CASE pte[p][v].w
      <4>1. \A q \in Proc : life'[q] = "user" <=> life[q] = "user"
        BY <2>6, <3>1 DEF IInv, TypeOK, ReapCode, Reap
      <4> QED BY <2>6, <3>1, <4>1, StoreRefines DEF ReapCode, Reap, kernel, Private!Next
    <3>2. CASE ~pte[p][v].w
      <4>1. \A q \in Proc : HasMemory(q)' <=> HasMemory(q)
        BY <2>6, <3>2 DEF ReapCode, HasMemory, kernel
      <4> QED BY <2>6, <3>2, <4>1, SameMemory DEF ReapCode, Mapped
    <3> QED BY <3>1, <3>2
  <2> QED BY <1>2, <2>1, <2>2, <2>3, <2>4, <2>5, <2>6 DEF UserStep
<1>3. ASSUME NEW c \in Proc, ReapOrphan(c)
      PROVE  Memory' = Memory
  <2>1. \A q \in Proc : HasMemory(q)' <=> HasMemory(q)
    BY <1>3 DEF IInv, TypeOK, ReapOrphan, HasMemory, kernel
  <2> QED BY <1>3, <2>1, SameMemory DEF ReapOrphan, Mapped
<1>4. CASE LoopStep
  <2>1. CASE ForkEnds /\ actor \in Proc /\ target \in Proc
    BY <2>1, ForkRefines DEF Private!Next
  <2> QED BY <1>4, <2>1, LoopRefines
<1>5. CASE Stopped
  BY <1>1, <1>5 DEF Stopped
<1> QED BY <1>1, <1>2, <1>3, <1>4, <1>5 DEF Next

\* Copy-on-write fork implements private memories: no process ever sees what
\* another stores, whatever they share underneath.
THEOREM CopyOnWriteIsPrivate == Spec => MemoryIsPrivate
<1>1. Init => Private!Init
  BY InitRefines
<1> QED BY <1>1, StepRefines, Invariance, PTL DEF Spec, MemoryIsPrivate, Private!Spec

=============================================================================
