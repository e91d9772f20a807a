---------------------------- MODULE FilesProofs -----------------------------
(***************************************************************************)
(* The properties of Files for any number of processes, files, slots and   *)
(* descriptors.  The invariant is a predicate of the record that the steps *)
(* of a call hand on, of the places where processes wait and of the shared *)
(* slots: so the closing of one descriptor, which sys_close does once and  *)
(* sys_exit for each descriptor, is argued about once.                     *)
(***************************************************************************)
EXTENDS Files, SequenceTheorems, FiniteSetTheorems, NaturalsInduction,
        WellFoundedInduction, TLAPS

\* A pipe is made by sys_pipe, and none that opened to read writes.
Fillers == {"read", "write", "refused", "create", "pipe"}
OpenFile ==
    {f \in [fd_inode : 0..Objects, fd_flag : Flags \cup {"pipe"}, by : Fillers, fd_pos : Int] :
       /\ f.fd_flag = "pipe" <=> f.by = "pipe"
       /\ f.fd_flag = "write" => f.by # "read"}
Space == Procs \cup {Kernel, Dead}
Inode == [kind : {"inode"}, file : FileSet, i_open_cnts : Int, write_deny : BOOLEAN]
State == [ft : [Slot -> OpenFile], fds : [Procs -> [Fd -> 0..Slots]],
          heap : [Object -> {Free, PipeBuffer} \cup Inode], home : [Object -> Space],
          list : Seq(Object), meant : [Procs -> [Fd -> 0..Objects]], lost : SUBSET Slot,
          unguarded : SUBSET FileSet, fault : 0..Astray]

Place == [at : {"open", "create", "entry"}, slot : Slot, inode : 0..Objects,
          file : FileSet, flag : Flags]
         \cup [at : {"reopen"}, slot : {NoSlot}, inode : {NULL}, file : FileSet, flag : Flags]
         \cup {Gone, Running}

\* The descriptors on a slot, the slots on an object, the processes that create.
Descs(fds, s) == {x \in Procs \X Fd : fds[x[1]][x[2]] = s}
SlotsOn(ft, o) == {s \in Slot : ft[s].fd_inode = o}
Creators(pcs) == {p \in Procs : pcs[p].at \in {"create", "entry"}}

\* The list has each inode once.
ListOK(st) ==
    /\ IsInjective(st.list)
    /\ \A o \in Range(st.list) : st.heap[o].kind = "inode"

\* The flag of a taken slot tells what it leads to; a pipe has one slot, and an
\* inode is in the list unless it is being created.
KindsOK(st) ==
    \A s \in Slot :
        LET o == st.ft[s].fd_inode IN
        o # NULL =>
           IF st.ft[s].fd_flag = "pipe"
           THEN st.heap[o].kind = "pipe" /\ SlotsOn(st.ft, o) = {s}
           ELSE /\ st.heap[o].kind = "inode"
                /\ st.ft[s].by # "create" => o \in Range(st.list)

\* The count of an inode covers its slots.  That of file_create is counted only
\* when the inode is listed.
CountsOK(st) ==
    \A o \in Object :
        st.heap[o].kind = "inode" =>
            Cardinality(SlotsOn(st.ft, o))
               <= st.heap[o].i_open_cnts + (IF o \in Range(st.list) THEN 0 ELSE 1)

\* An inode being created belongs to one process and is not in the list.
CreatesOK(st, pcs) ==
    /\ \A p \in Creators(pcs) :
         LET o == pcs[p].inode IN
         /\ o \in Object /\ o \notin Range(st.list)
         /\ st.heap[o].kind = "inode" /\ st.heap[o].file = pcs[p].file
    /\ \A p, q \in Creators(pcs) : pcs[p].inode = pcs[q].inode => p = q
    /\ \A s \in Slot :
         LET o == st.ft[s].fd_inode IN
         o # NULL /\ st.ft[s].by = "create" /\ o \notin Range(st.list) =>
            \E p \in Creators(pcs) : pcs[p].slot = s /\ pcs[p].inode = o

\* write_deny tells of a writer, unless it stopped telling.
Writes(st, s) == st.ft[s].fd_inode # NULL /\ st.ft[s].by = "write"
WritersOK(st) ==
    /\ \A s \in Slot :
         Writes(st, s) =>
            LET i == st.heap[st.ft[s].fd_inode] IN i.write_deny \/ i.file \in st.unguarded
    /\ \A s, t \in Slot :
         /\ Writes(st, s) /\ Writes(st, t) /\ s # t /\ st.ft[s].fd_inode = st.ft[t].fd_inode
         => st.heap[st.ft[s].fd_inode].file \in st.unguarded
    /\ \A o, u \in Range(st.list) :
         o # u /\ st.heap[o].file = st.heap[u].file => st.heap[o].file \in st.unguarded

ObjectsOK(st, pcs) ==
    ListOK(st) /\ KindsOK(st) /\ CountsOK(st) /\ CreatesOK(st, pcs) /\ WritersOK(st)

\* A taken slot is held.  The descriptors of a pipe are counted, but for the ones
\* that a failed call did not install.
HeldOK(st, pcs, s) ==
    LET D == Descs(st.fds, s) IN
    st.ft[s].fd_inode # NULL =>
        /\ D # {} \/ Waiters(pcs, s) # {} \/ s \in st.lost
        /\ st.ft[s].fd_flag = "pipe" =>
              /\ st.ft[s].fd_pos >= 1
              /\ s \in st.lost \/ st.ft[s].fd_pos <= Cardinality(D)

\* p can access the inode of the slot.
AtHome(st, s, p) ==
    \/ st.ft[s].fd_inode = NULL \/ st.ft[s].fd_flag = "pipe"
    \/ st.home[st.ft[s].fd_inode] \in {Kernel, p}

\* A slot that is not shared is that of one call that waits, or of descriptors
\* that mean its object: of one descriptor, or of the ones a pipe counts.  The
\* process it is of can access the inode, and was not refused.
AloneOK(st, pcs, s) ==
    LET D == Descs(st.fds, s)
        W == Waiters(pcs, s)
    IN
    /\ \A p, q \in W : p = q
    /\ \A p \in W : D = {} /\ pcs[p].inode = st.ft[s].fd_inode
    /\ \A x \in D : st.meant[x[1]][x[2]] = st.ft[s].fd_inode
    /\ \A p \in W : AtHome(st, s, p)
    /\ \A x \in D : AtHome(st, s, x[1])
    /\ IF st.ft[s].fd_flag = "pipe"
       THEN D # {} => Cardinality(D) <= st.ft[s].fd_pos
       ELSE /\ \A x, y \in D : x = y
            /\ D # {} => st.ft[s].by # "refused"

SlotOK(st, pcs, sh, s) == HeldOK(st, pcs, s) /\ (s \notin sh => AloneOK(st, pcs, s))

MeantOK(st) == \A p \in Procs, fd \in Fd : st.fds[p][fd] = NoSlot <=> st.meant[p][fd] = NULL

FaultOK(st, sh) ==
    st.fault # NoSlot => \/ st.fault \in sh /\ Holders(st.fds, st.fault) # {}
                         \/ st.fault = Astray /\ \E o \in Object : st.home[o] # Kernel

StateOK(st, pcs, sh) ==
    /\ st \in State /\ pcs \in [Procs -> Place]
    /\ ObjectsOK(st, pcs) /\ MeantOK(st) /\ FaultOK(st, sh)
    /\ \A s \in Slot : SlotOK(st, pcs, sh, s)

FilesInv ==
    /\ StateOK(Now, pc, shared)
    /\ shared \subseteq Slot
    /\ fault = NoSlot => \A p \in Procs : pc[p] = Gone => fd_table[p] = NoFds

-----------------------------------------------------------------------------
(* The list of inodes, as the set of its elements. *)

\* The elements of a list, by index.
LEMMA RangeIndex ==
    ASSUME NEW l \in Seq(Object)
    PROVE  /\ \A e : e \in Range(l) <=> \E i \in 1..Len(l) : l[i] = e
           /\ IsInjective(l) <=> \A i, j \in 1..Len(l) : l[i] = l[j] => i = j
           /\ Range(l) \subseteq Object
<1>1. DOMAIN l = 1..Len(l) /\ l \in [1..Len(l) -> Object]
  BY LenProperties
<1>2. \A e : e \in Range(l) <=> \E i \in 1..Len(l) : l[i] = e
  BY <1>1 DEF Range
<1>3. IsInjective(l) <=> \A i, j \in 1..Len(l) : l[i] = l[j] => i = j
  BY <1>1 DEF IsInjective
<1> QED
  BY <1>1, <1>2, <1>3

\* list_push of an inode that is not in the list.
LEMMA ListPush ==
    ASSUME NEW l \in Seq(Object), IsInjective(l), NEW o \in Object, o \notin Range(l)
    PROVE  /\ <<o>> \o l \in Seq(Object)
           /\ IsInjective(<<o>> \o l)
           /\ Range(<<o>> \o l) = Range(l) \cup {o}
<1>1. /\ <<o>> \in Seq(Object) /\ Len(<<o>>) = 1 /\ <<o>>[1] = o /\ Len(l) \in Nat
  OBVIOUS
<1>2. /\ <<o>> \o l \in Seq(Object)
      /\ Len(<<o>> \o l) = 1 + Len(l)
      /\ \A i \in 1..(1 + Len(l)) : (<<o>> \o l)[i] = IF i <= 1 THEN <<o>>[i] ELSE l[i - 1]
  BY <1>1, ConcatProperties
<1> DEFINE s == <<o>> \o l
<1> HIDE DEF s
<1>3. /\ s \in Seq(Object) /\ Len(s) = 1 + Len(l) /\ s[1] = o
      /\ \A i \in 2..Len(s) : i - 1 \in 1..Len(l) /\ s[i] = l[i - 1]
      /\ \A i \in 1..Len(l) : i + 1 \in 2..Len(s) /\ s[i + 1] = l[i]
  BY <1>1, <1>2 DEF s
<1>4. /\ \A i \in 1..Len(l) : l[i] # o
      /\ \A i, j \in 1..Len(l) : l[i] = l[j] => i = j
  BY RangeIndex
<1>5. \A i, j \in 1..Len(s) : s[i] = s[j] => i = j
  BY <1>1, <1>3, <1>4
<1>6. ASSUME NEW e PROVE e \in Range(s) <=> e \in Range(l) \cup {o}
  <2>1. CASE e \in Range(s)
    <3>1. PICK i \in 1..Len(s) : s[i] = e
      BY <1>3, <2>1, RangeIndex
    <3>2. i = 1 \/ i \in 2..Len(s)
      BY <1>1, <1>3
    <3> QED
      BY <1>3, <2>1, <3>1, <3>2, RangeIndex
  <2>2. CASE e \in Range(l)
    <3>1. PICK i \in 1..Len(l) : l[i] = e
      BY <2>2, RangeIndex
    <3>2. i + 1 \in 1..Len(s) /\ s[i + 1] = e
      BY <1>1, <1>3, <3>1
    <3> QED
      BY <1>3, <2>2, <3>2, RangeIndex
  <2>3. CASE e = o
    <3>1. 1 \in 1..Len(s) /\ s[1] = e
      BY <1>1, <1>3, <2>3
    <3> QED
      BY <1>3, <2>3, <3>1, RangeIndex
  <2> QED
    BY <2>1, <2>2, <2>3
<1> QED
  BY <1>3, <1>5, <1>6, RangeIndex DEF s

\* list_remove takes one inode out of the list.
LEMMA ListRemove ==
    ASSUME NEW l \in Seq(Object), IsInjective(l), NEW o \in Object
    PROVE  /\ RemoveFirst(l, o) \in Seq(Object)
           /\ IsInjective(RemoveFirst(l, o))
           /\ Range(RemoveFirst(l, o)) = Range(l) \ {o}
<1>1. Len(l) \in Nat /\ \A i, j \in 1..Len(l) : l[i] = l[j] => i = j
  BY RangeIndex, LenProperties
<1>2. CASE o \notin Range(l)
  <2>1. RemoveFirst(l, o) = l
    BY <1>1, <1>2, RangeIndex DEF RemoveFirst
  <2> QED
    BY <1>2, <2>1
<1>3. CASE o \in Range(l)
  <2>1. PICK n \in 1..Len(l) : l[n] = o
    BY <1>3, RangeIndex
  <2>2. {i \in 1..Len(l) : l[i] = o} = {n}
    BY <1>1, <2>1
  <2>3. Min({n}) = n
    BY <2>1 DEF Min
  <2>4. SelectInSeq(l, LAMBDA v : v = o) = n
    BY <2>2, <2>3 DEF SelectInSeq
  <2> DEFINE a == SubSeq(l, 1, n - 1)
             b == SubSeq(l, n + 1, Len(l))
             s == a \o b
  <2>5. RemoveFirst(l, o) = s
    BY <2>1, <2>4 DEF RemoveFirst, RemoveAt
  <2>6. /\ a \in Seq(Object) /\ Len(a) = n - 1
        /\ \A i \in 1..n - 1 : a[i] = l[i]
    <3>1. \A i \in 1..n - 1 : l[i] \in Object
      BY <1>1, <2>1, ElementOfSeq
    <3> QED
      BY <1>1, <2>1, <3>1, SubSeqProperties
  <2>7. /\ b \in Seq(Object) /\ Len(b) = Len(l) - n
        /\ \A i \in 1..Len(l) - n : b[i] = l[n + i]
    <3>1. \A i \in n + 1..Len(l) : l[i] \in Object
      BY <1>1, <2>1, ElementOfSeq
    <3>2. /\ b \in Seq(Object)
          /\ Len(b) = IF n + 1 <= Len(l) THEN Len(l) - (n + 1) + 1 ELSE 0
          /\ \A i \in 1..Len(l) - (n + 1) + 1 : b[i] = l[(n + 1) + i - 1]
      BY <1>1, <2>1, <3>1, SubSeqProperties
    <3> QED
      BY <1>1, <2>1, <3>2
  <2>8. /\ s \in Seq(Object) /\ Len(s) = Len(l) - 1
        /\ \A i \in 1..Len(s) : s[i] = IF i < n THEN l[i] ELSE l[i + 1]
    <3> HIDE DEF a, b
    <3>1. /\ a \o b \in Seq(Object) /\ Len(a \o b) = Len(a) + Len(b)
          /\ \A i \in 1..Len(a) + Len(b) :
                (a \o b)[i] = IF i <= Len(a) THEN a[i] ELSE b[i - Len(a)]
      BY <2>6, <2>7, ConcatProperties
    <3>2. Len(s) = Len(l) - 1
      BY <1>1, <2>1, <2>6, <2>7, <3>1
    <3>3. ASSUME NEW i \in 1..Len(s)
          PROVE  s[i] = IF i < n THEN l[i] ELSE l[i + 1]
      BY <1>1, <2>1, <2>6, <2>7, <3>1, <3>2
    <3> QED
      BY <3>1, <3>2, <3>3
  <2> HIDE DEF s
  <2>9. \A i, j \in 1..Len(s) : s[i] = s[j] => i = j
    BY <1>1, <2>1, <2>8
  <2>10. ASSUME NEW e \in Range(s) PROVE e \in Range(l) /\ e # o
    <3>1. PICK i \in 1..Len(s) : s[i] = e
      BY <2>8, RangeIndex
    <3>2. PICK j \in 1..Len(l) : l[j] = e /\ j # n
      <4>1. i \in 1..Len(l) /\ i + 1 \in 1..Len(l)
        BY <1>1, <2>1, <2>8, <3>1
      <4>2. CASE i < n
        BY <2>8, <3>1, <4>1, <4>2
      <4>3. CASE ~(i < n)
        <5>1. l[i + 1] = e /\ i + 1 # n
          BY <2>1, <2>8, <3>1, <4>1, <4>3
        <5> QED
          BY <4>1, <5>1
      <4> QED
        BY <4>2, <4>3
    <3> QED
      BY <1>1, <2>1, <3>2, RangeIndex
  <2>11. ASSUME NEW e \in Range(l), e # o PROVE e \in Range(s)
    <3>1. PICK i \in 1..Len(l) : l[i] = e /\ i # n
      BY <2>1, <2>11, RangeIndex
    <3>2. CASE i < n
      <4>1. i \in 1..Len(s) /\ s[i] = e
        BY <1>1, <2>1, <2>8, <3>1, <3>2
      <4> QED
        BY <2>8, <4>1, RangeIndex
    <3>3. CASE i > n
      <4>1. i - 1 \in 1..Len(s) /\ ~(i - 1 < n) /\ (i - 1) + 1 = i
        BY <1>1, <2>1, <2>8, <3>1, <3>3
      <4>2. s[i - 1] = e
        BY <2>8, <3>1, <4>1
      <4> QED
        BY <2>8, <4>1, <4>2, RangeIndex
    <3> QED
      BY <3>1, <3>2, <3>3
  <2> QED
    BY <2>5, <2>8, <2>9, <2>10, <2>11, RangeIndex
<1> QED
  BY <1>2, <1>3

\* A set of numbers has a least element.
LEMMA LeastElement ==
    ASSUME NEW S \in SUBSET Nat, S # {}
    PROVE  \E m \in S : \A n \in S : m <= n
<1> DEFINE Less == {ss \in Nat \X Nat : ss[1] < ss[2]}
<1>1. IsWellFoundedOn(Less, Nat)
  BY NatLessThanWellFounded, Zenon DEF OpToRel
<1>2. PICK m \in S : \A n \in S : ~(<<n, m>> \in Less)
  <2> HIDE DEF Less
  <2> QED
    BY <1>1, WFMin
<1>3. ASSUME NEW n \in S PROVE m <= n
  <2>1. ~(<<n, m>> \in Less)
    BY <1>2
  <2>2. <<n, m>> \in Nat \X Nat /\ <<n, m>>[1] = n /\ <<n, m>>[2] = m
    OBVIOUS
  <2>3. ~(n < m)
    BY <2>1, <2>2, Zenon
  <2> QED
    BY <2>3
<1> QED
  BY <1>3

\* So Min chooses an element.
LEMMA MinIn ==
    ASSUME NEW S \in SUBSET Nat, S # {}
    PROVE  Min(S) \in S
BY LeastElement DEF Min

\* inode_open finds a listed inode of the file if there is one.
LEMMA FoundListed ==
    ASSUME open_inodes \in Seq(Object), NEW f
    PROVE  /\ Found(f) # 0 => LET o == open_inodes[Found(f)] IN
                              o \in Range(open_inodes) /\ heap[o].file = f
           /\ Found(f) = 0 => \A o \in Range(open_inodes) : heap[o].file # f
           /\ Found(f) # 0 => open_inodes[Found(f)] \in Walked(f)
           /\ Walked(f) \subseteq Object
<1> DEFINE I == {i \in 1..Len(open_inodes) : heap[open_inodes[i]].file = f}
<1>1. Found(f) = IF I # {} THEN Min(I) ELSE 0
  BY Zenon DEF Found, SelectInSeq
<1>2. I \in SUBSET Nat /\ 0 \notin I
  OBVIOUS
<1>3. I # {} => Min(I) \in I
  <2> HIDE DEF I
  <2> QED
    BY <1>2, MinIn
<1>4. Found(f) # 0 => Found(f) \in 1..Len(open_inodes)
  BY <1>1, <1>3
<1>5. ASSUME Found(f) # 0 PROVE open_inodes[Found(f)] \in Walked(f)
  <2>1. Found(f) \in 1..IF Found(f) = 0 THEN Len(open_inodes) ELSE Found(f)
    BY <1>4, <1>5
  <2> QED
    BY <2>1 DEF Walked
<1>6. ASSUME NEW u \in Walked(f) PROVE u \in Object
  <2>1. PICK n \in 1..IF Found(f) = 0 THEN Len(open_inodes) ELSE Found(f) : u = open_inodes[n]
    BY DEF Walked
  <2>2. n \in 1..Len(open_inodes)
    BY <1>4, <2>1, LenProperties
  <2> QED
    BY <2>1, <2>2, ElementOfSeq
<1> QED
  BY <1>1, <1>2, <1>3, <1>5, <1>6, RangeIndex

-----------------------------------------------------------------------------
(* Descriptors and slots. *)

FdTables == [Procs -> [Fd -> 0..Slots]]
FileTables == [Slot -> OpenFile]

\* The descriptors on a slot when one of them is set.
LEMMA DescsSet ==
    ASSUME NEW fds \in FdTables, NEW p \in Procs, NEW fd \in Fd, NEW v \in 0..Slots,
           NEW s, NEW new, new = [fds EXCEPT ![p][fd] = v]
    PROVE  /\ new \in FdTables
           /\ s = v => Descs(new, s) = Descs(fds, s) \cup {<<p, fd>>}
           /\ s # v => Descs(new, s) = Descs(fds, s) \ {<<p, fd>>}
<1>1. new \in FdTables
  BY DEF FdTables
<1>2. ASSUME NEW q \in Procs, NEW n \in Fd
      PROVE  new[q][n] = IF q = p /\ n = fd THEN v ELSE fds[q][n]
  BY DEF FdTables
<1>3. ASSUME NEW x \in Procs \X Fd
      PROVE  new[x[1]][x[2]] = IF x = <<p, fd>> THEN v ELSE fds[x[1]][x[2]]
  BY <1>2
<1>4. <<p, fd>> \in Procs \X Fd
  OBVIOUS
<1> QED
  BY <1>1, <1>3, <1>4 DEF Descs

\* They are finitely many, and there are some if and only if there are holders.
LEMMA DescsFinite ==
    ASSUME NEW fds, NEW s
    PROVE  /\ IsFiniteSet(Descs(fds, s)) /\ Cardinality(Descs(fds, s)) \in Nat
           /\ Cardinality(Descs(fds, s)) = 0 <=> Descs(fds, s) = {}
           /\ Holders(fds, s) # {} <=> Descs(fds, s) # {}
<1>1. IsFiniteSet(Procs) /\ IsFiniteSet(Fd)
  BY FilesAssumption, FS_Interval DEF Fd
<1>2. IsFiniteSet(Procs \X Fd)
  BY <1>1, FS_Product
<1>3. Descs(fds, s) \in SUBSET (Procs \X Fd)
  BY DEF Descs
<1>4. IsFiniteSet(Descs(fds, s))
  BY <1>2, <1>3, FS_Subset
<1>5. ASSUME Holders(fds, s) # {} PROVE Descs(fds, s) # {}
  <2>1. PICK p \in Procs, fd \in Fd : fds[p][fd] = s
    BY <1>5 DEF Holders
  <2>2. <<p, fd>> \in Descs(fds, s)
    BY <2>1 DEF Descs
  <2> QED
    BY <2>2
<1>6. ASSUME Descs(fds, s) # {} PROVE Holders(fds, s) # {}
  BY <1>6 DEF Holders, Descs
<1> QED
  BY <1>4, <1>5, <1>6, FS_CardinalityType, FS_EmptySet

\* The slots on an object when one slot is set.
LEMMA SlotsOnSet ==
    ASSUME NEW ft, NEW new, NEW s \in Slot, NEW o,
           \A t \in Slot \ {s} : new[t].fd_inode = ft[t].fd_inode
    PROVE  /\ new[s].fd_inode = o => SlotsOn(new, o) = SlotsOn(ft, o) \cup {s}
           /\ new[s].fd_inode # o => SlotsOn(new, o) = SlotsOn(ft, o) \ {s}
BY DEF SlotsOn

LEMMA SlotsOnFinite ==
    ASSUME NEW ft, NEW o
    PROVE  /\ IsFiniteSet(SlotsOn(ft, o)) /\ Cardinality(SlotsOn(ft, o)) \in Nat
           /\ Cardinality(SlotsOn(ft, o)) = 0 <=> SlotsOn(ft, o) = {}
           /\ \A s : IsFiniteSet(SlotsOn(ft, o) \ {s}) /\ Cardinality(SlotsOn(ft, o) \ {s})
                 = IF s \in SlotsOn(ft, o) THEN Cardinality(SlotsOn(ft, o)) - 1
                                           ELSE Cardinality(SlotsOn(ft, o))
<1>1. IsFiniteSet(Slot)
  BY FilesAssumption, FS_Interval DEF Slot
<1>2. SlotsOn(ft, o) \in SUBSET Slot
  BY DEF SlotsOn
<1>3. IsFiniteSet(SlotsOn(ft, o))
  BY <1>1, <1>2, FS_Subset
<1> QED
  BY <1>3, FS_CardinalityType, FS_EmptySet, FS_RemoveElement

\* The inode of a slot is where it was, or in the kernel's memory.
SameHome(st, r, s) ==
    LET o == st.ft[s].fd_inode IN o # NULL => r.home[o] \in {st.home[o], Kernel}

\* Who could access the inode of a slot still can.
LEMMA HomeFrame ==
    ASSUME NEW st, NEW r, NEW s, NEW p, AtHome(st, s, p), SameHome(st, r, s),
           r.ft[s].fd_inode = st.ft[s].fd_inode, r.ft[s].fd_flag = st.ft[s].fd_flag
    PROVE  AtHome(r, s, p)
BY Zenon DEF AtHome, SameHome

\* A slot is as it was if nothing that concerns it has changed.
LEMMA SlotFrame ==
    ASSUME NEW st, NEW r, NEW pcs, NEW qcs, NEW sh, NEW ch, NEW s,
           SlotOK(st, pcs, sh, s),
           r.ft[s] = st.ft[s], Descs(r.fds, s) = Descs(st.fds, s),
           \A x \in Descs(st.fds, s) : r.meant[x[1]][x[2]] = st.meant[x[1]][x[2]],
           Waiters(qcs, s) = Waiters(pcs, s),
           \A p \in Waiters(pcs, s) : qcs[p].inode = pcs[p].inode,
           s \in st.lost => s \in r.lost, SameHome(st, r, s),
           s \in sh => s \in ch
    PROVE  SlotOK(r, qcs, ch, s)
<1>1. HeldOK(r, qcs, s)
  BY Zenon DEF SlotOK, HeldOK
<1>2. ASSUME s \notin ch PROVE AloneOK(r, qcs, s)
  <2>1. AloneOK(st, pcs, s)
    BY <1>2 DEF SlotOK
  <2>2. /\ \A p \in Waiters(qcs, s) : AtHome(r, s, p)
        /\ \A x \in Descs(r.fds, s) : AtHome(r, s, x[1])
    BY <2>1, HomeFrame, Zenon DEF AloneOK
  <2> QED
    BY <2>1, <2>2, Zenon DEF AloneOK
<1> QED
  BY <1>1, <1>2 DEF SlotOK

-----------------------------------------------------------------------------
(* What the steps of a call do to the record they hand on. *)

\* Either outcome of pcb_fd_install, as a relation between records.
Installed(st, r, p, s, o) ==
    \/ r.fds = st.fds /\ r.meant = st.meant /\ r.lost = st.lost \cup {s}
    \/ /\ r.lost = st.lost
       /\ \E fd \in Fd : /\ st.fds[p][fd] = NoSlot
                         /\ r.fds = [st.fds EXCEPT ![p][fd] = s]
                         /\ r.meant = [st.meant EXCEPT ![p][fd] = o]

\* pcb_fd_install sets one free descriptor of p, or counts the slot as lost.
LEMMA InstallFields ==
    ASSUME NEW st \in State, NEW p \in Procs, NEW s \in Slot, NEW o \in Object
    PROVE  LET r == pcb_fd_install(st, p, s, o) IN
           /\ r \in State
           /\ r.ft = st.ft /\ r.heap = st.heap /\ r.home = st.home /\ r.list = st.list
           /\ r.unguarded = st.unguarded /\ r.fault = st.fault
           /\ Installed(st, r, p, s, o)
<1> DEFINE free == {fd \in Fd : st.fds[p][fd] = NoSlot}
           r == pcb_fd_install(st, p, s, o)
<1>1. CASE free = {}
  <2>1. r = [st EXCEPT !.lost = @ \cup {s}]
    BY <1>1 DEF pcb_fd_install
  <2> QED
    BY <2>1, ZenonT(60) DEF State, Installed
<1>2. CASE free # {}
  <2>1. free \in SUBSET Nat
    BY DEF Fd
  <2>2. Min(free) \in free
    <3> HIDE DEF free
    <3> QED
      BY <1>2, <2>1, MinIn
  <2>3. PICK fd \in Fd : fd = Min(free) /\ st.fds[p][fd] = NoSlot
    BY <2>2
  <2>4. r = [st EXCEPT !.fds[p][fd] = s, !.meant[p][fd] = o]
    BY <1>2, <2>3 DEF pcb_fd_install
  <2>5. s \in 0..Slots /\ o \in 0..Objects
    BY FilesAssumption DEF Slot, Object
  <2>6. /\ [st.fds EXCEPT ![p][fd] = s] \in [Procs -> [Fd -> 0..Slots]]
        /\ [st.meant EXCEPT ![p][fd] = o] \in [Procs -> [Fd -> 0..Objects]]
    BY <2>5 DEF State
  <2> QED
    BY <2>3, <2>4, <2>6 DEF State, Installed
<1> QED
  BY <1>1, <1>2

\* An inode in memory, field by field.
LEMMA InodeFields ==
    ASSUME NEW st \in State, NEW o \in Object, st.heap[o].kind = "inode"
    PROVE  st.heap[o] \in Inode
<1>1. st.heap[o] \in {Free, PipeBuffer} \cup Inode
  BY DEF State
<1>2. Free.kind = "free" /\ PipeBuffer.kind = "pipe"
  BY DEF Free, PipeBuffer
<1> QED
  BY <1>1, <1>2

\* The objects of a typed heap when one of them is set.
LEMMA HeapSet ==
    ASSUME NEW st \in State, NEW o \in Object, NEW i \in {Free, PipeBuffer} \cup Inode
    PROVE  /\ [st.heap EXCEPT ![o] = i] \in [Object -> {Free, PipeBuffer} \cup Inode]
           /\ \A u \in Object : [st.heap EXCEPT ![o] = i][u] = IF u = o THEN i ELSE st.heap[u]
BY DEF State

\* inode_open adds one to the count of the inode.
LEMMA OpenFields ==
    ASSUME NEW st \in State, NEW o \in Object, st.heap[o].kind = "inode"
    PROVE  LET r == inode_open(st, o) IN
           /\ r \in State
           /\ r.ft = st.ft /\ r.fds = st.fds /\ r.list = st.list /\ r.meant = st.meant
           /\ r.lost = st.lost /\ r.unguarded = st.unguarded /\ r.fault = st.fault
           /\ r.home = st.home /\ \A u \in Object \ {o} : r.heap[u] = st.heap[u]
           /\ r.heap[o].kind = "inode" /\ r.heap[o].file = st.heap[o].file
           /\ r.heap[o].write_deny = st.heap[o].write_deny
           /\ r.heap[o].i_open_cnts = st.heap[o].i_open_cnts + 1
<1> DEFINE i == [st.heap[o] EXCEPT !.i_open_cnts = @ + 1]
<1>1. st.heap[o] \in Inode
  BY InodeFields
<1>2. /\ i \in Inode /\ i.kind = "inode" /\ i.file = st.heap[o].file
      /\ i.write_deny = st.heap[o].write_deny
      /\ i.i_open_cnts = st.heap[o].i_open_cnts + 1
  BY <1>1 DEF Inode
<1>3. inode_open(st, o) = [st EXCEPT !.heap = [st.heap EXCEPT ![o] = i]]
  BY DEF inode_open, State
<1> DEFINE h == [st.heap EXCEPT ![o] = i]
<1>4. /\ h \in [Object -> {Free, PipeBuffer} \cup Inode] /\ h[o] = i
      /\ \A u \in Object \ {o} : h[u] = st.heap[u]
  <2> HIDE DEF i
  <2> QED
    BY <1>2, HeapSet
<1>5. inode_open(st, o).heap = h
  BY <1>3 DEF State
<1> HIDE DEF h, i
<1>6. inode_open(st, o) \in State
  BY <1>3, <1>4 DEF State, h
<1>7. LET r == inode_open(st, o) IN
      /\ r.ft = st.ft /\ r.fds = st.fds /\ r.list = st.list /\ r.meant = st.meant
      /\ r.lost = st.lost /\ r.unguarded = st.unguarded /\ r.fault = st.fault
      /\ r.home = st.home
  BY <1>3 DEF State
<1> QED
  BY <1>2, <1>4, <1>5, <1>6, <1>7

LEMMA InstalledSame ==
    ASSUME NEW st, NEW in, NEW r, NEW p, NEW s, NEW o,
           in.fds = st.fds, in.meant = st.meant, in.lost = st.lost, Installed(in, r, p, s, o)
    PROVE  Installed(st, r, p, s, o)
BY DEF Installed

\* The slot s is filled by file_open with the inode o, write_deny set for a writer.
Filled(st, r, s, o) ==
    /\ \A t \in Slot \ {s} : r.ft[t] = st.ft[t]
    /\ r.ft[s].fd_inode = o /\ r.ft[s].by \in {"read", "write", "refused"}
    /\ r.ft[s].fd_flag # "pipe" /\ r.home = st.home
    /\ r.ft[s].by = "refused" => r.fds = st.fds
    /\ r.ft[s].by = "write" => ~st.heap[o].write_deny /\ r.heap[o].write_deny
    /\ r.ft[s].by # "write" => r.heap[o] = st.heap[o]
    /\ r.list = st.list /\ r.unguarded = st.unguarded
    /\ \A u \in Object \ {o} : r.heap[u] = st.heap[u]
    /\ r.heap[o].kind = "inode" /\ r.heap[o].file = st.heap[o].file
    /\ r.heap[o].i_open_cnts = st.heap[o].i_open_cnts

LEMMA FilledFields ==
    ASSUME NEW st \in State, NEW r, NEW s \in Slot, NEW f \in OpenFile
    PROVE  LET new == [st.ft EXCEPT ![s] = f]
           IN  new[s] = f /\ \A t \in Slot \ {s} : new[t] = st.ft[t]
BY DEF State

LEMMA OpenedFields ==
    ASSUME NEW st \in State, NEW p \in Procs, NEW s \in Slot, NEW o \in Object,
           NEW flag \in Flags, st.heap[o].kind = "inode"
    PROVE  LET r == Opened(st, p, s, o, flag) IN
           /\ r \in State /\ r.fault = st.fault
           /\ Filled(st, r, s, o) /\ Installed(st, r, p, s, o)
<1> DEFINE r == Opened(st, p, s, o, flag)
           f == OpenFileOf(o, flag, flag, 0)
           g == OpenFileOf(o, flag, "refused", 0)
           i == [st.heap[o] EXCEPT !.write_deny = TRUE]
           h == [st.heap EXCEPT ![o] = i]
           in == [st EXCEPT !.ft[s] = f]
           set == [in EXCEPT !.heap[o].write_deny = TRUE]
<1>1. o \in 0..Objects /\ st.heap[o] \in Inode
  BY InodeFields, FilesAssumption DEF Object
<1>2. /\ f \in OpenFile /\ f.fd_inode = o /\ f.by = flag /\ f.fd_flag # "pipe"
      /\ flag # "read" => g \in OpenFile
      /\ g.fd_inode = o /\ g.by = "refused" /\ g.fd_flag # "pipe"
  BY <1>1 DEF OpenFile, Fillers, Flags, OpenFileOf
<1>3. /\ i \in Inode /\ i.kind = "inode" /\ i.file = st.heap[o].file
      /\ i.write_deny = TRUE /\ i.i_open_cnts = st.heap[o].i_open_cnts
  BY <1>1 DEF Inode
<1>4. /\ h \in [Object -> {Free, PipeBuffer} \cup Inode] /\ h[o] = i
      /\ \A u \in Object \ {o} : h[u] = st.heap[u]
  <2> HIDE DEF i
  <2> QED
    BY <1>3, HeapSet
<1>5. /\ in \in State /\ in.ft = [st.ft EXCEPT ![s] = f] /\ in.fds = st.fds
      /\ in.heap = st.heap /\ in.home = st.home /\ in.list = st.list /\ in.meant = st.meant
      /\ in.lost = st.lost /\ in.unguarded = st.unguarded /\ in.fault = st.fault
  <2> HIDE DEF f
  <2> QED
    BY <1>2 DEF State
<1>6. set = [in EXCEPT !.heap = h]
  BY <1>5 DEF State
<1>7. /\ set \in State /\ set.ft = in.ft /\ set.fds = st.fds
      /\ set.heap = h /\ set.home = st.home /\ set.list = st.list /\ set.meant = st.meant
      /\ set.lost = st.lost /\ set.unguarded = st.unguarded /\ set.fault = st.fault
  <2> HIDE DEF in, h, set
  <2> QED
    BY <1>4, <1>5, <1>6 DEF State
<1>8. CASE flag = "read"
  <2>1. r = pcb_fd_install(in, p, s, o)
    BY <1>8 DEF Opened
  <2>2. f.by = "read" /\ f.fd_inode = o /\ f.fd_flag # "pipe"
    BY <1>2, <1>8
  <2> HIDE DEF in, f, r
  <2>3. /\ r \in State /\ r.ft = in.ft /\ r.heap = in.heap /\ r.list = in.list
        /\ r.unguarded = in.unguarded /\ r.fault = in.fault /\ r.home = in.home
        /\ Installed(in, r, p, s, o)
    BY <1>5, <2>1, InstallFields
  <2>4. Installed(st, r, p, s, o)
    BY <1>5, <2>3, ZenonT(60) DEF Installed
  <2>5. /\ r.ft[s] = f /\ r.heap = st.heap /\ r.list = st.list /\ r.unguarded = st.unguarded
        /\ r.home = st.home /\ \A t \in Slot \ {s} : r.ft[t] = st.ft[t]
    BY <1>2, <1>5, <2>3, FilledFields
  <2>6. Filled(st, r, s, o)
    BY <2>2, <2>5 DEF Filled
  <2> QED
    BY <1>5, <2>3, <2>4, <2>6 DEF r
<1>9. CASE flag # "read" /\ WriteGranted(st.heap[o])
  <2>1. r = pcb_fd_install(set, p, s, o)
    BY <1>9 DEF Opened
  <2>2. f.by = "write" /\ f.fd_inode = o /\ f.fd_flag # "pipe"
    BY <1>2, <1>9 DEF Flags
  <2>3. h[o].write_deny /\ ~st.heap[o].write_deny
    BY <1>3, <1>4, <1>9, Zenon DEF WriteGranted
  <2> HIDE DEF in, set, f, r, h, i
  <2>4. /\ r \in State /\ r.ft = set.ft /\ r.heap = set.heap /\ r.list = set.list
        /\ r.unguarded = set.unguarded /\ r.fault = set.fault /\ r.home = set.home
        /\ Installed(set, r, p, s, o)
    BY <1>7, <2>1, InstallFields
  <2>5. Installed(st, r, p, s, o)
    BY <1>7, <2>4 DEF Installed
  <2>6. /\ r.ft[s] = f /\ r.heap = h /\ r.list = st.list /\ r.unguarded = st.unguarded
        /\ r.home = st.home /\ \A t \in Slot \ {s} : r.ft[t] = st.ft[t]
    BY <1>2, <1>5, <1>7, <2>4, FilledFields
  <2>7. r.heap[o].write_deny
    BY <2>3, <2>6, Zenon
  <2>8. Filled(st, r, s, o)
    BY <1>3, <1>4, <2>2, <2>3, <2>6, <2>7 DEF Filled
  <2> QED
    BY <1>7, <2>4, <2>5, <2>8 DEF r
<1>10. CASE flag # "read" /\ ~WriteGranted(st.heap[o])
  <2>1. r = [in EXCEPT !.lost = @ \cup {s}, !.ft[s].by = "refused"]
    BY <1>10 DEF Opened
  <2>2. in.ft[s] = f /\ [f EXCEPT !.by = "refused"] = g
    <3>1. [f EXCEPT !.by = "refused"] = g
      BY DEF OpenFileOf
    <3>2. st.ft \in [Slot -> OpenFile]
      BY DEF State
    <3> HIDE DEF f, g, in
    <3> QED
      BY <1>5, <3>1, <3>2
  <2>3. [in.ft EXCEPT ![s].by = "refused"] = [st.ft EXCEPT ![s] = g]
    BY <1>5, <2>2 DEF State
  <2>4. g.by = "refused" /\ g.fd_inode = o /\ g.fd_flag # "pipe" /\ g \in OpenFile
    BY <1>2, <1>10
  <2> HIDE DEF in, f, g, r
  <2>5. /\ r.ft = [st.ft EXCEPT ![s] = g] /\ r.heap = in.heap /\ r.list = in.list
        /\ r.unguarded = in.unguarded /\ r.fault = in.fault
        /\ r.fds = in.fds /\ r.meant = in.meant /\ r.lost = in.lost \cup {s}
        /\ r.home = in.home
    BY <1>5, <2>1, <2>3 DEF State
  <2>6. r \in State
    <3>1. [st.ft EXCEPT ![s] = g] \in [Slot -> OpenFile]
      BY <2>4 DEF State
    <3> QED
      BY <1>5, <2>1, <2>3, <3>1 DEF State
  <2>7. Installed(st, r, p, s, o)
    BY <1>5, <2>5 DEF Installed
  <2>8. r.ft[s] = g /\ r.heap = st.heap /\ \A t \in Slot \ {s} : r.ft[t] = st.ft[t]
    BY <1>5, <2>4, <2>5, FilledFields
  <2>9. Filled(st, r, s, o)
    BY <1>5, <2>4, <2>5, <2>8 DEF Filled
  <2> QED
    BY <1>5, <2>5, <2>6, <2>7, <2>9 DEF r
<1> QED
  BY <1>8, <1>9, <1>10

-----------------------------------------------------------------------------
(* Opening keeps the invariant. *)

\* p goes to w, and the others stay where they are.
Moved(pcs, qcs, p, w) ==
    /\ qcs \in [Procs -> Place] /\ qcs[p] = w
    /\ \A q \in Procs \ {p} : qcs[q] = pcs[q]

LEMMA MovedEx ==
    ASSUME NEW pcs \in [Procs -> Place], NEW p \in Procs, NEW w \in Place
    PROVE  Moved(pcs, [pcs EXCEPT ![p] = w], p, w)
BY DEF Moved

\* A process that creates nothing may go elsewhere.
LEMMA CreatesFrame ==
    ASSUME NEW st, NEW pcs \in [Procs -> Place], NEW p \in Procs, NEW w \in Place,
           CreatesOK(st, pcs), p \notin Creators(pcs), w.at \notin {"create", "entry"},
           NEW qcs, Moved(pcs, qcs, p, w)
    PROVE  CreatesOK(st, qcs)
<1>1. Creators(qcs) = Creators(pcs)
  BY DEF Creators, Moved
<1>2. \A q \in Creators(pcs) : qcs[q] = pcs[q]
  BY DEF Creators, Moved
<1> QED
  BY <1>1, <1>2 DEF CreatesOK

\* The waiters of a slot when one process goes elsewhere.
LEMMA WaitersFrame ==
    ASSUME NEW pcs \in [Procs -> Place], NEW p \in Procs, NEW w \in Place, NEW s \in Slot,
           NEW qcs, Moved(pcs, qcs, p, w)
    PROVE  /\ p \in Waiters(qcs, s) <=> w.at \in {"open", "create", "entry"} /\ w.slot = s
           /\ Waiters(qcs, s) \ {p} = Waiters(pcs, s) \ {p}
BY DEF Waiters, Moved

\* The other slots have the descriptors they had.
LEMMA InstalledFrame ==
    ASSUME NEW st \in State, NEW r, NEW p \in Procs, NEW s \in Slot, NEW o \in Object,
           Installed(st, r, p, s, o), NEW t \in Slot, t # s
    PROVE  /\ Descs(r.fds, t) = Descs(st.fds, t)
           /\ \A x \in Descs(st.fds, t) : r.meant[x[1]][x[2]] = st.meant[x[1]][x[2]]
           /\ t \in st.lost => t \in r.lost
<1>1. /\ st.fds \in FdTables /\ s \in 0..Slots /\ NoSlot \notin Slot
      /\ st.meant \in [Procs -> [Fd -> 0..Objects]]
  BY FilesAssumption DEF State, FdTables, Slot, NoSlot
<1>2. t \in st.lost => t \in r.lost
  BY DEF Installed
<1>3. CASE r.fds = st.fds /\ r.meant = st.meant
  BY <1>2, <1>3
<1>4. ASSUME NEW fd \in Fd, st.fds[p][fd] = NoSlot,
             r.fds = [st.fds EXCEPT ![p][fd] = s],
             r.meant = [st.meant EXCEPT ![p][fd] = o]
      PROVE  /\ Descs(r.fds, t) = Descs(st.fds, t)
             /\ \A x \in Descs(st.fds, t) : r.meant[x[1]][x[2]] = st.meant[x[1]][x[2]]
  <2>1. Descs(r.fds, t) = Descs(st.fds, t) \ {<<p, fd>>}
    BY <1>1, <1>4, DescsSet
  <2>2. <<p, fd>> \notin Descs(st.fds, t)
    BY <1>1, <1>4 DEF Descs
  <2>3. ASSUME NEW x \in Descs(st.fds, t) PROVE r.meant[x[1]][x[2]] = st.meant[x[1]][x[2]]
    <3>1. x \in Procs \X Fd /\ ~(x[1] = p /\ x[2] = fd)
      BY <2>2 DEF Descs
    <3> QED
      BY <1>1, <1>4, <3>1
  <2> QED
    BY <2>1, <2>2, <2>3
<1> QED
  BY <1>2, <1>3, <1>4 DEF Installed

\* The slot has one descriptor more, or is lost.
OneMore(st, r, s, o, x) ==
    /\ x \notin Descs(st.fds, s) /\ Descs(r.fds, s) = Descs(st.fds, s) \cup {x}
    /\ r.meant[x[1]][x[2]] = o /\ st.lost = r.lost
    /\ \A y \in Descs(st.fds, s) : r.meant[y[1]][y[2]] = st.meant[y[1]][y[2]]

LEMMA InstalledDescs ==
    ASSUME NEW st \in State, NEW r, NEW p \in Procs, NEW s \in Slot, NEW o \in Object,
           Installed(st, r, p, s, o)
    PROVE  \/ s \in r.lost /\ st.lost \subseteq r.lost /\ r.fds = st.fds /\ r.meant = st.meant
           \/ \E x \in Procs \X Fd : x[1] = p /\ OneMore(st, r, s, o, x)
<1>1. /\ st.fds \in FdTables /\ s \in 0..Slots /\ NoSlot \notin Slot
      /\ st.meant \in [Procs -> [Fd -> 0..Objects]]
  BY FilesAssumption DEF State, FdTables, Slot, NoSlot
<1>2. ASSUME NEW fd \in Fd, st.fds[p][fd] = NoSlot, r.lost = st.lost,
             r.fds = [st.fds EXCEPT ![p][fd] = s],
             r.meant = [st.meant EXCEPT ![p][fd] = o]
      PROVE  \E x \in Procs \X Fd : x[1] = p /\ OneMore(st, r, s, o, x)
  <2>1. Descs(r.fds, s) = Descs(st.fds, s) \cup {<<p, fd>>}
    BY <1>1, <1>2, DescsSet
  <2>2. <<p, fd>> \notin Descs(st.fds, s)
    BY <1>1, <1>2 DEF Descs
  <2>3. ASSUME NEW y \in Descs(st.fds, s) PROVE r.meant[y[1]][y[2]] = st.meant[y[1]][y[2]]
    <3>1. y \in Procs \X Fd /\ ~(y[1] = p /\ y[2] = fd)
      BY <2>2 DEF Descs
    <3> QED
      BY <1>1, <1>2, <3>1
  <2>4. r.meant[p][fd] = o
    BY <1>1, <1>2
  <2>5. <<p, fd>> \in Procs \X Fd /\ <<p, fd>>[1] = p /\ <<p, fd>>[2] = fd
    OBVIOUS
  <2>6. OneMore(st, r, s, o, <<p, fd>>)
    BY <1>2, <2>1, <2>2, <2>3, <2>4, <2>5 DEF OneMore
  <2> QED
    BY <2>5, <2>6
<1> QED
  BY <1>2 DEF Installed

(***************************************************************************)
(* A call by p comes to a descriptor on s, which p may have waited for:    *)
(* nobody else is on s, and it leads to o, which p can access, or s is     *)
(* shared.                                                                 *)
(***************************************************************************)
Reached(st, r, pcs, p, s, o, sh, ch) ==
    /\ sh \subseteq ch
    /\ \A t \in Slot \ {s} : r.ft[t] = st.ft[t] /\ p \notin Waiters(pcs, t) /\ SameHome(st, r, t)
    /\ r.ft[s].fd_flag = "pipe" => r.ft[s] = st.ft[s]
    /\ s \notin ch => /\ Descs(st.fds, s) = {} /\ Waiters(pcs, s) \subseteq {p}
                      /\ r.ft[s].fd_inode = o /\ r.ft[s].fd_flag # "pipe"
                      /\ AtHome(r, s, p) /\ (r.ft[s].by = "refused" => r.fds = st.fds)

LEMMA InstalledSlots ==
    ASSUME NEW st \in State, NEW r \in State, NEW pcs \in [Procs -> Place],
           NEW p \in Procs, NEW s \in Slot, NEW o \in Object, NEW w \in Place,
           NEW sh, NEW ch, NEW qcs,
           \A t \in Slot : SlotOK(st, pcs, sh, t),
           Reached(st, r, pcs, p, s, o, sh, ch), Installed(st, r, p, s, o),
           Moved(pcs, qcs, p, w), w.at \notin {"open", "create", "entry"}
    PROVE  \A t \in Slot : SlotOK(r, qcs, ch, t)
<1> USE DEF Reached
<1>1. /\ \A q \in Procs \ {p} : qcs[q] = pcs[q]
      /\ \A t \in Slot : Waiters(qcs, t) = Waiters(pcs, t) \ {p}
  <2>1. ASSUME NEW t \in Slot
        PROVE  p \notin Waiters(qcs, t) /\ Waiters(qcs, t) \ {p} = Waiters(pcs, t) \ {p}
    BY WaitersFrame
  <2> QED
    BY <2>1 DEF Moved
<1>2. ASSUME NEW t \in Slot, t # s PROVE SlotOK(r, qcs, ch, t)
  <2>1. SlotOK(st, pcs, sh, t) /\ r.ft[t] = st.ft[t] /\ SameHome(st, r, t)
    BY <1>2
  <2>2. Waiters(qcs, t) = Waiters(pcs, t) /\ \A q \in Waiters(pcs, t) : qcs[q].inode = pcs[q].inode
    <3>1. p \notin Waiters(pcs, t) /\ Waiters(pcs, t) \subseteq Procs
      BY <1>2 DEF Waiters
    <3> HIDE DEF Reached
    <3> QED
      BY <1>1, <3>1
  <2>3. /\ Descs(r.fds, t) = Descs(st.fds, t)
        /\ \A x \in Descs(st.fds, t) : r.meant[x[1]][x[2]] = st.meant[x[1]][x[2]]
        /\ t \in st.lost => t \in r.lost
    BY <1>2, InstalledFrame
  <2> QED
    BY <2>1, <2>2, <2>3, SlotFrame
<1>3. SlotOK(r, qcs, ch, s)
  <2> DEFINE D == Descs(st.fds, s)
  <2>1. ASSUME r.ft[s].fd_flag = "pipe", r.ft[s].fd_inode # NULL
        PROVE  /\ r.ft[s].fd_pos \in Int /\ r.ft[s].fd_pos >= 1
               /\ s \in st.lost \/ r.ft[s].fd_pos <= Cardinality(D)
    BY <2>1 DEF SlotOK, HeldOK, State, OpenFile
  <2>2. CASE s \in r.lost /\ r.fds = st.fds /\ r.meant = st.meant
    <3>1. HeldOK(r, qcs, s)
      BY <2>1, <2>2 DEF HeldOK
    <3>2. ASSUME s \notin ch PROVE AloneOK(r, qcs, s)
      <4>1. Descs(r.fds, s) = {} /\ Waiters(qcs, s) = {}
        BY <1>1, <2>2, <3>2
      <4> QED
        BY <4>1 DEF AloneOK
    <3> QED
      BY <3>1, <3>2 DEF SlotOK
  <2>3. ASSUME NEW x \in Procs \X Fd, x[1] = p, OneMore(st, r, s, o, x)
        PROVE  SlotOK(r, qcs, ch, s)
    <3>0. /\ x \notin D /\ Descs(r.fds, s) = D \cup {x}
          /\ r.meant[x[1]][x[2]] = o /\ st.lost = r.lost
      BY <2>3 DEF OneMore
    <3>1. /\ Cardinality(Descs(r.fds, s)) = Cardinality(D) + 1 /\ Cardinality(D) \in Nat
          /\ Descs(r.fds, s) # {}
      <4>1. IsFiniteSet(D) /\ Cardinality(D) \in Nat
        BY DescsFinite
      <4>2. Cardinality(D \cup {x}) = Cardinality(D) + 1
        <5> HIDE DEF D
        <5> QED
          BY <3>0, <4>1, FS_AddElement
      <4> QED
        BY <3>0, <4>1, <4>2
    <3>2. HeldOK(r, qcs, s)
      BY <2>1, <3>0, <3>1 DEF HeldOK
    <3>3. ASSUME s \notin ch PROVE AloneOK(r, qcs, s)
      <4>1. Descs(r.fds, s) = {x} /\ Waiters(qcs, s) = {} /\ r.ft[s].fd_inode = o /\ r.ft[s].fd_flag # "pipe"
        BY <1>1, <3>0, <3>3
      <4>2. D = {} /\ AtHome(r, s, x[1]) /\ r.ft[s].by # "refused"
        BY <2>3, <3>0, <3>3
      <4> QED
        BY <3>0, <4>1, <4>2 DEF AloneOK
    <3> QED
      BY <3>2, <3>3 DEF SlotOK
  <2> QED
    BY <2>2, <2>3, InstalledDescs
<1> QED
  BY <1>2, <1>3

\* The descriptors it may set mean something.
LEMMA InstalledMeant ==
    ASSUME NEW st \in State, NEW r \in State, NEW p \in Procs, NEW s \in Slot, NEW o \in Object,
           MeantOK(st), Installed(st, r, p, s, o)
    PROVE  MeantOK(r)
<1>1. CASE r.fds = st.fds /\ r.meant = st.meant
  BY <1>1 DEF MeantOK
<1>2. ASSUME NEW fd \in Fd, r.fds = [st.fds EXCEPT ![p][fd] = s],
             r.meant = [st.meant EXCEPT ![p][fd] = o]
      PROVE  MeantOK(r)
  <2>1. s # NoSlot /\ o # NULL
    BY DEF Slot, Object, NoSlot, NULL
  <2>2. ASSUME NEW q \in Procs, NEW n \in Fd
        PROVE  /\ r.fds[q][n] = IF q = p /\ n = fd THEN s ELSE st.fds[q][n]
               /\ r.meant[q][n] = IF q = p /\ n = fd THEN o ELSE st.meant[q][n]
    <3>1. /\ st.fds \in [Procs -> [Fd -> 0..Slots]]
          /\ st.meant \in [Procs -> [Fd -> 0..Objects]]
      BY DEF State
    <3>2. r.fds[q][n] = IF q = p /\ n = fd THEN s ELSE st.fds[q][n]
      BY <1>2, <3>1
    <3>3. r.meant[q][n] = IF q = p /\ n = fd THEN o ELSE st.meant[q][n]
      BY <1>2, <3>1
    <3> QED
      BY <3>2, <3>3
  <2> QED
    BY <2>1, <2>2 DEF MeantOK
<1> QED
  BY <1>1, <1>2 DEF Installed

(***************************************************************************)
(* A slot filled with a listed inode whose count covers it keeps the       *)
(* objects in order.                                                       *)
(***************************************************************************)
LEMMA FilledObjects ==
    ASSUME NEW st \in State, NEW r \in State, NEW s \in Slot, NEW o \in Object, NEW pcs,
           ObjectsOK(st, pcs), Filled(st, r, s, o), o \in Range(st.list),
           Cardinality(SlotsOn(st.ft, o) \ {s}) + 1 <= st.heap[o].i_open_cnts
    PROVE  ObjectsOK(r, pcs)
<1>1. st.heap[o].kind = "inode" /\ o # NULL /\ Range(st.list) \subseteq Object
  BY RangeIndex DEF ObjectsOK, ListOK, State, Object, NULL
<1>2. /\ \A u \in Object : r.heap[u].kind = st.heap[u].kind /\ r.heap[u].file = st.heap[u].file
      /\ \A u \in Object : r.heap[u].i_open_cnts = st.heap[u].i_open_cnts
  BY <1>1 DEF Filled
<1>3. \A t \in Slot : r.ft[t].fd_inode # NULL => r.ft[t].fd_inode \in Object
  BY DEF State, OpenFile, Object, NULL
<1>4. \A u \in Object \ {o} : SlotsOn(r.ft, u) = SlotsOn(st.ft, u) \ {s}
  <2>1. ASSUME NEW u \in Object, u # o PROVE SlotsOn(r.ft, u) = SlotsOn(st.ft, u) \ {s}
    <3>1. r.ft[s].fd_inode # u /\ \A t \in Slot \ {s} : r.ft[t].fd_inode = st.ft[t].fd_inode
      BY <2>1 DEF Filled
    <3> QED
      BY <3>1, SlotsOnSet
  <2> QED
    BY <2>1
<1>5. ListOK(r)
  BY <1>1, <1>2 DEF ObjectsOK, ListOK, Filled
<1>6. KindsOK(r)
  <2> SUFFICES ASSUME NEW t \in Slot, r.ft[t].fd_inode # NULL
               PROVE  LET u == r.ft[t].fd_inode IN
                      IF r.ft[t].fd_flag = "pipe"
                      THEN r.heap[u].kind = "pipe" /\ SlotsOn(r.ft, u) = {t}
                      ELSE /\ r.heap[u].kind = "inode"
                           /\ r.ft[t].by # "create" => u \in Range(r.list)
    BY DEF KindsOK
  <2>1. CASE t = s
    BY <1>1, <2>1 DEF Filled
  <2>2. CASE t # s
    <3>1. r.ft[t] = st.ft[t] /\ r.ft[t].fd_inode \in Object /\ r.list = st.list
      BY <1>3, <2>2 DEF Filled
    <3>2. CASE r.ft[t].fd_flag = "pipe"
      <4>1. st.heap[r.ft[t].fd_inode].kind = "pipe" /\ SlotsOn(st.ft, r.ft[t].fd_inode) = {t}
        BY <3>1, <3>2 DEF ObjectsOK, KindsOK
      <4>2. r.ft[t].fd_inode # o
        BY <1>1, <4>1
      <4> QED
        BY <1>2, <1>4, <2>2, <3>1, <3>2, <4>1, <4>2
    <3>3. CASE r.ft[t].fd_flag # "pipe"
      BY <1>2, <3>1, <3>3 DEF ObjectsOK, KindsOK
    <3> QED
      BY <3>2, <3>3
  <2> QED
    BY <2>1, <2>2
<1>7. CountsOK(r)
  <2> SUFFICES ASSUME NEW u \in Object, r.heap[u].kind = "inode"
               PROVE  Cardinality(SlotsOn(r.ft, u))
                         <= r.heap[u].i_open_cnts + (IF u \in Range(r.list) THEN 0 ELSE 1)
    BY DEF CountsOK
  <2>1. st.heap[u] \in Inode /\ st.heap[u].i_open_cnts \in Int
    BY <1>2, InodeFields DEF Inode
  <2>2. r.list = st.list
    BY DEF Filled
  <2>3. CASE u = o
    <3>1. SlotsOn(r.ft, o) = SlotsOn(st.ft, o) \cup {s}
      BY SlotsOnSet DEF Filled
    <3>2. SlotsOn(r.ft, o) = (SlotsOn(st.ft, o) \ {s}) \cup {s}
      BY <3>1
    <3>3. IsFiniteSet(SlotsOn(st.ft, o) \ {s})
      BY SlotsOnFinite
    <3>4. Cardinality(SlotsOn(r.ft, o)) = Cardinality(SlotsOn(st.ft, o) \ {s}) + 1
      BY <3>2, <3>3, FS_AddElement
    <3> QED
      BY <1>2, <2>1, <2>2, <2>3, <3>4
  <2>4. CASE u # o
    <3>1. SlotsOn(r.ft, u) = SlotsOn(st.ft, u) \ {s}
      BY <1>4, <2>4
    <3>2. /\ Cardinality(SlotsOn(r.ft, u)) \in Nat /\ Cardinality(SlotsOn(st.ft, u)) \in Nat
          /\ Cardinality(SlotsOn(r.ft, u)) <= Cardinality(SlotsOn(st.ft, u))
      <4>1. /\ Cardinality(SlotsOn(st.ft, u)) \in Nat /\ Cardinality(SlotsOn(r.ft, u)) \in Nat
            /\ IsFiniteSet(SlotsOn(st.ft, u))
        BY SlotsOnFinite
      <4>2. SlotsOn(r.ft, u) \in SUBSET SlotsOn(st.ft, u)
        BY <3>1
      <4> QED
        BY <4>1, <4>2, FS_Subset
    <3>3. Cardinality(SlotsOn(st.ft, u))
             <= st.heap[u].i_open_cnts + (IF u \in Range(st.list) THEN 0 ELSE 1)
      BY <1>2 DEF ObjectsOK, CountsOK
    <3> QED
      BY <1>2, <2>1, <2>2, <3>2, <3>3
  <2> QED
    BY <2>3, <2>4
<1>8. CreatesOK(r, pcs)
  <2>1. r.list = st.list /\ CreatesOK(st, pcs)
    BY DEF Filled, ObjectsOK
  <2>2. ASSUME NEW t \in Slot, r.ft[t].fd_inode # NULL, r.ft[t].by = "create",
               r.ft[t].fd_inode \notin Range(r.list)
        PROVE  \E p \in Creators(pcs) : pcs[p].slot = t /\ pcs[p].inode = r.ft[t].fd_inode
    <3>1. t # s
      BY <2>2 DEF Filled
    <3> QED
      BY <2>1, <2>2, <3>1 DEF Filled, CreatesOK
  <2> QED
    BY <1>2, <2>1, <2>2 DEF CreatesOK
<1>9. WritersOK(r)
  <2>1. r.list = st.list /\ r.unguarded = st.unguarded /\ WritersOK(st)
    BY DEF Filled, ObjectsOK
  <2>2. \A t \in Slot \ {s} : r.ft[t] = st.ft[t] /\ (Writes(r, t) <=> Writes(st, t))
    BY DEF Filled, Writes
  <2>3. ASSUME NEW t \in Slot, Writes(r, t)
        PROVE  \/ r.heap[r.ft[t].fd_inode].write_deny
               \/ r.heap[r.ft[t].fd_inode].file \in r.unguarded
    <3>1. CASE t = s
      BY <2>3, <3>1 DEF Filled, Writes
    <3>2. CASE t # s
      <4>1. /\ st.heap[st.ft[t].fd_inode].write_deny \/ st.heap[st.ft[t].fd_inode].file \in st.unguarded
            /\ r.ft[t].fd_inode \in Object
        BY <1>3, <2>1, <2>2, <2>3, <3>2 DEF WritersOK, Writes
      <4>2. CASE r.ft[t].fd_inode = o /\ r.ft[s].by = "write"
        BY <4>2 DEF Filled
      <4>3. CASE ~(r.ft[t].fd_inode = o /\ r.ft[s].by = "write")
        <5>1. r.heap[r.ft[t].fd_inode] = st.heap[st.ft[t].fd_inode]
          BY <2>2, <3>2, <4>1, <4>3 DEF Filled
        <5> QED
          BY <2>1, <4>1, <5>1
      <4> QED
        BY <4>2, <4>3
    <3> QED
      BY <3>1, <3>2
  <2>4. ASSUME NEW t \in Slot, NEW v \in Slot, Writes(r, t), Writes(r, v), t # v,
               r.ft[t].fd_inode = r.ft[v].fd_inode
        PROVE  r.heap[r.ft[t].fd_inode].file \in r.unguarded
    <3>1. ASSUME NEW x \in Slot, x # s, Writes(r, x), Writes(r, s), r.ft[x].fd_inode = o
          PROVE  st.heap[o].file \in st.unguarded
      <4>1. Writes(st, x) /\ st.ft[x].fd_inode = o /\ ~st.heap[o].write_deny
        BY <2>2, <3>1 DEF Filled, Writes
      <4> QED
        BY <2>1, <4>1 DEF WritersOK
    <3>2. r.ft[t].fd_inode \in Object /\ r.ft[s].fd_inode = o
      BY <1>3, <2>4 DEF Writes, Filled
    <3>3. CASE t = s \/ v = s
      BY <1>1, <1>2, <2>1, <2>4, <3>1, <3>2, <3>3
    <3>4. CASE t # s /\ v # s
      BY <1>2, <2>1, <2>2, <2>4, <3>2, <3>4 DEF WritersOK
    <3> QED
      BY <3>3, <3>4
  <2>5. ASSUME NEW u \in Range(r.list), NEW v \in Range(r.list), u # v,
               r.heap[u].file = r.heap[v].file
        PROVE  r.heap[u].file \in r.unguarded
    BY <1>1, <1>2, <2>1, <2>5 DEF WritersOK
  <2> QED
    BY <2>3, <2>4, <2>5 DEF WritersOK
<1> QED
  BY <1>5, <1>6, <1>7, <1>8, <1>9 DEF ObjectsOK

(***************************************************************************)
(* The end of an action: what the record says becomes the state, and slots *)
(* that nobody refers to are no longer shared.                             *)
(***************************************************************************)
LEMMA BecomesOK ==
    ASSUME NEW st, NEW pcs, NEW newly \in SUBSET Slot, shared \in SUBSET Slot,
           StateOK(st, pcs, shared \cup newly), Becomes(st, pcs, newly)
    PROVE  StateOK(Now', pc', shared') /\ shared' \subseteq Slot
<1> DEFINE lo == {s \in st.lost : st.ft[s].fd_inode # NULL}
           un == {f \in st.unguarded : \E o \in Object :
                     st.heap[o].kind = "inode" /\ st.heap[o].file = f}
           r == [ft |-> st.ft, fds |-> st.fds, heap |-> st.heap, home |-> st.home, list |-> st.list,
                 meant |-> st.meant, lost |-> lo, unguarded |-> un, fault |-> st.fault]
           sh == shared \cup newly
           ch == {s \in sh : Waiters(pcs, s) # {} \/ Holders(st.fds, s) # {}}
<1>1. Now' = r /\ pc' = pcs /\ shared' = ch
  BY DEF Becomes, Now
<1>2. st \in State /\ lo \in SUBSET Slot /\ un \in SUBSET FileSet
  BY DEF StateOK, State
<1> HIDE DEF lo, un
<1>3. r \in State
  BY <1>2 DEF State
<1>4. /\ r.ft = st.ft /\ r.fds = st.fds /\ r.heap = st.heap /\ r.list = st.list
      /\ r.meant = st.meant /\ r.lost = lo /\ r.unguarded = un /\ r.fault = st.fault
      /\ r.home = st.home
  OBVIOUS
<1> HIDE DEF r, sh, ch
<1>5. ListOK(r) /\ KindsOK(r) /\ CountsOK(r) /\ CreatesOK(r, pcs)
  BY <1>4 DEF StateOK, ObjectsOK, ListOK, KindsOK, CountsOK, CreatesOK
<1>6. WritersOK(r)
  <2>1. WritersOK(st) /\ KindsOK(st) /\ ListOK(st)
    BY DEF StateOK, ObjectsOK
  <2>2. \A s \in Slot : Writes(r, s) <=> Writes(st, s)
    BY <1>4 DEF Writes
  <2>3. \A s \in Slot : Writes(st, s) =>
           st.ft[s].fd_inode \in Object /\ st.heap[st.ft[s].fd_inode].kind = "inode"
    <3>1. \A s \in Slot : Writes(st, s) => st.ft[s].fd_inode \in Object /\ st.ft[s].fd_flag # "pipe"
      BY <1>2 DEF State, OpenFile, Writes, Object, NULL
    <3> QED
      BY <2>1, <3>1 DEF KindsOK, Writes
  <2>4. Range(st.list) \subseteq Object /\ \A o \in Range(st.list) : st.heap[o].kind = "inode"
    BY <1>2, <2>1, RangeIndex DEF State, ListOK
  <2>5. \A o \in Object : st.heap[o].kind = "inode" /\ st.heap[o].file \in st.unguarded =>
                          st.heap[o].file \in r.unguarded
    BY <1>4 DEF un
  <2>6. ASSUME NEW s \in Slot, Writes(r, s)
        PROVE  \/ r.heap[r.ft[s].fd_inode].write_deny
               \/ r.heap[r.ft[s].fd_inode].file \in r.unguarded
    BY <1>4, <2>1, <2>2, <2>3, <2>5, <2>6 DEF WritersOK
  <2>7. ASSUME NEW s \in Slot, NEW t \in Slot, Writes(r, s), Writes(r, t), s # t,
               r.ft[s].fd_inode = r.ft[t].fd_inode
        PROVE  r.heap[r.ft[s].fd_inode].file \in r.unguarded
    BY <1>4, <2>1, <2>2, <2>3, <2>5, <2>7 DEF WritersOK
  <2>8. ASSUME NEW o \in Range(r.list), NEW u \in Range(r.list), o # u,
               r.heap[o].file = r.heap[u].file
        PROVE  r.heap[o].file \in r.unguarded
    BY <1>4, <2>1, <2>4, <2>5, <2>8 DEF WritersOK
  <2> QED
    BY <2>6, <2>7, <2>8 DEF WritersOK
<1>7. MeantOK(r)
  BY <1>4 DEF StateOK, MeantOK
<1>8. FaultOK(r, ch)
  BY <1>4 DEF StateOK, FaultOK, ch, sh
<1>9. ASSUME NEW s \in Slot PROVE SlotOK(r, pcs, ch, s)
  <2>1. SlotOK(st, pcs, sh, s)
    BY DEF StateOK, sh
  <2>2. HeldOK(r, pcs, s)
    BY <1>4, <2>1 DEF SlotOK, HeldOK, lo
  <2>3. CASE s \notin sh
    <3>1. AloneOK(st, pcs, s)
      BY <2>1, <2>3 DEF SlotOK
    <3>2. AloneOK(r, pcs, s)
      BY <1>4, <3>1 DEF AloneOK, AtHome
    <3> QED
      BY <2>2, <3>2 DEF SlotOK
  <2>4. CASE s \in sh /\ s \notin ch
    <3>1. Waiters(pcs, s) = {} /\ Descs(r.fds, s) = {}
      BY <1>4, <2>4, DescsFinite DEF ch
    <3>2. AloneOK(r, pcs, s)
      BY <3>1 DEF AloneOK
    <3> QED
      BY <2>2, <3>2 DEF SlotOK
  <2> QED
    BY <2>2, <2>3, <2>4 DEF SlotOK
<1>10. pcs \in [Procs -> Place]
  BY DEF StateOK
<1>11. StateOK(r, pcs, ch)
  BY <1>3, <1>5, <1>6, <1>7, <1>8, <1>9, <1>10 DEF StateOK, ObjectsOK
<1> QED
  BY <1>1, <1>11 DEF ch, sh

LEMMA NowFields ==
    /\ Now.ft = file_table /\ Now.fds = fd_table /\ Now.heap = heap /\ Now.list = open_inodes
    /\ Now.meant = meant /\ Now.lost = lost /\ Now.unguarded = unguarded /\ Now.fault = fault
    /\ Now.home = home
BY DEF Now

\* What p cannot access is in no memory of the kernel.
LEMMA NotThere ==
    ASSUME NEW st, NEW p, NEW S \in SUBSET Object, ~(S \subseteq InSpace(st, p))
    PROVE  \E o \in Object : st.home[o] # Kernel
BY DEF InSpace

\* An access that finds no inode ends in a state in order, but for the fault.
LEMMA StrayOK ==
    ASSUME NEW st, NEW pcs, NEW sh, StateOK(st, pcs, sh), \E o \in Object : st.home[o] # Kernel
    PROVE  LET r == Strayed(st) IN
           /\ StateOK(r, pcs, sh) /\ r.fault = Astray /\ r.fault # NoSlot
           /\ r.fds = st.fds
<1> DEFINE r == Strayed(st)
<1>1. st \in State
  BY DEF StateOK
<1>2. Astray \in 0..Astray /\ Astray # NoSlot
  BY FilesAssumption DEF Astray, NoSlot
<1>3. /\ r.ft = st.ft /\ r.fds = st.fds /\ r.heap = st.heap /\ r.home = st.home
      /\ r.list = st.list /\ r.meant = st.meant /\ r.lost = st.lost
      /\ r.unguarded = st.unguarded /\ r.fault = Astray
  BY <1>1 DEF State, Strayed
<1>4. r \in State
  BY <1>1, <1>2 DEF State, Strayed
<1> HIDE DEF r
<1>5. ObjectsOK(r, pcs)
  BY <1>3, SMTT(30) DEF StateOK, ObjectsOK, ListOK, KindsOK, CountsOK, CreatesOK, WritersOK, Writes
<1>6. MeantOK(r) /\ FaultOK(r, sh)
  BY <1>3 DEF StateOK, MeantOK, FaultOK
<1>7. ASSUME NEW s \in Slot PROVE SlotOK(r, pcs, sh, s)
  <2>1. SlotOK(st, pcs, sh, s) /\ SameHome(st, r, s)
    BY <1>3 DEF StateOK, SameHome
  <2> QED
    BY <1>3, <2>1, SlotFrame
<1>8. StateOK(r, pcs, sh)
  BY <1>4, <1>5, <1>6, <1>7 DEF StateOK
<1> QED
  BY <1>2, <1>3, <1>8 DEF r

LEMMA StrayStep ==
    ASSUME FilesInv, \E o \in Object : home[o] # Kernel, Becomes(Strayed(Now), pc, {})
    PROVE  FilesInv'
<1>1. StateOK(Now, pc, shared) /\ shared \in SUBSET Slot
  BY DEF FilesInv
<1>2. StateOK(Strayed(Now), pc, shared) /\ Strayed(Now).fault # NoSlot
  BY <1>1, NowFields, StrayOK
<1>3. shared \cup {} = shared /\ {} \in SUBSET Slot
  OBVIOUS
<1>4. StateOK(Now', pc', shared') /\ shared' \subseteq Slot
  BY <1>1, <1>2, <1>3, BecomesOK
<1>5. fault' # NoSlot
  BY <1>2 DEF Becomes
<1> QED
  BY <1>4, <1>5 DEF FilesInv

\* The slot that get_free_slot_in_file_table finds.
LEMMA FreeSlot ==
    ASSUME StateOK(Now, pc, shared), FreeSlots # {},
           NEW s, s = get_free_slot_in_file_table
    PROVE  /\ s \in Slot /\ file_table[s].fd_inode = NULL
           /\ Clash(s) \in SUBSET Slot
           /\ s \notin shared \cup Clash(s) => Descs(fd_table, s) = {} /\ Waiters(pc, s) = {}
<1>1. FreeSlots \in SUBSET Nat
  BY DEF FreeSlots, Slot
<1>2. s \in Slot /\ file_table[s].fd_inode = NULL
  BY <1>1, MinIn DEF get_free_slot_in_file_table, FreeSlots
<1>3. Clash(s) \in SUBSET Slot
  BY <1>2 DEF Clash
<1>4. ASSUME s \notin shared \cup Clash(s)
      PROVE  Descs(fd_table, s) = {} /\ Waiters(pc, s) = {}
  <2>1. AloneOK(Now, pc, s) /\ MeantOK(Now)
    BY <1>2, <1>4 DEF StateOK, SlotOK
  <2>2. ASSUME NEW x \in Descs(fd_table, s) PROVE FALSE
    <3>1. x[1] \in Procs /\ x[2] \in Fd /\ fd_table[x[1]][x[2]] = s
      BY DEF Descs
    <3>2. meant[x[1]][x[2]] = NULL
      BY <1>2, <2>1, NowFields DEF AloneOK
    <3>3. s = NoSlot
      BY <2>1, <3>1, <3>2, NowFields DEF MeantOK
    <3> QED
      BY <1>2, <3>3 DEF Slot, NoSlot
  <2> QED
    BY <1>4, <2>2 DEF Clash
<1> QED
  BY <1>2, <1>3, <1>4

\* The memory that sys_malloc returns.
LEMMA NewMemory ==
    ASSUME NEW st, Unused(st) # {}, NEW o, o = NewObject(st)
    PROVE  /\ o \in Object /\ st.heap[o].kind = "free"
           /\ \A p \in Procs, fd \in Fd : st.meant[p][fd] # o
<1>1. Unused(st) \in SUBSET Nat
  BY DEF Unused, Object
<1> QED
  BY <1>1, MinIn DEF NewObject, Unused

\* Processes that have exited keep no descriptors when p sets some of its own.
LEMMA InstalledGone ==
    ASSUME NEW st \in State, NEW r, NEW p \in Procs, NEW s, NEW o, Installed(st, r, p, s, o)
    PROVE  \A q \in Procs \ {p} : r.fds[q] = st.fds[q]
BY DEF Installed, State

\* The places of a process that runs, or is about to open what it created.
LEMMA NotWaiting ==
    ASSUME NEW pcs \in [Procs -> Place], NEW p \in Procs,
           pcs[p] = Running \/ pcs[p].at = "reopen"
    PROVE  /\ pcs[p].at \notin {"open", "create", "entry"} /\ pcs[p] # Gone
           /\ p \notin Creators(pcs)
           /\ \A s : p \notin Waiters(pcs, s)
BY DEF Running, Gone, Creators, Waiters

LEMMA Places ==
    /\ Running \in Place /\ Gone \in Place /\ Running # Gone
    /\ Running.at = "run" /\ Gone.at = "gone"
    /\ \A at \in {"open", "create", "entry"}, s \in Slot, o \in 0..Objects, f \in FileSet, flag \in Flags :
          LET w == Waiting(at, s, o, f, flag) IN
          /\ w \in Place /\ w # Gone /\ w.at = at /\ w.slot = s /\ w.inode = o
          /\ w.file = f /\ w.flag = flag
    /\ \A f \in FileSet, flag \in Flags :
          LET w == Waiting("reopen", NoSlot, NULL, f, flag) IN
          w \in Place /\ w # Gone /\ w.at = "reopen"
<1>1. Running \in Place /\ Gone \in Place /\ Running # Gone /\ Running.at = "run" /\ Gone.at = "gone"
  BY DEF Place, Running, Gone
<1>2. ASSUME NEW at \in {"open", "create", "entry"}, NEW s \in Slot, NEW o \in 0..Objects,
             NEW f \in FileSet, NEW flag \in Flags
      PROVE  LET w == Waiting(at, s, o, f, flag) IN
             /\ w \in Place /\ w # Gone /\ w.at = at /\ w.slot = s /\ w.inode = o
             /\ w.file = f /\ w.flag = flag
  BY DEF Place, Waiting, Gone
<1>3. ASSUME NEW f \in FileSet, NEW flag \in Flags
      PROVE  LET w == Waiting("reopen", NoSlot, NULL, f, flag) IN
             w \in Place /\ w # Gone /\ w.at = "reopen"
  BY DEF Place, Waiting, Gone
<1> QED
  BY <1>1, <1>2, <1>3

\* The count of o is one more, and the slots lead where they led.
Counted(st, r, o) ==
    /\ \A t \in Slot : /\ r.ft[t].fd_inode = st.ft[t].fd_inode
                        /\ r.ft[t].fd_flag = st.ft[t].fd_flag /\ r.ft[t].by = st.ft[t].by
    /\ r.list = st.list /\ r.unguarded = st.unguarded
    /\ \A u \in Object \ {o} : r.heap[u] = st.heap[u]
    /\ st.heap[o].kind = "inode" /\ r.heap[o].kind = "inode"
    /\ r.heap[o].file = st.heap[o].file
    /\ r.heap[o].write_deny = st.heap[o].write_deny
    /\ r.heap[o].i_open_cnts = st.heap[o].i_open_cnts + 1

LEMMA CountedObjects ==
    ASSUME NEW st \in State, NEW r \in State, NEW o \in Object, NEW pcs,
           ObjectsOK(st, pcs), Counted(st, r, o)
    PROVE  ObjectsOK(r, pcs)
<1>1. \A u \in Object : /\ r.heap[u].kind = st.heap[u].kind /\ r.heap[u].file = st.heap[u].file
                        /\ r.heap[u].write_deny = st.heap[u].write_deny
  BY DEF Counted
<1>2. Range(st.list) \subseteq Object /\ \A t \in Slot : st.ft[t].fd_inode \in {NULL} \cup Object
  BY RangeIndex DEF State, OpenFile, NULL, Object
<1>3. /\ ListOK(st) /\ KindsOK(st) /\ CountsOK(st) /\ CreatesOK(st, pcs) /\ WritersOK(st)
      /\ r.list = st.list /\ r.unguarded = st.unguarded
      /\ \A t \in Slot : r.ft[t].fd_inode = st.ft[t].fd_inode /\ r.ft[t].fd_flag = st.ft[t].fd_flag
      /\ \A t \in Slot : r.ft[t].by = st.ft[t].by
  BY DEF ObjectsOK, Counted
<1>4. \A u : SlotsOn(r.ft, u) = SlotsOn(st.ft, u)
  BY <1>3 DEF SlotsOn
<1>5. ListOK(r) /\ KindsOK(r)
  BY <1>1, <1>2, <1>3, <1>4 DEF ListOK, KindsOK
<1>6. CountsOK(r)
  <2> SUFFICES ASSUME NEW u \in Object, r.heap[u].kind = "inode"
               PROVE  Cardinality(SlotsOn(r.ft, u))
                         <= r.heap[u].i_open_cnts + (IF u \in Range(r.list) THEN 0 ELSE 1)
    BY DEF CountsOK
  <2>1. Cardinality(SlotsOn(st.ft, u))
           <= st.heap[u].i_open_cnts + (IF u \in Range(st.list) THEN 0 ELSE 1)
    BY <1>1, <1>3 DEF CountsOK
  <2>2. st.heap[u].i_open_cnts \in Int /\ Cardinality(SlotsOn(st.ft, u)) \in Nat
    BY <1>1, InodeFields, SlotsOnFinite DEF Inode
  <2>3. \/ r.heap[u].i_open_cnts = st.heap[u].i_open_cnts
        \/ r.heap[u].i_open_cnts = st.heap[u].i_open_cnts + 1
    BY DEF Counted
  <2> QED
    BY <1>3, <1>4, <2>1, <2>2, <2>3
<1>7. CreatesOK(r, pcs)
  BY <1>1, <1>2, <1>3 DEF CreatesOK
<1>8. WritersOK(r)
  <2>1. \A t \in Slot : Writes(r, t) <=> Writes(st, t)
    BY <1>3 DEF Writes
  <2>2. \A t \in Slot : Writes(st, t) => st.ft[t].fd_inode \in Object
    BY <1>2 DEF Writes
  <2>3. ASSUME NEW t \in Slot, Writes(r, t)
        PROVE  \/ r.heap[r.ft[t].fd_inode].write_deny
               \/ r.heap[r.ft[t].fd_inode].file \in r.unguarded
    BY <1>1, <1>3, <2>1, <2>2, <2>3 DEF WritersOK
  <2>4. ASSUME NEW t \in Slot, NEW v \in Slot, Writes(r, t), Writes(r, v), t # v,
               r.ft[t].fd_inode = r.ft[v].fd_inode
        PROVE  r.heap[r.ft[t].fd_inode].file \in r.unguarded
    BY <1>1, <1>3, <2>1, <2>2, <2>4 DEF WritersOK
  <2>5. ASSUME NEW u \in Range(r.list), NEW v \in Range(r.list), u # v,
               r.heap[u].file = r.heap[v].file
        PROVE  r.heap[u].file \in r.unguarded
    BY <1>1, <1>2, <1>3, <2>5 DEF WritersOK
  <2> QED
    BY <2>3, <2>4, <2>5 DEF WritersOK
<1> QED
  BY <1>5, <1>6, <1>7, <1>8 DEF ObjectsOK

\* file_open when the inode is in the list: counted, and the slot filled.
LEMMA OpenListed ==
    ASSUME FilesInv, fault = NoSlot, NEW p \in Procs, NEW f \in FileSet, NEW flag \in Flags,
           pc[p] = Running \/ pc[p].at = "reopen",
           file_open(p, f, flag), Walked(f) \subseteq InSpace(Now, p), Found(f) # 0
    PROVE  FilesInv'
<1> DEFINE s == get_free_slot_in_file_table
           o == open_inodes[Found(f)]
           in == inode_open(Now, o)
           r == Opened(in, p, s, o, flag)
           qcs == [pc EXCEPT ![p] = Running]
           ch == shared \cup Clash(s)
<1>1. /\ StateOK(Now, pc, shared) /\ shared \in SUBSET Slot
      /\ Now \in State /\ pc \in [Procs -> Place] /\ ObjectsOK(Now, pc) /\ MeantOK(Now)
      /\ \A t \in Slot : SlotOK(Now, pc, shared, t)
  BY DEF FilesInv, StateOK
<1>2. FreeSlots # {} /\ Becomes(r, qcs, Clash(s))
  BY DEF file_open
<1>3. /\ s \in Slot /\ file_table[s].fd_inode = NULL /\ Clash(s) \in SUBSET Slot
      /\ s \notin ch => Descs(fd_table, s) = {} /\ Waiters(pc, s) = {}
  BY <1>1, <1>2, FreeSlot
<1>4. /\ o \in Range(open_inodes) /\ o \in Object /\ heap[o].kind = "inode"
      /\ home[o] \in {Kernel, p}
  <2>1. open_inodes \in Seq(Object) /\ ListOK(Now)
    BY <1>1, NowFields DEF State, ObjectsOK
  <2>2. o \in Walked(f)
    BY <2>1, FoundListed
  <2>3. home[o] \in {Kernel, p}
    BY <2>2, NowFields DEF InSpace
  <2> QED
    BY <2>1, <2>3, FoundListed, RangeIndex, NowFields DEF ListOK
<1> HIDE DEF s, o
<1>5. /\ in \in State
      /\ in.ft = file_table /\ in.fds = fd_table /\ in.list = open_inodes /\ in.meant = meant
      /\ in.lost = lost /\ in.unguarded = unguarded /\ in.fault = fault
      /\ in.home = home
      /\ \A u \in Object \ {o} : in.heap[u] = heap[u]
      /\ in.heap[o].kind = "inode" /\ in.heap[o].file = heap[o].file
      /\ in.heap[o].write_deny = heap[o].write_deny
      /\ in.heap[o].i_open_cnts = heap[o].i_open_cnts + 1
  BY <1>1, <1>4, NowFields, OpenFields
<1> HIDE DEF in
<1>6. r \in State /\ r.fault = NoSlot /\ Filled(in, r, s, o) /\ Installed(in, r, p, s, o)
  BY <1>3, <1>4, <1>5, OpenedFields
<1>7. Installed(Now, r, p, s, o)
  BY <1>5, <1>6, NowFields, InstalledSame
<1> HIDE DEF r, ch
<1>8. ObjectsOK(in, pc)
  <2>1. Counted(Now, in, o)
    BY <1>4, <1>5, NowFields DEF Counted
  <2> QED
    BY <1>1, <1>4, <1>5, <2>1, CountedObjects
<1>9. Cardinality(SlotsOn(in.ft, o) \ {s}) + 1 <= in.heap[o].i_open_cnts
  <2>1. s \notin SlotsOn(in.ft, o)
    BY <1>3, <1>4, <1>5 DEF SlotsOn, NULL, Object
  <2>2. Cardinality(SlotsOn(in.ft, o) \ {s}) = Cardinality(SlotsOn(in.ft, o))
    BY <2>1, SlotsOnFinite
  <2>3. Cardinality(SlotsOn(file_table, o)) <= heap[o].i_open_cnts + 0
    BY <1>1, <1>4, NowFields DEF ObjectsOK, CountsOK
  <2>4. heap[o].i_open_cnts \in Int /\ Cardinality(SlotsOn(file_table, o)) \in Nat
    BY <1>1, <1>4, NowFields, InodeFields, SlotsOnFinite DEF Inode
  <2> QED
    BY <1>5, <2>2, <2>3, <2>4
<1>10. ObjectsOK(r, pc)
  BY <1>3, <1>4, <1>5, <1>6, <1>8, <1>9, FilledObjects
<1>11. Moved(pc, qcs, p, Running)
  BY <1>1, MovedEx, Places
<1> HIDE DEF qcs
<1>12. ObjectsOK(r, qcs)
  BY <1>1, <1>10, <1>11, CreatesFrame, NotWaiting, Places DEF ObjectsOK
<1>13. \A t \in Slot : SlotOK(r, qcs, ch, t)
  <2>1. Reached(Now, r, pc, p, s, o, shared, ch)
    <3>1. /\ \A t \in Slot \ {s} : r.ft[t] = Now.ft[t]
          /\ r.ft[s].fd_inode = o /\ r.ft[s].fd_flag # "pipe"
          /\ r.home = Now.home /\ (r.ft[s].by = "refused" => r.fds = Now.fds)
      BY <1>5, <1>6, NowFields DEF Filled
    <3>2. shared \subseteq ch /\ \A t \in Slot \ {s} : p \notin Waiters(pc, t)
      BY <1>1, NotWaiting DEF ch
    <3>3. AtHome(r, s, p) /\ \A t \in Slot : SameHome(Now, r, t)
      BY <1>4, <3>1, NowFields DEF AtHome, SameHome
    <3> QED
      BY <1>3, <3>1, <3>2, <3>3, NowFields DEF Reached
  <2> QED
    BY <1>1, <1>3, <1>4, <1>6, <1>7, <1>11, <2>1, Places, InstalledSlots
<1>14. StateOK(r, qcs, ch)
  <2>1. MeantOK(r)
    BY <1>1, <1>3, <1>4, <1>6, <1>7, InstalledMeant
  <2>2. FaultOK(r, ch)
    BY <1>6 DEF FaultOK
  <2> QED
    BY <1>6, <1>11, <1>12, <1>13, <2>1, <2>2 DEF StateOK, Moved
<1>15. StateOK(Now', pc', shared') /\ shared' \subseteq Slot
  BY <1>1, <1>2, <1>3, <1>14, BecomesOK DEF ch
<1>16. \A q \in Procs : pc'[q] = Gone => fd_table'[q] = NoFds
  <2>1. pc' = qcs /\ fd_table' = r.fds
    BY <1>2 DEF Becomes
  <2>2. \A q \in Procs \ {p} : r.fds[q] = fd_table[q]
    BY <1>1, <1>7, NowFields, InstalledGone
  <2> QED
    BY <1>11, <2>1, <2>2, Places DEF FilesInv, Moved
<1> QED
  BY <1>15, <1>16 DEF FilesInv

\* A slot that a call of p begins to wait for, at w: nobody is on it, or it is shared.
Chosen(st, r, pcs, p, s, w, sh, ch) ==
    /\ sh \subseteq ch
    /\ \A t \in Slot \ {s} : r.ft[t] = st.ft[t] /\ SameHome(st, r, t)
    /\ \A t \in Slot : p \notin Waiters(pcs, t)
    /\ r.fds = st.fds /\ r.meant = st.meant /\ r.lost = st.lost
    /\ r.ft[s].fd_flag = "pipe" => r.ft[s].fd_inode = NULL
    /\ w.at \in {"open", "create", "entry"} /\ w.slot = s /\ w.inode = r.ft[s].fd_inode
    /\ s \notin ch => Descs(st.fds, s) = {} /\ Waiters(pcs, s) = {} /\ AtHome(r, s, p)

LEMMA WaitSlots ==
    ASSUME NEW st, NEW r, NEW pcs \in [Procs -> Place], NEW p \in Procs,
           NEW s \in Slot, NEW w \in Place, NEW sh, NEW ch, NEW qcs,
           \A t \in Slot : SlotOK(st, pcs, sh, t),
           Chosen(st, r, pcs, p, s, w, sh, ch), Moved(pcs, qcs, p, w)
    PROVE  \A t \in Slot : SlotOK(r, qcs, ch, t)
<1> USE DEF Chosen
<1>1. ASSUME NEW t \in Slot, t # s PROVE SlotOK(r, qcs, ch, t)
  <2>1. p \notin Waiters(qcs, t) /\ Waiters(qcs, t) \ {p} = Waiters(pcs, t) \ {p}
    BY <1>1, WaitersFrame
  <2>2. Waiters(qcs, t) = Waiters(pcs, t) /\ p \notin Waiters(pcs, t)
    BY <2>1, SMTT(30)
  <2>3. \A q \in Waiters(pcs, t) : qcs[q].inode = pcs[q].inode
    BY <2>2 DEF Moved, Waiters
  <2> QED
    BY <1>1, <2>2, <2>3, SlotFrame
<1>2. SlotOK(r, qcs, ch, s)
  <2>1. p \in Waiters(qcs, s) /\ Waiters(qcs, s) \ {p} = Waiters(pcs, s) \ {p}
    BY WaitersFrame
  <2>2. HeldOK(r, qcs, s)
    BY <2>1 DEF HeldOK
  <2>3. ASSUME s \notin ch PROVE AloneOK(r, qcs, s)
    <3>1. Descs(r.fds, s) = {} /\ Waiters(qcs, s) = {p} /\ qcs[p] = w
      BY <2>1, <2>3 DEF Moved
    <3>2. AtHome(r, s, p) /\ w.inode = r.ft[s].fd_inode
      BY <2>3
    <3> QED
      BY <3>1, <3>2, FS_EmptySet DEF AloneOK
  <2> QED
    BY <2>2, <2>3 DEF SlotOK
<1> QED
  BY <1>1, <1>2

\* file_open when the inode is not in the list: the slot is chosen, not marked.
LEMMA OpenUnlisted ==
    ASSUME FilesInv, fault = NoSlot, NEW p \in Procs, NEW f \in FileSet, NEW flag \in Flags,
           pc[p] = Running \/ pc[p].at = "reopen",
           file_open(p, f, flag), Walked(f) \subseteq InSpace(Now, p), Found(f) = 0
    PROVE  FilesInv'
<1> DEFINE s == get_free_slot_in_file_table
           w == Waiting("open", s, NULL, f, flag)
           qcs == [pc EXCEPT ![p] = w]
           ch == shared \cup Clash(s)
<1>1. /\ StateOK(Now, pc, shared) /\ shared \in SUBSET Slot
      /\ Now \in State /\ pc \in [Procs -> Place] /\ ObjectsOK(Now, pc) /\ MeantOK(Now)
      /\ \A t \in Slot : SlotOK(Now, pc, shared, t)
  BY DEF FilesInv, StateOK
<1>2. FreeSlots # {} /\ Becomes(Now, qcs, Clash(s))
  BY DEF file_open
<1>3. /\ s \in Slot /\ file_table[s].fd_inode = NULL /\ Clash(s) \in SUBSET Slot
      /\ s \notin ch => Descs(fd_table, s) = {} /\ Waiters(pc, s) = {}
  BY <1>1, <1>2, FreeSlot
<1> HIDE DEF s
<1>4. w \in Place /\ w # Gone /\ w.at = "open" /\ w.slot = s /\ w.inode = NULL
  <2>1. NULL \in 0..Objects
    BY FilesAssumption DEF NULL
  <2> QED
    BY <1>3, <2>1, Places
<1> HIDE DEF w, ch
<1>5. Moved(pc, qcs, p, w)
  BY <1>1, <1>4, MovedEx
<1> HIDE DEF qcs
<1>6. ObjectsOK(Now, qcs)
  BY <1>1, <1>4, <1>5, CreatesFrame, NotWaiting DEF ObjectsOK
<1>7. \A t \in Slot : SlotOK(Now, qcs, ch, t)
  <2>1. shared \subseteq ch /\ \A t \in Slot : p \notin Waiters(pc, t)
    BY <1>1, NotWaiting DEF ch
  <2>2. s \notin ch => Descs(Now.fds, s) = {} /\ Waiters(pc, s) = {}
    BY <1>3, NowFields
  <2>3. Chosen(Now, Now, pc, p, s, w, shared, ch)
    BY <1>3, <1>4, <2>1, <2>2, NowFields DEF Chosen, AtHome, SameHome
  <2> QED
    BY <1>1, <1>3, <1>4, <1>5, <2>3, WaitSlots
<1>8. StateOK(Now, qcs, ch)
  <2>1. FaultOK(Now, ch)
    BY NowFields DEF FaultOK
  <2> QED
    BY <1>1, <1>5, <1>6, <1>7, <2>1 DEF StateOK, Moved
<1>9. StateOK(Now', pc', shared') /\ shared' \subseteq Slot
  BY <1>1, <1>2, <1>3, <1>8, BecomesOK DEF ch
<1>10. \A q \in Procs : pc'[q] = Gone => fd_table'[q] = NoFds
  <2>1. pc' = qcs /\ fd_table' = fd_table
    BY <1>2, NowFields DEF Becomes
  <2> QED
    BY <1>4, <1>5, <2>1 DEF FilesInv, Moved
<1> QED
  BY <1>9, <1>10 DEF FilesInv

(***************************************************************************)
(* An inode whose count covers its slots enters the list.  Its file is     *)
(* unguarded if the list had an inode of that file.                        *)
(***************************************************************************)
LEMMA ListedObjects ==
    ASSUME NEW st \in State, NEW r \in State, NEW o \in Object, NEW f, NEW pcs, NEW qcs,
           ObjectsOK(st, pcs), o \notin Range(st.list), st.heap[o].kind # "pipe",
           r.ft = st.ft, r.list = <<o>> \o st.list,
           \A u \in Object \ {o} : r.heap[u] = st.heap[u],
           r.heap[o].kind = "inode", r.heap[o].file = f,
           Cardinality(SlotsOn(st.ft, o)) <= r.heap[o].i_open_cnts,
           st.unguarded \subseteq r.unguarded,
           \A u \in Range(st.list) : st.heap[u].file = f => f \in r.unguarded,
           \A q \in Creators(qcs) : q \in Creators(pcs) /\ qcs[q] = pcs[q] /\ pcs[q].inode # o,
           \A q \in Creators(pcs) : pcs[q].inode # o => q \in Creators(qcs)
    PROVE  ObjectsOK(r, qcs)
<1>1. /\ ListOK(st) /\ KindsOK(st) /\ CountsOK(st) /\ CreatesOK(st, pcs) /\ WritersOK(st)
      /\ st.list \in Seq(Object)
  BY DEF ObjectsOK, State
<1>2. Range(r.list) = Range(st.list) \cup {o} /\ IsInjective(r.list) /\ Range(st.list) \subseteq Object
  BY <1>1, ListPush, RangeIndex DEF ListOK
<1>3. \A t \in Slot : st.ft[t].fd_inode # NULL => st.ft[t].fd_inode \in Object
  BY DEF State, OpenFile, Object, NULL
<1>4. \A t \in Slot : st.ft[t].fd_inode = o => st.ft[t].by = "create" /\ st.ft[t].fd_flag # "pipe"
  <2>1. o # NULL
    BY DEF Object, NULL
  <2> QED
    BY <1>1, <2>1 DEF KindsOK
<1>5. ListOK(r)
  BY <1>1, <1>2 DEF ListOK
<1>6. KindsOK(r)
  <2> SUFFICES ASSUME NEW t \in Slot, r.ft[t].fd_inode # NULL
               PROVE  LET u == r.ft[t].fd_inode IN
                      IF r.ft[t].fd_flag = "pipe"
                      THEN r.heap[u].kind = "pipe" /\ SlotsOn(r.ft, u) = {t}
                      ELSE /\ r.heap[u].kind = "inode"
                           /\ r.ft[t].by # "create" => u \in Range(r.list)
    BY DEF KindsOK
  <2>1. CASE r.ft[t].fd_inode = o
    BY <1>2, <1>4, <2>1
  <2>2. CASE r.ft[t].fd_inode # o
    <3>1. r.heap[r.ft[t].fd_inode] = st.heap[st.ft[t].fd_inode] /\ r.ft[t] = st.ft[t]
      BY <1>3, <2>2
    <3>2. CASE r.ft[t].fd_flag = "pipe"
      BY <1>1, <3>1, <3>2 DEF KindsOK
    <3>3. CASE r.ft[t].fd_flag # "pipe"
      BY <1>1, <1>2, <3>1, <3>3 DEF KindsOK
    <3> QED
      BY <3>2, <3>3
  <2> QED
    BY <2>1, <2>2
<1>7. CountsOK(r)
  <2> SUFFICES ASSUME NEW u \in Object, r.heap[u].kind = "inode"
               PROVE  Cardinality(SlotsOn(r.ft, u))
                         <= r.heap[u].i_open_cnts + (IF u \in Range(r.list) THEN 0 ELSE 1)
    BY DEF CountsOK
  <2>1. r.heap[u].i_open_cnts \in Int
    BY InodeFields DEF Inode
  <2>2. CASE u = o
    BY <1>2, <2>1, <2>2
  <2>3. CASE u # o
    BY <1>1, <1>2, <2>3 DEF CountsOK
  <2> QED
    BY <2>2, <2>3
<1>8. CreatesOK(r, qcs)
  <2>1. ASSUME NEW q \in Creators(qcs)
        PROVE  /\ qcs[q].inode \in Object /\ qcs[q].inode \notin Range(r.list)
               /\ r.heap[qcs[q].inode].kind = "inode" /\ r.heap[qcs[q].inode].file = qcs[q].file
    BY <1>1, <1>2 DEF CreatesOK
  <2>2. ASSUME NEW q \in Creators(qcs), NEW t \in Creators(qcs), qcs[q].inode = qcs[t].inode
        PROVE  q = t
    BY <1>1, <2>2 DEF CreatesOK
  <2>3. ASSUME NEW t \in Slot, r.ft[t].fd_inode # NULL, r.ft[t].by = "create",
               r.ft[t].fd_inode \notin Range(r.list)
        PROVE  \E q \in Creators(qcs) : qcs[q].slot = t /\ qcs[q].inode = r.ft[t].fd_inode
    <3>1. r.ft[t].fd_inode # o /\ r.ft[t].fd_inode \notin Range(st.list)
      BY <1>2, <2>3
    <3>2. PICK q \in Creators(pcs) : pcs[q].slot = t /\ pcs[q].inode = r.ft[t].fd_inode
      BY <1>1, <2>3, <3>1 DEF CreatesOK
    <3> QED
      BY <3>1, <3>2
  <2> QED
    BY <2>1, <2>2, <2>3 DEF CreatesOK
<1>9. WritersOK(r)
  <2>1. \A t \in Slot : Writes(r, t) <=> Writes(st, t)
    BY DEF Writes
  <2>2. \A t \in Slot : Writes(r, t) => /\ r.ft[t].fd_inode = st.ft[t].fd_inode
                                        /\ r.heap[r.ft[t].fd_inode] = st.heap[st.ft[t].fd_inode]
    BY <1>3, <1>4 DEF Writes
  <2>3. ASSUME NEW t \in Slot, Writes(r, t)
        PROVE  \/ r.heap[r.ft[t].fd_inode].write_deny
               \/ r.heap[r.ft[t].fd_inode].file \in r.unguarded
    BY <1>1, <2>1, <2>2, <2>3 DEF WritersOK
  <2>4. ASSUME NEW t \in Slot, NEW v \in Slot, Writes(r, t), Writes(r, v), t # v,
               r.ft[t].fd_inode = r.ft[v].fd_inode
        PROVE  r.heap[r.ft[t].fd_inode].file \in r.unguarded
    BY <1>1, <2>1, <2>2, <2>4 DEF WritersOK
  <2>5. ASSUME NEW u \in Range(r.list), NEW v \in Range(r.list), u # v,
               r.heap[u].file = r.heap[v].file
        PROVE  r.heap[u].file \in r.unguarded
    <3>1. CASE u = o \/ v = o
      BY <1>2, <2>5, <3>1
    <3>2. CASE u # o /\ v # o
      BY <1>1, <1>2, <2>5, <3>2 DEF WritersOK
    <3> QED
      BY <3>1, <3>2
  <2> QED
    BY <2>3, <2>4, <2>5 DEF WritersOK
<1> QED
  BY <1>5, <1>6, <1>7, <1>8, <1>9 DEF ObjectsOK

\* An object that is free has no slots, is not listed and nobody creates it.
LEMMA FreeObject ==
    ASSUME NEW st \in State, NEW pcs, ObjectsOK(st, pcs), NEW o \in Object,
           st.heap[o].kind = "free"
    PROVE  /\ o \notin Range(st.list) /\ SlotsOn(st.ft, o) = {}
           /\ \A q \in Creators(pcs) : pcs[q].inode # o
<1>1. o # NULL
  BY DEF Object, NULL
<1> QED
  BY <1>1 DEF ObjectsOK, ListOK, KindsOK, CreatesOK, SlotsOn

\* Memory becomes an inode: what is in its place, and what stays.
LEMMA InodeObjectFields ==
    ASSUME NEW f \in FileSet, NEW cnt \in Int
    PROVE  LET i == InodeObject(f, cnt) IN
           /\ i \in Inode /\ i.kind = "inode" /\ i.file = f /\ i.i_open_cnts = cnt
BY DEF InodeObject, Inode

\* The rest of file_open when the inode has been read from the disk.
LEMMA InodeReadStep ==
    ASSUME FilesInv, fault = NoSlot, NEW p \in Procs, inode_read(p),
           PushedOn \subseteq InSpace(Now, p)
    PROVE  FilesInv'
<1> DEFINE w == pc[p]
           o == NewObject(Now)
           again == IF Found(w.file) # 0 THEN {w.file} ELSE {}
           i == InodeObject(w.file, 1)
           st == [Now EXCEPT !.heap[o] = i, !.home[o] = Kernel, !.list = <<o>> \o @,
                             !.unguarded = @ \cup again]
           s == w.slot
           r == Opened(st, p, s, o, w.flag)
           qcs == [pc EXCEPT ![p] = Running]
           newly == IF file_table[s].fd_inode # NULL THEN {s} ELSE {}
           ch == shared \cup newly
<1>1. /\ StateOK(Now, pc, shared) /\ shared \in SUBSET Slot
      /\ Now \in State /\ pc \in [Procs -> Place] /\ ObjectsOK(Now, pc) /\ MeantOK(Now)
      /\ \A t \in Slot : SlotOK(Now, pc, shared, t)
  BY DEF FilesInv, StateOK
<1>2. w.at = "open" /\ Unused(Now) # {} /\ Becomes(r, qcs, newly)
  BY DEF inode_read
<1>3. s \in Slot /\ w.file \in FileSet /\ w.flag \in Flags /\ w.inode \in 0..Objects
  BY <1>1, <1>2 DEF Place, Gone, Running
<1>4. o \in Object /\ heap[o].kind = "free"
  BY <1>2, NewMemory, NowFields
<1>5. newly \in SUBSET Slot
  BY <1>3
<1> HIDE DEF o
<1>6. /\ o \notin Range(open_inodes) /\ SlotsOn(file_table, o) = {}
      /\ \A q \in Creators(pc) : pc[q].inode # o
  BY <1>1, <1>4, NowFields, FreeObject
<1>7. i \in Inode /\ i.kind = "inode" /\ i.file = w.file /\ i.i_open_cnts = 1
  BY <1>3, InodeObjectFields
<1>8. open_inodes \in Seq(Object) /\ ListOK(Now) /\ <<o>> \o open_inodes \in Seq(Object)
  BY <1>1, <1>4, <1>6, NowFields, ListPush DEF State, ObjectsOK, ListOK
<1> DEFINE h == [Now.heap EXCEPT ![o] = i]
<1>9. /\ h \in [Object -> {Free, PipeBuffer} \cup Inode] /\ h[o] = i
      /\ \A u \in Object \ {o} : h[u] = Now.heap[u]
  <2> HIDE DEF i
  <2> QED
    BY <1>1, <1>4, <1>7, HeapSet
<1> DEFINE m == [Now.home EXCEPT ![o] = Kernel]
<1>10. /\ again \in SUBSET FileSet /\ m \in [Object -> Space] /\ m[o] = Kernel
       /\ \A u \in Object : m[u] \in {Now.home[u], Kernel}
  BY <1>1, <1>3, <1>4 DEF State, Space
<1> HIDE DEF i, again
<1>11. /\ st.ft = Now.ft /\ st.fds = Now.fds /\ st.heap = h /\ st.list = <<o>> \o Now.list
       /\ st.meant = Now.meant /\ st.lost = Now.lost /\ st.unguarded = Now.unguarded \cup again
       /\ st.fault = Now.fault /\ st.home = m
  BY <1>1 DEF State
<1>12. st \in State
  <2> HIDE DEF h, m
  <2>1. st = [Now EXCEPT !.heap = h, !.home = m, !.list = <<o>> \o Now.list,
                         !.unguarded = Now.unguarded \cup again]
    BY <1>1 DEF h, m, State
  <2>2. <<o>> \o Now.list \in Seq(Object)
    BY <1>8, NowFields
  <2> QED
    BY <1>1, <1>9, <1>10, <2>1, <2>2 DEF State
<1> HIDE DEF h, m, st
<1>13. ObjectsOK(st, pc)
  <2>1. Now.heap[o].kind # "pipe" /\ o \notin Range(Now.list)
    BY <1>4, <1>6, NowFields
  <2>2. Cardinality(SlotsOn(Now.ft, o)) <= st.heap[o].i_open_cnts
    <3>1. st.heap[o].i_open_cnts = 1 /\ SlotsOn(Now.ft, o) = {}
      BY <1>6, <1>7, <1>9, <1>11, NowFields
    <3> QED
      BY <3>1, FS_EmptySet
  <2>3. \A u \in Range(Now.list) : Now.heap[u].file = w.file => w.file \in st.unguarded
    BY <1>8, <1>11, NowFields, FoundListed DEF again
  <2>4. /\ \A u \in Object \ {o} : st.heap[u] = Now.heap[u]
        /\ st.heap[o].kind = "inode" /\ st.heap[o].file = w.file
        /\ Now.unguarded \subseteq st.unguarded
    BY <1>7, <1>9, <1>11
  <2>5. st.ft = Now.ft /\ st.list = <<o>> \o Now.list
    BY <1>11
  <2>6. /\ \A q \in Creators(pc) : q \in Creators(pc) /\ pc[q] = pc[q] /\ pc[q].inode # o
        /\ \A q \in Creators(pc) : pc[q].inode # o => q \in Creators(pc)
    BY <1>6
  <2> QED
    BY <1>1, <1>4, <1>12, <2>1, <2>2, <2>3, <2>4, <2>5, <2>6, ListedObjects
<1>14. o \in Range(st.list)
  BY <1>4, <1>6, <1>8, <1>11, NowFields, ListPush DEF ListOK
<1>15. st.heap[o].kind = "inode"
  BY <1>7, <1>9, <1>11
<1>16. r \in State /\ r.fault = st.fault /\ Filled(st, r, s, o) /\ Installed(st, r, p, s, o)
  BY <1>3, <1>4, <1>12, <1>15, OpenedFields
<1>17. Installed(Now, r, p, s, o)
  BY <1>11, <1>16, InstalledSame
<1>18. ObjectsOK(r, pc)
  <2>1. SlotsOn(st.ft, o) \ {s} = {}
    BY <1>6, <1>11, NowFields
  <2>2. Cardinality(SlotsOn(st.ft, o) \ {s}) + 1 <= st.heap[o].i_open_cnts
    <3>1. st.heap[o].i_open_cnts = 1
      BY <1>7, <1>9, <1>11
    <3> QED
      BY <2>1, <3>1, FS_EmptySet
  <2> QED
    BY <1>3, <1>4, <1>12, <1>13, <1>14, <1>16, <2>2, FilledObjects
<1> HIDE DEF r, newly
<1>19. Moved(pc, qcs, p, Running)
  BY <1>1, MovedEx, Places
<1> HIDE DEF qcs, ch
<1>20. ObjectsOK(r, qcs)
  <2>1. p \notin Creators(pc)
    BY <1>2 DEF Creators
  <2> QED
    BY <1>1, <1>18, <1>19, <2>1, CreatesFrame, Places DEF ObjectsOK
<1>21. \A t \in Slot : SlotOK(r, qcs, ch, t)
  <2>1. Reached(Now, r, pc, p, s, o, shared, ch)
    <3>1. /\ \A t \in Slot \ {s} : r.ft[t] = Now.ft[t]
          /\ r.ft[s].fd_inode = o /\ r.ft[s].fd_flag # "pipe"
          /\ r.home = m /\ (r.ft[s].by = "refused" => r.fds = Now.fds)
      BY <1>11, <1>16 DEF Filled
    <3>2. shared \subseteq ch /\ p \in Waiters(pc, s) /\ \A t \in Slot \ {s} : p \notin Waiters(pc, t)
      BY <1>2 DEF ch, Waiters
    <3>3. ASSUME s \notin ch PROVE Descs(Now.fds, s) = {} /\ Waiters(pc, s) \subseteq {p}
      <4>1. AloneOK(Now, pc, s)
        BY <1>1, <1>3, <3>3 DEF SlotOK, ch
      <4> QED
        BY <3>2, <4>1 DEF AloneOK
    <3>4. \A t \in Slot : Now.ft[t].fd_inode # NULL => Now.ft[t].fd_inode \in Object
      BY <1>1 DEF State, OpenFile, Object, NULL
    <3>5. AtHome(r, s, p) /\ \A t \in Slot : SameHome(Now, r, t)
      BY <1>10, <3>1, <3>4 DEF AtHome, SameHome
    <3> QED
      BY <3>1, <3>2, <3>3, <3>5 DEF Reached
  <2> HIDE DEF s, w
  <2> QED
    BY <1>1, <1>3, <1>4, <1>16, <1>17, <1>19, <2>1, Places, InstalledSlots
<1>22. StateOK(r, qcs, ch)
  <2>1. MeantOK(r)
    BY <1>1, <1>3, <1>4, <1>16, <1>17, InstalledMeant
  <2>2. FaultOK(r, ch)
    BY <1>11, <1>16, NowFields DEF FaultOK
  <2> QED
    BY <1>16, <1>19, <1>20, <1>21, <2>1, <2>2 DEF StateOK, Moved
<1>23. StateOK(Now', pc', shared') /\ shared' \subseteq Slot
  BY <1>1, <1>2, <1>5, <1>22, BecomesOK DEF ch
<1>24. \A q \in Procs : pc'[q] = Gone => fd_table'[q] = NoFds
  <2>1. pc' = qcs /\ fd_table' = r.fds
    BY <1>2 DEF Becomes
  <2>2. \A q \in Procs \ {p} : r.fds[q] = fd_table[q]
    BY <1>1, <1>17, NowFields, InstalledGone
  <2> QED
    BY <1>19, <2>1, <2>2, Places DEF FilesInv, Moved
<1> QED
  BY <1>23, <1>24 DEF FilesInv

-----------------------------------------------------------------------------
(* Creating files and pipes. *)

\* A free slot gets a new object: an inode that p creates, or a pipe.
Placed(st, r, s, o) ==
    /\ \A t \in Slot \ {s} : r.ft[t] = st.ft[t]
    /\ st.ft[s].fd_inode = NULL /\ r.ft[s].fd_inode = o
    /\ st.heap[o].kind = "free" /\ \A u \in Object \ {o} : r.heap[u] = st.heap[u]
    /\ r.list = st.list /\ r.unguarded = st.unguarded

LEMMA PlacedObjects ==
    ASSUME NEW st \in State, NEW r \in State, NEW s \in Slot, NEW o \in Object,
           NEW pcs, NEW qcs, ObjectsOK(st, pcs), Placed(st, r, s, o),
           \/ r.ft[s].fd_flag = "pipe" /\ r.heap[o].kind = "pipe"
           \/ r.ft[s].by = "create" /\ r.heap[o].kind = "inode" /\ r.heap[o].i_open_cnts = 0,
           NEW p \in Procs,
           r.ft[s].by = "create" =>
              /\ p \in Creators(qcs) /\ qcs[p].slot = s /\ qcs[p].inode = o
              /\ qcs[p].file = r.heap[o].file,
           \A q \in Creators(qcs) :
              \/ q \in Creators(pcs) /\ qcs[q] = pcs[q]
              \/ q = p /\ r.ft[s].by = "create",
           \A q \in Creators(pcs) : q \in Creators(qcs) /\ qcs[q] = pcs[q]
    PROVE  ObjectsOK(r, qcs)
<1>1. /\ ListOK(st) /\ KindsOK(st) /\ CountsOK(st) /\ CreatesOK(st, pcs) /\ WritersOK(st)
      /\ Range(st.list) \subseteq Object /\ o # NULL
  BY RangeIndex DEF ObjectsOK, State, Object, NULL
<1>2. /\ o \notin Range(st.list) /\ SlotsOn(st.ft, o) = {}
      /\ \A q \in Creators(pcs) : pcs[q].inode # o
  BY FreeObject DEF Placed
<1>3. \A t \in Slot : st.ft[t].fd_inode # NULL => st.ft[t].fd_inode \in Object /\ st.ft[t].fd_inode # o
  BY <1>2 DEF State, OpenFile, Object, NULL, SlotsOn
<1>10. r.ft[s].fd_flag = "pipe" <=> r.ft[s].by = "pipe"
  BY DEF State, OpenFile
<1>4. SlotsOn(r.ft, o) = {s} /\ \A u \in Object \ {o} : SlotsOn(r.ft, u) = SlotsOn(st.ft, u)
  <2>1. SlotsOn(r.ft, o) = SlotsOn(st.ft, o) \cup {s}
    BY DEF Placed, SlotsOn
  <2>2. ASSUME NEW u \in Object, u # o PROVE SlotsOn(r.ft, u) = SlotsOn(st.ft, u)
    BY <2>2 DEF Placed, SlotsOn, Object, NULL
  <2> QED
    BY <1>2, <2>1, <2>2
<1>5. ListOK(r)
  BY <1>1, <1>2 DEF ListOK, Placed
<1>6. KindsOK(r)
  <2> SUFFICES ASSUME NEW t \in Slot, r.ft[t].fd_inode # NULL
               PROVE  LET u == r.ft[t].fd_inode IN
                      IF r.ft[t].fd_flag = "pipe"
                      THEN r.heap[u].kind = "pipe" /\ SlotsOn(r.ft, u) = {t}
                      ELSE /\ r.heap[u].kind = "inode"
                           /\ r.ft[t].by # "create" => u \in Range(r.list)
    BY DEF KindsOK
  <2>1. CASE t = s
    BY <1>4, <1>10, <2>1 DEF Placed
  <2>2. CASE t # s
    <3>1. r.ft[t] = st.ft[t] /\ r.ft[t].fd_inode \in Object \ {o} /\ r.list = st.list
      BY <1>3, <2>2 DEF Placed
    <3>2. /\ r.heap[r.ft[t].fd_inode] = st.heap[st.ft[t].fd_inode]
          /\ SlotsOn(r.ft, r.ft[t].fd_inode) = SlotsOn(st.ft, st.ft[t].fd_inode)
      BY <1>4, <3>1 DEF Placed
    <3> QED
      BY <1>1, <3>1, <3>2 DEF KindsOK
  <2> QED
    BY <2>1, <2>2
<1>7. CountsOK(r)
  <2> SUFFICES ASSUME NEW u \in Object, r.heap[u].kind = "inode"
               PROVE  Cardinality(SlotsOn(r.ft, u))
                         <= r.heap[u].i_open_cnts + (IF u \in Range(r.list) THEN 0 ELSE 1)
    BY DEF CountsOK
  <2>1. CASE u = o
    <3>1. r.heap[o].i_open_cnts = 0 /\ o \notin Range(r.list)
      BY <1>2, <2>1 DEF Placed
    <3>2. Cardinality({s}) = 1
      BY FS_Singleton
    <3> QED
      BY <1>4, <2>1, <3>1, <3>2
  <2>2. CASE u # o
    <3>1. r.heap[u] = st.heap[u] /\ SlotsOn(r.ft, u) = SlotsOn(st.ft, u) /\ r.list = st.list
      BY <1>4, <2>2 DEF Placed
    <3> QED
      BY <1>1, <3>1 DEF CountsOK
  <2> QED
    BY <2>1, <2>2
<1>8. CreatesOK(r, qcs)
  <2>1. r.list = st.list /\ \A u \in Object \ {o} : r.heap[u] = st.heap[u]
    BY DEF Placed
  <2>2. ASSUME NEW q \in Creators(qcs)
        PROVE  /\ qcs[q].inode \in Object /\ qcs[q].inode \notin Range(r.list)
               /\ r.heap[qcs[q].inode].kind = "inode" /\ r.heap[qcs[q].inode].file = qcs[q].file
               /\ q # p => qcs[q].inode # o
    <3>1. CASE q \in Creators(pcs) /\ qcs[q] = pcs[q]
      BY <1>1, <1>2, <2>1, <3>1 DEF CreatesOK
    <3>2. CASE q = p /\ r.ft[s].by = "create"
      BY <1>2, <1>10, <2>1, <3>2
    <3> QED
      BY <3>1, <3>2
  <2>3. ASSUME NEW q \in Creators(qcs), NEW t \in Creators(qcs), qcs[q].inode = qcs[t].inode
        PROVE  q = t
    <3>1. CASE qcs[q].inode = o
      <4>1. q = p /\ t = p
        BY <2>2, <2>3, <3>1
      <4> QED
        BY <4>1
    <3>2. CASE qcs[q].inode # o
      <4>1. q \in Creators(pcs) /\ qcs[q] = pcs[q] /\ t \in Creators(pcs) /\ qcs[t] = pcs[t]
        BY <2>3, <3>2
      <4> QED
        BY <1>1, <2>3, <4>1 DEF CreatesOK
    <3> QED
      BY <3>1, <3>2
  <2>4. ASSUME NEW t \in Slot, r.ft[t].fd_inode # NULL, r.ft[t].by = "create",
               r.ft[t].fd_inode \notin Range(r.list)
        PROVE  \E q \in Creators(qcs) : qcs[q].slot = t /\ qcs[q].inode = r.ft[t].fd_inode
    <3>1. CASE t = s
      BY <2>4, <3>1 DEF Placed
    <3>2. CASE t # s
      <4>1. r.ft[t] = st.ft[t]
        BY <3>2 DEF Placed
      <4>2. PICK q \in Creators(pcs) : pcs[q].slot = t /\ pcs[q].inode = r.ft[t].fd_inode
        BY <1>1, <2>1, <2>4, <4>1 DEF CreatesOK
      <4> QED
        BY <4>2
    <3> QED
      BY <3>1, <3>2
  <2> QED
    BY <2>2, <2>3, <2>4 DEF CreatesOK
<1>9. WritersOK(r)
  <2>1. r.list = st.list /\ r.unguarded = st.unguarded /\ \A u \in Object \ {o} : r.heap[u] = st.heap[u]
    BY DEF Placed
  <2>2. \A t \in Slot : Writes(r, t) => /\ t # s /\ Writes(st, t) /\ r.ft[t] = st.ft[t]
                                        /\ r.heap[r.ft[t].fd_inode] = st.heap[st.ft[t].fd_inode]
    BY <1>3, <1>10, <2>1 DEF Placed, Writes
  <2>3. ASSUME NEW t \in Slot, Writes(r, t)
        PROVE  \/ r.heap[r.ft[t].fd_inode].write_deny
               \/ r.heap[r.ft[t].fd_inode].file \in r.unguarded
    BY <1>1, <2>1, <2>2, <2>3 DEF WritersOK
  <2>4. ASSUME NEW t \in Slot, NEW v \in Slot, Writes(r, t), Writes(r, v), t # v,
               r.ft[t].fd_inode = r.ft[v].fd_inode
        PROVE  r.heap[r.ft[t].fd_inode].file \in r.unguarded
    BY <1>1, <2>1, <2>2, <2>4 DEF WritersOK
  <2>5. ASSUME NEW u \in Range(r.list), NEW v \in Range(r.list), u # v,
               r.heap[u].file = r.heap[v].file
        PROVE  r.heap[u].file \in r.unguarded
    BY <1>1, <1>2, <2>1, <2>5 DEF WritersOK
  <2> QED
    BY <2>3, <2>4, <2>5 DEF WritersOK
<1> QED
  BY <1>5, <1>6, <1>7, <1>8, <1>9 DEF ObjectsOK

\* What file_create and sys_pipe put into memory and into the slot.
PlacedIn(st, s, o, f, i, m) == [st EXCEPT !.heap[o] = i, !.home = m, !.ft[s] = f]

LEMMA PlacedFields ==
    ASSUME NEW st \in State, NEW s \in Slot, NEW o \in Object,
           NEW f \in OpenFile, f.fd_inode = o, NEW i \in {Free, PipeBuffer} \cup Inode,
           st.ft[s].fd_inode = NULL, st.heap[o].kind = "free",
           NEW m \in [Object -> Space], NEW r, r = PlacedIn(st, s, o, f, i, m)
    PROVE  /\ r \in State /\ Placed(st, r, s, o) /\ r.heap[o] = i /\ r.ft[s] = f
           /\ r.fds = st.fds /\ r.meant = st.meant /\ r.lost = st.lost /\ r.fault = st.fault
           /\ r.home = m
<1> DEFINE h == [st.heap EXCEPT ![o] = i]
           ft == [st.ft EXCEPT ![s] = f]
<1>1. /\ h \in [Object -> {Free, PipeBuffer} \cup Inode] /\ h[o] = i
      /\ \A u \in Object \ {o} : h[u] = st.heap[u]
  BY HeapSet
<1>2. ft \in [Slot -> OpenFile] /\ ft[s] = f /\ \A t \in Slot \ {s} : ft[t] = st.ft[t]
  BY DEF State
<1>3. r = [st EXCEPT !.heap = h, !.home = m, !.ft = ft]
  BY DEF State, PlacedIn
<1> HIDE DEF h, ft
<1>4. r \in State
  BY <1>1, <1>2, <1>3 DEF State
<1>5. /\ r.heap = h /\ r.ft = ft /\ r.fds = st.fds /\ r.meant = st.meant /\ r.lost = st.lost
      /\ r.fault = st.fault /\ r.list = st.list /\ r.unguarded = st.unguarded
      /\ r.home = m
  BY <1>3 DEF State
<1> QED
  BY <1>1, <1>2, <1>4, <1>5 DEF Placed

\* file_create takes a slot and memory for the inode.
LEMMA FileCreateStep ==
    ASSUME FilesInv, fault = NoSlot, NEW p \in Procs, NEW f \in FileSet, NEW n,
           NEW flag \in Flags, file_create(p, f, n, flag)
    PROVE  FilesInv'
<1> DEFINE s == get_free_slot_in_file_table
           o == NewObject(Now)
           i == InodeObject(f, 0)
           rec == OpenFileOf(o, flag, "create", 0)
           r == [Now EXCEPT !.heap[o] = i, !.home[o] = p, !.ft[s] = rec]
           w == Waiting("create", s, o, f, flag)
           qcs == [pc EXCEPT ![p] = w]
           ch == shared \cup Clash(s)
<1>1. /\ StateOK(Now, pc, shared) /\ shared \in SUBSET Slot
      /\ Now \in State /\ pc \in [Procs -> Place] /\ ObjectsOK(Now, pc) /\ MeantOK(Now)
      /\ \A t \in Slot : SlotOK(Now, pc, shared, t)
  BY DEF FilesInv, StateOK
<1>2. pc[p] = Running /\ FreeSlots # {} /\ Unused(Now) # {} /\ Becomes(r, qcs, Clash(s))
  BY DEF file_create
<1>3. /\ s \in Slot /\ file_table[s].fd_inode = NULL /\ Clash(s) \in SUBSET Slot
      /\ s \notin ch => Descs(fd_table, s) = {} /\ Waiters(pc, s) = {}
  BY <1>1, <1>2, FreeSlot
<1>4. o \in Object /\ heap[o].kind = "free" /\ o \in 0..Objects
  <2>1. o \in Object /\ heap[o].kind = "free"
    BY <1>2, NewMemory, NowFields
  <2> QED
    BY <2>1 DEF Object
<1> HIDE DEF s, o
<1>5. w \in Place /\ w # Gone /\ w.at = "create" /\ w.slot = s /\ w.inode = o /\ w.file = f
  BY <1>3, <1>4, Places
<1>6. rec \in OpenFile /\ rec.fd_inode = o /\ rec.by = "create" /\ rec.fd_flag # "pipe"
  BY <1>4 DEF OpenFile, Fillers, Flags, OpenFileOf
<1>7. i \in Inode /\ i.kind = "inode" /\ i.file = f /\ i.i_open_cnts = 0
  BY InodeObjectFields
<1> DEFINE m == [Now.home EXCEPT ![o] = p]
<1>15. m \in [Object -> Space] /\ m[o] = p /\ \A u \in Object \ {o} : m[u] = Now.home[u]
  BY <1>1, <1>4 DEF State, Space
<1> HIDE DEF w, rec, i, ch
<1>8. /\ r \in State /\ Placed(Now, r, s, o) /\ r.heap[o] = i /\ r.ft[s] = rec
      /\ r.fds = Now.fds /\ r.meant = Now.meant /\ r.lost = Now.lost /\ r.fault = Now.fault
      /\ r.home = m
  <2>1. r = PlacedIn(Now, s, o, rec, i, m)
    BY <1>1 DEF PlacedIn, State
  <2>2. Now.ft[s].fd_inode = NULL /\ Now.heap[o].kind = "free"
    BY <1>3, <1>4, NowFields
  <2> HIDE DEF r, m
  <2> QED
    BY <1>1, <1>3, <1>4, <1>6, <1>7, <1>15, <2>1, <2>2, PlacedFields
<1> HIDE DEF r, m
<1>9. Moved(pc, qcs, p, w)
  BY <1>1, <1>5, MovedEx
<1> HIDE DEF qcs
<1>10. ObjectsOK(r, qcs)
  <2>1. r.ft[s].by = "create" /\ r.heap[o].kind = "inode" /\ r.heap[o].i_open_cnts = 0
    BY <1>6, <1>7, <1>8
  <2>2. p \notin Creators(pc)
    BY <1>1, <1>2, NotWaiting
  <2>3. /\ p \in Creators(qcs) /\ qcs[p].slot = s /\ qcs[p].inode = o
        /\ qcs[p].file = r.heap[o].file
    BY <1>5, <1>7, <1>8, <1>9 DEF Creators, Moved
  <2>4. \A q \in Creators(qcs) : (q \in Creators(pc) /\ qcs[q] = pc[q]) \/ q = p
    BY <1>9 DEF Creators, Moved
  <2>5. \A q \in Creators(pc) : q \in Creators(qcs) /\ qcs[q] = pc[q]
    BY <1>9, <2>2 DEF Creators, Moved
  <2> QED
    BY <1>1, <1>3, <1>4, <1>8, <2>1, <2>3, <2>4, <2>5, PlacedObjects
<1>11. \A t \in Slot : SlotOK(r, qcs, ch, t)
  <2>1. shared \subseteq ch /\ \A t \in Slot : p \notin Waiters(pc, t)
    BY <1>1, <1>2, NotWaiting DEF ch
  <2>2. s \notin ch => Descs(Now.fds, s) = {} /\ Waiters(pc, s) = {}
    BY <1>3, NowFields
  <2>3. /\ \A t \in Slot \ {s} : r.ft[t] = Now.ft[t]
        /\ r.ft[s].fd_flag = "pipe" => r.ft[s].fd_inode = NULL
        /\ w.inode = r.ft[s].fd_inode
    BY <1>5, <1>6, <1>8 DEF Placed
  <2>5. \A t \in Slot : Now.ft[t].fd_inode # NULL => Now.ft[t].fd_inode \in Object \ {o}
    <3>1. SlotsOn(Now.ft, o) = {}
      BY <1>1, <1>4, NowFields, FreeObject
    <3> QED
      BY <1>1, <3>1 DEF State, OpenFile, Object, NULL, SlotsOn
  <2>6. AtHome(r, s, p) /\ \A t \in Slot : SameHome(Now, r, t)
    BY <1>6, <1>8, <1>15, <2>5 DEF AtHome, SameHome
  <2>4. Chosen(Now, r, pc, p, s, w, shared, ch)
    BY <1>5, <1>8, <2>1, <2>2, <2>3, <2>6 DEF Chosen
  <2> QED
    BY <1>1, <1>3, <1>5, <1>9, <2>4, WaitSlots
<1>12. StateOK(r, qcs, ch)
  <2>1. FaultOK(r, ch) /\ MeantOK(r)
    BY <1>1, <1>8, NowFields DEF FaultOK, MeantOK
  <2> QED
    BY <1>8, <1>9, <1>10, <1>11, <2>1 DEF StateOK, Moved
<1>13. StateOK(Now', pc', shared') /\ shared' \subseteq Slot
  BY <1>1, <1>2, <1>3, <1>12, BecomesOK DEF ch
<1>14. \A q \in Procs : pc'[q] = Gone => fd_table'[q] = NoFds
  <2>1. pc' = qcs /\ fd_table' = fd_table
    BY <1>2, <1>8, NowFields DEF Becomes
  <2> QED
    BY <1>5, <1>9, <2>1 DEF FilesInv, Moved
<1> QED
  BY <1>13, <1>14 DEF FilesInv

\* The entry of the file is on the disk: the process waits on.
LEMMA EntryStep ==
    ASSUME FilesInv, fault = NoSlot, NEW p \in Procs, sync_dir_entry(p)
    PROVE  FilesInv'
<1> DEFINE w == [pc[p] EXCEPT !.at = "entry"]
           qcs == [pc EXCEPT ![p].at = "entry"]
<1>1. /\ StateOK(Now, pc, shared) /\ shared \in SUBSET Slot
      /\ Now \in State /\ pc \in [Procs -> Place] /\ ObjectsOK(Now, pc) /\ MeantOK(Now)
      /\ \A t \in Slot : SlotOK(Now, pc, shared, t)
  BY DEF FilesInv, StateOK
<1>2. pc[p].at = "create" /\ Becomes(Now, qcs, {})
  BY DEF sync_dir_entry
<1>3. /\ w \in Place /\ w.at = "entry" /\ w.slot = pc[p].slot /\ w.inode = pc[p].inode
      /\ w.file = pc[p].file /\ w # Gone
  BY <1>1, <1>2 DEF Place, Running, Gone
<1>4. qcs = [pc EXCEPT ![p] = w]
  BY <1>1
<1> HIDE DEF w
<1>5. Moved(pc, qcs, p, w)
  BY <1>1, <1>3, <1>4, MovedEx
<1> HIDE DEF qcs
<1>6. ObjectsOK(Now, qcs)
  <2>1. Creators(qcs) = Creators(pc)
    BY <1>2, <1>3, <1>5 DEF Creators, Moved
  <2>2. \A q \in Creators(pc) : /\ qcs[q].slot = pc[q].slot /\ qcs[q].inode = pc[q].inode
                                /\ qcs[q].file = pc[q].file
    BY <1>3, <1>5 DEF Creators, Moved
  <2>3. CreatesOK(Now, qcs)
    BY <1>1, <2>1, <2>2 DEF ObjectsOK, CreatesOK
  <2> QED
    BY <1>1, <2>3 DEF ObjectsOK
<1>7. ASSUME NEW t \in Slot PROVE SlotOK(Now, qcs, shared, t)
  <2>1. Waiters(qcs, t) = Waiters(pc, t) /\ \A q \in Waiters(pc, t) : qcs[q].inode = pc[q].inode
    BY <1>2, <1>3, <1>5 DEF Waiters, Moved
  <2>2. SameHome(Now, Now, t)
    BY DEF SameHome
  <2> QED
    BY <1>1, <2>1, <2>2, SlotFrame
<1>8. StateOK(Now, qcs, shared \cup {})
  BY <1>1, <1>5, <1>6, <1>7 DEF StateOK, Moved
<1>9. StateOK(Now', pc', shared') /\ shared' \subseteq Slot
  BY <1>1, <1>2, <1>8, BecomesOK
<1>10. \A q \in Procs : pc'[q] = Gone => fd_table'[q] = NoFds
  <2>1. pc' = qcs /\ fd_table' = fd_table
    BY <1>2, NowFields DEF Becomes
  <2> QED
    BY <1>3, <1>5, <2>1 DEF FilesInv, Moved
<1> QED
  BY <1>9, <1>10 DEF FilesInv

\* The inode that was created is listed and counted, and p has a descriptor.
LEMMA InodeListedStep ==
    ASSUME FilesInv, fault = NoSlot, NEW p \in Procs, inode_listed(p),
           PushedOn \subseteq InSpace(Now, p)
    PROVE  FilesInv'
<1> DEFINE w == pc[p]
           s == w.slot
           o == w.inode
           f == w.file
           again == IF Found(f) # 0 THEN {f} ELSE {}
           st == [Now EXCEPT !.heap[o].i_open_cnts = @ + 1, !.list = <<o>> \o @,
                             !.unguarded = @ \cup again]
           r == pcb_fd_install(st, p, s, o)
           v == Waiting("reopen", NoSlot, NULL, f, w.flag)
           qcs == [pc EXCEPT ![p] = v]
<1>1. /\ StateOK(Now, pc, shared) /\ shared \in SUBSET Slot
      /\ Now \in State /\ pc \in [Procs -> Place] /\ ObjectsOK(Now, pc) /\ MeantOK(Now)
      /\ \A t \in Slot : SlotOK(Now, pc, shared, t)
  BY DEF FilesInv, StateOK
<1>2. w.at = "entry" /\ Becomes(r, qcs, {})
  BY DEF inode_listed
<1>3. s \in Slot /\ f \in FileSet /\ w.flag \in Flags
  BY <1>1, <1>2 DEF Place, Gone, Running
<1>4. p \in Creators(pc) /\ p \in Waiters(pc, s) /\ \A t \in Slot \ {s} : p \notin Waiters(pc, t)
  BY <1>2 DEF Creators, Waiters
<1>5. /\ o \in Object /\ o \notin Range(open_inodes)
      /\ heap[o].kind = "inode" /\ heap[o].file = f
      /\ \A q \in Creators(pc) : pc[q].inode = o => q = p
  BY <1>1, <1>4, NowFields DEF ObjectsOK, CreatesOK
<1>6. v \in Place /\ v # Gone /\ v.at = "reopen"
  BY <1>3, Places
<1>7. again \in SUBSET FileSet /\ \A u \in Range(open_inodes) : heap[u].file = f => f \in again
  <2>1. open_inodes \in Seq(Object)
    BY <1>1, NowFields DEF State
  <2> QED
    BY <1>3, <2>1, FoundListed
<1> HIDE DEF w, s, o, f, again, v
<1> DEFINE i == [Now.heap[o] EXCEPT !.i_open_cnts = @ + 1]
           h == [Now.heap EXCEPT ![o] = i]
<1>8. heap[o] \in Inode /\ Now.heap[o] \in Inode
  BY <1>1, <1>5, NowFields, InodeFields
<1>9. i \in Inode /\ i.kind = "inode" /\ i.file = f /\ i.i_open_cnts = heap[o].i_open_cnts + 1
  <2>1. Now.heap[o] = heap[o]
    BY NowFields
  <2> QED
    BY <1>5, <1>8, <2>1 DEF Inode
<1>10. /\ h \in [Object -> {Free, PipeBuffer} \cup Inode] /\ h[o] = i
       /\ \A u \in Object \ {o} : h[u] = Now.heap[u]
  <2> HIDE DEF i
  <2> QED
    BY <1>1, <1>5, <1>9, HeapSet
<1>11. st = [Now EXCEPT !.heap = h, !.list = <<o>> \o Now.list, !.unguarded = Now.unguarded \cup again]
  BY <1>1 DEF State
<1> HIDE DEF h, i
<1>12. /\ st.ft = Now.ft /\ st.fds = Now.fds /\ st.heap = h /\ st.list = <<o>> \o Now.list
       /\ st.meant = Now.meant /\ st.lost = Now.lost /\ st.unguarded = Now.unguarded \cup again
       /\ st.fault = Now.fault /\ st.home = Now.home
  BY <1>1, <1>11 DEF State
<1>13. st \in State
  <2>1. Now.list \in Seq(Object) /\ IsInjective(Now.list)
    BY <1>1 DEF State, ObjectsOK, ListOK
  <2>2. <<o>> \o Now.list \in Seq(Object)
    BY <1>5, <2>1, NowFields, ListPush
  <2> QED
    BY <1>1, <1>7, <1>10, <1>11, <2>2 DEF State
<1> HIDE DEF st
<1>14. /\ r \in State /\ r.ft = st.ft /\ r.heap = st.heap /\ r.list = st.list
       /\ r.unguarded = st.unguarded /\ r.fault = st.fault /\ r.home = st.home
       /\ Installed(st, r, p, s, o)
  BY <1>3, <1>5, <1>13, InstallFields
<1>15. Installed(Now, r, p, s, o)
  BY <1>12, <1>14, InstalledSame
<1> HIDE DEF r
<1>16. Moved(pc, qcs, p, v)
  BY <1>1, <1>6, MovedEx
<1> HIDE DEF qcs
<1>17. ObjectsOK(r, qcs)
  <2>1. Now.heap[o].kind # "pipe" /\ o \notin Range(Now.list)
    BY <1>5, NowFields
  <2>2. Cardinality(SlotsOn(Now.ft, o)) <= r.heap[o].i_open_cnts
    <3>1. Cardinality(SlotsOn(file_table, o)) <= heap[o].i_open_cnts + 1
      BY <1>1, <1>5, NowFields DEF ObjectsOK, CountsOK
    <3> QED
      BY <1>9, <1>10, <1>12, <1>14, <3>1, NowFields
  <2>3. /\ \A u \in Object \ {o} : r.heap[u] = Now.heap[u]
        /\ r.heap[o].kind = "inode" /\ r.heap[o].file = f
    BY <1>9, <1>10, <1>12, <1>14
  <2>4. /\ Now.unguarded \subseteq r.unguarded
        /\ \A u \in Range(Now.list) : Now.heap[u].file = f => f \in r.unguarded
        /\ r.ft = Now.ft /\ r.list = <<o>> \o Now.list
    BY <1>7, <1>12, <1>14, NowFields
  <2>5. \A q \in Creators(qcs) : q \in Creators(pc) /\ qcs[q] = pc[q] /\ pc[q].inode # o
    BY <1>5, <1>6, <1>16 DEF Creators, Moved
  <2>6. \A q \in Creators(pc) : pc[q].inode # o => q \in Creators(qcs)
    BY <1>16 DEF Creators, Moved, o, w
  <2> QED
    BY <1>1, <1>5, <1>14, <2>1, <2>2, <2>3, <2>4, <2>5, <2>6, ListedObjects, ZenonT(60)
<1>18. \A t \in Slot : SlotOK(r, qcs, shared, t)
  <2>1. r.ft = Now.ft /\ r.home = Now.home
    BY <1>12, <1>14
  <2>2. ASSUME s \notin shared
        PROVE  /\ Descs(Now.fds, s) = {} /\ Waiters(pc, s) \subseteq {p}
               /\ r.ft[s].fd_inode = o /\ r.ft[s].fd_flag # "pipe"
               /\ AtHome(r, s, p) /\ r.ft[s].by # "refused"
    <3>1. AloneOK(Now, pc, s)
      BY <1>1, <1>3, <2>2 DEF SlotOK
    <3>2. Descs(Now.fds, s) = {} /\ Waiters(pc, s) \subseteq {p} /\ pc[p].inode = Now.ft[s].fd_inode
      BY <1>4, <3>1 DEF AloneOK
    <3>3. Now.ft[s].fd_inode = o /\ o # NULL
      BY <1>5, <3>2 DEF o, w, Object, NULL
    <3>4. Now.ft[s].fd_flag # "pipe" /\ Now.ft[s].by = "create"
      BY <1>1, <1>3, <1>5, <3>3, NowFields DEF ObjectsOK, KindsOK
    <3>5. AtHome(Now, s, p)
      BY <1>4, <3>1 DEF AloneOK
    <3>6. AtHome(r, s, p)
      BY <2>1, <3>5 DEF AtHome
    <3> QED
      BY <2>1, <3>2, <3>3, <3>4, <3>6
  <2>3. Reached(Now, r, pc, p, s, o, shared, shared)
    BY <1>4, <2>1, <2>2 DEF Reached, SameHome
  <2> QED
    BY <1>1, <1>3, <1>5, <1>6, <1>14, <1>15, <1>16, <2>3, InstalledSlots
<1>19. StateOK(r, qcs, shared \cup {})
  <2>1. MeantOK(r)
    BY <1>1, <1>3, <1>5, <1>14, <1>15, InstalledMeant
  <2>2. FaultOK(r, shared)
    BY <1>12, <1>14, NowFields DEF FaultOK
  <2>3. shared \cup {} = shared
    OBVIOUS
  <2> QED
    BY <1>14, <1>16, <1>17, <1>18, <2>1, <2>2, <2>3 DEF StateOK, Moved
<1>20. StateOK(Now', pc', shared') /\ shared' \subseteq Slot
  BY <1>1, <1>2, <1>19, BecomesOK
<1>21. \A q \in Procs : pc'[q] = Gone => fd_table'[q] = NoFds
  <2>1. pc' = qcs /\ fd_table' = r.fds
    BY <1>2 DEF Becomes
  <2>2. \A q \in Procs \ {p} : r.fds[q] = fd_table[q]
    BY <1>1, <1>15, NowFields, InstalledGone
  <2> QED
    BY <1>6, <1>16, <2>1, <2>2 DEF FilesInv, Moved
<1> QED
  BY <1>20, <1>21 DEF FilesInv

\* sys_pipe takes a slot and a buffer, and up to two descriptors.
LEMMA PipeStep ==
    ASSUME FilesInv, fault = NoSlot, NEW p \in Procs, sys_pipe(p)
    PROVE  FilesInv'
<1> DEFINE s == get_free_slot_in_file_table
           o == NewObject(Now)
           rec == OpenFileOf(o, "pipe", "pipe", 2)
           st == [Now EXCEPT !.heap[o] = PipeBuffer, !.ft[s] = rec]
           one == pcb_fd_install(st, p, s, o)
           two == pcb_fd_install(one, p, s, o)
           ch == shared \cup Clash(s)
           D == Descs(fd_table, s)
<1>1. /\ StateOK(Now, pc, shared) /\ shared \in SUBSET Slot
      /\ Now \in State /\ pc \in [Procs -> Place] /\ ObjectsOK(Now, pc) /\ MeantOK(Now)
      /\ \A t \in Slot : SlotOK(Now, pc, shared, t)
  BY DEF FilesInv, StateOK
<1>2. pc[p] = Running /\ FreeSlots # {} /\ Unused(Now) # {} /\ Becomes(two, pc, Clash(s))
  BY DEF sys_pipe
<1>3. /\ s \in Slot /\ file_table[s].fd_inode = NULL /\ Clash(s) \in SUBSET Slot
      /\ s \notin ch => D = {} /\ Waiters(pc, s) = {}
  BY <1>1, <1>2, FreeSlot
<1>4. o \in Object /\ heap[o].kind = "free" /\ o \in 0..Objects
  <2>1. o \in Object /\ heap[o].kind = "free"
    BY <1>2, NewMemory, NowFields
  <2> QED
    BY <2>1 DEF Object
<1> HIDE DEF s, o, D, ch
<1>5. rec \in OpenFile /\ rec.fd_inode = o /\ rec.fd_flag = "pipe" /\ rec.fd_pos = 2
      /\ rec.by = "pipe"
  BY <1>4 DEF OpenFile, Fillers, OpenFileOf
<1> HIDE DEF rec
<1>6. /\ st \in State /\ Placed(Now, st, s, o) /\ st.heap[o] = PipeBuffer /\ st.ft[s] = rec
      /\ st.fds = fd_table /\ st.meant = Now.meant /\ st.lost = Now.lost /\ st.fault = Now.fault
      /\ st.home = Now.home
  <2>1. st = PlacedIn(Now, s, o, rec, PipeBuffer, Now.home) /\ Now.home \in [Object -> Space]
    BY <1>1 DEF PlacedIn, State
  <2>2. Now.ft[s].fd_inode = NULL /\ Now.heap[o].kind = "free"
    BY <1>3, <1>4, NowFields
  <2> HIDE DEF st
  <2> QED
    BY <1>1, <1>3, <1>4, <1>5, <2>1, <2>2, NowFields, PlacedFields
<1> HIDE DEF st
<1>7. /\ one \in State /\ one.ft = st.ft /\ one.heap = st.heap /\ one.list = st.list
      /\ one.unguarded = st.unguarded /\ one.fault = st.fault /\ one.home = st.home
      /\ Installed(st, one, p, s, o)
  BY <1>3, <1>4, <1>6, InstallFields
<1> HIDE DEF one
<1>8. /\ two \in State /\ two.ft = st.ft /\ two.heap = st.heap /\ two.list = st.list
      /\ two.unguarded = st.unguarded /\ two.fault = st.fault /\ two.home = st.home
      /\ Installed(one, two, p, s, o)
  BY <1>3, <1>4, <1>7, InstallFields
<1> HIDE DEF two
<1>9. ObjectsOK(two, pc)
  <2>1. /\ Placed(Now, two, s, o) /\ two.ft[s].fd_flag = "pipe" /\ two.heap[o].kind = "pipe"
        /\ two.ft[s].by = "pipe"
    BY <1>5, <1>6, <1>8 DEF Placed, PipeBuffer
  <2>2. /\ \A q \in Creators(pc) : \/ q \in Creators(pc) /\ pc[q] = pc[q]
                                   \/ q = p /\ two.ft[s].by = "create"
        /\ \A q \in Creators(pc) : q \in Creators(pc) /\ pc[q] = pc[q]
        /\ two.ft[s].by # "create"
    BY <2>1
  <2> QED
    BY <1>1, <1>3, <1>4, <1>8, <2>1, <2>2, PlacedObjects
<1>10. ASSUME NEW t \in Slot, t # s PROVE SlotOK(two, pc, ch, t)
  <2>1. two.ft[t] = Now.ft[t]
    BY <1>6, <1>8, <1>10 DEF Placed
  <2>2. /\ Descs(one.fds, t) = Descs(st.fds, t)
        /\ \A x \in Descs(st.fds, t) : one.meant[x[1]][x[2]] = st.meant[x[1]][x[2]]
        /\ t \in st.lost => t \in one.lost
    BY <1>3, <1>4, <1>6, <1>7, <1>10, InstalledFrame
  <2>3. /\ Descs(two.fds, t) = Descs(one.fds, t)
        /\ \A x \in Descs(one.fds, t) : two.meant[x[1]][x[2]] = one.meant[x[1]][x[2]]
        /\ t \in one.lost => t \in two.lost
    BY <1>3, <1>4, <1>7, <1>8, <1>10, InstalledFrame
  <2>4. /\ Descs(two.fds, t) = Descs(Now.fds, t)
        /\ \A x \in Descs(Now.fds, t) : two.meant[x[1]][x[2]] = Now.meant[x[1]][x[2]]
        /\ t \in Now.lost => t \in two.lost
    BY <1>6, <2>2, <2>3, NowFields
  <2>5. (t \in shared => t \in ch) /\ SameHome(Now, two, t)
    BY <1>6, <1>8 DEF ch, SameHome
  <2> QED
    BY <1>1, <2>1, <2>4, <2>5, SlotFrame
<1>11. SlotOK(two, pc, ch, s)
  <2>1. two.ft[s].fd_flag = "pipe" /\ two.ft[s].fd_pos = 2 /\ two.ft[s].fd_inode = o
    BY <1>5, <1>6, <1>8
  <2>2. /\ s \in two.lost \/ 2 <= Cardinality(Descs(two.fds, s))
        /\ D = {} => /\ \A x \in Descs(two.fds, s) : two.meant[x[1]][x[2]] = o
                     /\ Cardinality(Descs(two.fds, s)) <= 2
    <3>1. st.fds = fd_table
      BY <1>6
    <3>2. \/ s \in one.lost /\ st.lost \subseteq one.lost /\ one.fds = st.fds /\ one.meant = st.meant
          \/ \E x \in Procs \X Fd : OneMore(st, one, s, o, x)
      BY <1>3, <1>4, <1>6, <1>7, InstalledDescs
    <3>3. \/ s \in two.lost /\ one.lost \subseteq two.lost /\ two.fds = one.fds /\ two.meant = one.meant
          \/ \E x \in Procs \X Fd : OneMore(one, two, s, o, x)
      BY <1>3, <1>4, <1>7, <1>8, InstalledDescs
    <3>4. IsFiniteSet(D) /\ Cardinality(D) \in Nat /\ (Cardinality(D) = 0 <=> D = {})
      BY DescsFinite DEF D
    <3> DEFINE E == Descs(one.fds, s)
               F == Descs(two.fds, s)
    <3>5. /\ s \in one.lost \/ Cardinality(E) = Cardinality(D) + 1
          /\ D = {} => /\ \A x \in E : one.meant[x[1]][x[2]] = o
                       /\ Cardinality(E) <= 1
      <4>1. CASE s \in one.lost /\ one.fds = st.fds
        <5>1. E = D
          BY <3>1, <4>1 DEF D
        <5> QED
          BY <3>4, <4>1, <5>1
      <4>2. ASSUME NEW x \in Procs \X Fd, OneMore(st, one, s, o, x)
            PROVE  /\ Cardinality(E) = Cardinality(D) + 1
                   /\ D = {} => \A y \in E : one.meant[y[1]][y[2]] = o
        <5>1. x \notin D /\ E = D \cup {x} /\ one.meant[x[1]][x[2]] = o
          BY <3>1, <4>2 DEF OneMore, D
        <5> HIDE DEF E
        <5>2. Cardinality(E) = Cardinality(D) + 1
          BY <3>4, <5>1, FS_AddElement
        <5> QED
          BY <5>1, <5>2
      <4> QED
        BY <3>2, <3>4, <4>1, <4>2
    <3>6. IsFiniteSet(E) /\ Cardinality(E) \in Nat
      BY DescsFinite
    <3>7. CASE s \in two.lost /\ one.lost \subseteq two.lost /\ two.fds = one.fds /\ two.meant = one.meant
      BY <3>5, <3>6, <3>7
    <3>8. ASSUME NEW x \in Procs \X Fd, OneMore(one, two, s, o, x)
          PROVE  /\ s \in two.lost \/ 2 <= Cardinality(F)
                 /\ D = {} => /\ \A y \in F : two.meant[y[1]][y[2]] = o
                              /\ Cardinality(F) <= 2
      <4>1. /\ x \notin E /\ F = E \cup {x} /\ two.meant[x[1]][x[2]] = o /\ one.lost = two.lost
            /\ \A y \in E : two.meant[y[1]][y[2]] = one.meant[y[1]][y[2]]
        BY <3>8 DEF OneMore
      <4> HIDE DEF E, F
      <4>2. Cardinality(F) = Cardinality(E) + 1
        BY <3>6, <4>1, FS_AddElement
      <4>3. D = {} => \A y \in F : two.meant[y[1]][y[2]] = o
        BY <3>5, <4>1
      <4> QED
        BY <3>4, <3>5, <3>6, <4>1, <4>2, <4>3
    <3> QED
      BY <3>3, <3>7, <3>8
  <2>3. HeldOK(two, pc, s)
    <3>1. Descs(two.fds, s) # {} \/ s \in two.lost
      <4>1. Cardinality({}) = 0
        BY FS_EmptySet
      <4> QED
        BY <2>2, <4>1
    <3> QED
      BY <2>1, <2>2, <3>1 DEF HeldOK
  <2>4. ASSUME s \notin ch PROVE AloneOK(two, pc, s)
    BY <1>3, <2>1, <2>2, <2>4 DEF AloneOK, AtHome
  <2> QED
    BY <2>3, <2>4 DEF SlotOK
<1>12. StateOK(two, pc, ch)
  <2>1. MeantOK(st)
    BY <1>1, <1>6, NowFields DEF MeantOK
  <2>2. MeantOK(one)
    BY <1>3, <1>4, <1>6, <1>7, <2>1, InstalledMeant
  <2>3. MeantOK(two)
    BY <1>3, <1>4, <1>7, <1>8, <2>2, InstalledMeant
  <2>4. FaultOK(two, ch)
    BY <1>6, <1>8, NowFields DEF FaultOK
  <2> QED
    BY <1>1, <1>8, <1>9, <1>10, <1>11, <2>3, <2>4 DEF StateOK
<1>13. StateOK(Now', pc', shared') /\ shared' \subseteq Slot
  BY <1>1, <1>2, <1>3, <1>12, BecomesOK DEF ch
<1>14. \A q \in Procs : pc'[q] = Gone => fd_table'[q] = NoFds
  <2>1. pc' = pc /\ fd_table' = two.fds /\ pc[p] # Gone
    BY <1>1, <1>2, NotWaiting DEF Becomes
  <2>2. \A q \in Procs \ {p} : one.fds[q] = st.fds[q]
    BY <1>6, <1>7, InstalledGone
  <2>3. \A q \in Procs \ {p} : two.fds[q] = one.fds[q]
    BY <1>7, <1>8, InstalledGone
  <2> QED
    BY <1>6, <2>1, <2>2, <2>3 DEF FilesInv
<1> QED
  BY <1>13, <1>14 DEF FilesInv

-----------------------------------------------------------------------------
(* Closing. *)

\* The slot s, which led to o, is free.
Emptied(st, r, s) ==
    /\ \A t \in Slot \ {s} : r.ft[t] = st.ft[t]
    /\ r.ft[s].fd_inode = NULL /\ r.ft[s].fd_flag = st.ft[s].fd_flag

LEMMA EmptiedSlots ==
    ASSUME NEW st \in State, NEW r, NEW s \in Slot, Emptied(st, r, s)
    PROVE  \A u \in Object : SlotsOn(r.ft, u) = SlotsOn(st.ft, u) \ {s}
BY DEF Emptied, SlotsOn, Object, NULL

\* Memory stays where it is, or goes back to the kernel.
Returned(st, r) == \A u \in Object : r.home[u] \in {st.home[u], Kernel}

LEMMA ReturnedHome ==
    ASSUME NEW st \in State, NEW r, Returned(st, r)
    PROVE  \A s \in Slot : SameHome(st, r, s)
<1>1. \A s \in Slot : st.ft[s].fd_inode # NULL => st.ft[s].fd_inode \in Object
  BY DEF State, OpenFile, Object, NULL
<1> QED
  BY <1>1 DEF SameHome, Returned

\* What file_close does to a regular file: freed by the last close, else counted.
FileClosed(st, r, s, o) ==
    /\ Emptied(st, r, s) /\ Returned(st, r)
    /\ \A u \in Object \ {o} : r.heap[u] = st.heap[u]
    /\ st.unguarded \subseteq r.unguarded
    /\ \A t \in Slot \ {s} :
          Writes(st, t) /\ st.ft[t].fd_inode = o => st.heap[o].file \in r.unguarded
    /\ \/ /\ st.heap[o].i_open_cnts = 1 /\ o \in Range(st.list)
          /\ r.heap[o] = Free /\ IsInjective(r.list) /\ Range(r.list) = Range(st.list) \ {o}
       \/ /\ r.heap[o].kind = "inode" /\ r.heap[o].file = st.heap[o].file
          /\ r.heap[o].i_open_cnts = st.heap[o].i_open_cnts - 1 /\ r.list = st.list

LEMMA FileClosedObjects ==
    ASSUME NEW st \in State, NEW r \in State, NEW s \in Slot, NEW o \in Object, NEW pcs,
           ObjectsOK(st, pcs), FileClosed(st, r, s, o),
           st.ft[s].fd_inode = o, st.ft[s].fd_flag # "pipe"
    PROVE  ObjectsOK(r, pcs)
<1>1. /\ ListOK(st) /\ KindsOK(st) /\ CountsOK(st) /\ CreatesOK(st, pcs) /\ WritersOK(st)
      /\ Range(st.list) \subseteq Object /\ o # NULL
  BY RangeIndex DEF ObjectsOK, State, Object, NULL
<1>2. st.heap[o].kind = "inode"
  BY <1>1 DEF KindsOK
<1>3. \A u \in Object : SlotsOn(r.ft, u) = SlotsOn(st.ft, u) \ {s}
  BY EmptiedSlots DEF FileClosed
<1>4. /\ s \in SlotsOn(st.ft, o) /\ st.heap[o].i_open_cnts \in Int
      /\ Cardinality(SlotsOn(st.ft, o)) \in Nat
      /\ Cardinality(SlotsOn(r.ft, o)) = Cardinality(SlotsOn(st.ft, o)) - 1
      /\ Cardinality(SlotsOn(r.ft, o)) \in Nat
  <2>1. s \in SlotsOn(st.ft, o)
    BY DEF SlotsOn
  <2>2. st.heap[o].i_open_cnts \in Int
    BY <1>2, InodeFields DEF Inode
  <2>3. /\ Cardinality(SlotsOn(st.ft, o) \ {s}) = Cardinality(SlotsOn(st.ft, o)) - 1
        /\ Cardinality(SlotsOn(st.ft, o)) \in Nat
    BY <2>1, SlotsOnFinite
  <2>4. Cardinality(SlotsOn(r.ft, o)) \in Nat
    BY SlotsOnFinite
  <2> QED
    BY <1>3, <2>1, <2>2, <2>3, <2>4
<1>5. \A u \in Object \ {o} : SlotsOn(r.ft, u) = SlotsOn(st.ft, u) /\ r.heap[u] = st.heap[u]
  BY <1>3 DEF SlotsOn, FileClosed
<1>6. \A t \in Slot : r.ft[t].fd_inode # NULL => t # s /\ r.ft[t] = st.ft[t] /\ r.ft[t].fd_inode \in Object
  BY DEF FileClosed, Emptied, State, OpenFile, Object, NULL
<1>7. CASE /\ st.heap[o].i_open_cnts = 1 /\ o \in Range(st.list)
           /\ r.heap[o] = Free /\ IsInjective(r.list) /\ Range(r.list) = Range(st.list) \ {o}
  <2>1. SlotsOn(r.ft, o) = {}
    <3>1. Cardinality(SlotsOn(st.ft, o)) <= 1 + 0
      BY <1>1, <1>2, <1>7 DEF CountsOK
    <3>2. Cardinality(SlotsOn(r.ft, o)) = 0
      BY <1>4, <3>1
    <3> QED
      BY <3>2, SlotsOnFinite
  <2>2. \A t \in Slot : r.ft[t].fd_inode # NULL => r.ft[t].fd_inode \in Object \ {o}
    BY <1>6, <2>1 DEF SlotsOn
  <2>3. r.heap[o].kind = "free"
    BY <1>7 DEF Free
  <2>4. ListOK(r)
    BY <1>1, <1>5, <1>7 DEF ListOK
  <2>5. KindsOK(r)
    <3> SUFFICES ASSUME NEW t \in Slot, r.ft[t].fd_inode # NULL
                 PROVE  LET u == r.ft[t].fd_inode IN
                        IF r.ft[t].fd_flag = "pipe"
                        THEN r.heap[u].kind = "pipe" /\ SlotsOn(r.ft, u) = {t}
                        ELSE /\ r.heap[u].kind = "inode"
                             /\ r.ft[t].by # "create" => u \in Range(r.list)
      BY DEF KindsOK
    <3>1. /\ r.ft[t] = st.ft[t] /\ r.ft[t].fd_inode \in Object \ {o}
          /\ r.heap[r.ft[t].fd_inode] = st.heap[st.ft[t].fd_inode]
          /\ SlotsOn(r.ft, r.ft[t].fd_inode) = SlotsOn(st.ft, st.ft[t].fd_inode)
      BY <1>5, <1>6, <2>2
    <3> QED
      BY <1>1, <1>7, <3>1 DEF KindsOK
  <2>6. CountsOK(r)
    <3> SUFFICES ASSUME NEW u \in Object, r.heap[u].kind = "inode"
                 PROVE  Cardinality(SlotsOn(r.ft, u))
                           <= r.heap[u].i_open_cnts + (IF u \in Range(r.list) THEN 0 ELSE 1)
      BY DEF CountsOK
    <3>1. u # o
      BY <2>3
    <3> QED
      BY <1>1, <1>5, <1>7, <3>1 DEF CountsOK
  <2>7. CreatesOK(r, pcs)
    <3>1. \A q \in Creators(pcs) : pcs[q].inode \in Object \ {o}
      BY <1>1, <1>7 DEF CreatesOK
    <3>2. ASSUME NEW q \in Creators(pcs)
          PROVE  /\ pcs[q].inode \in Object /\ pcs[q].inode \notin Range(r.list)
                 /\ r.heap[pcs[q].inode].kind = "inode" /\ r.heap[pcs[q].inode].file = pcs[q].file
      BY <1>1, <1>5, <1>7, <3>1 DEF CreatesOK
    <3>3. ASSUME NEW t \in Slot, r.ft[t].fd_inode # NULL, r.ft[t].by = "create",
                 r.ft[t].fd_inode \notin Range(r.list)
          PROVE  \E q \in Creators(pcs) : pcs[q].slot = t /\ pcs[q].inode = r.ft[t].fd_inode
      <4>1. r.ft[t] = st.ft[t] /\ r.ft[t].fd_inode \notin Range(st.list)
        BY <1>6, <1>7, <2>2, <3>3
      <4> QED
        BY <1>1, <3>3, <4>1 DEF CreatesOK
    <3> QED
      BY <1>1, <3>2, <3>3 DEF CreatesOK
  <2>8. WritersOK(r)
    <3>1. \A t \in Slot : Writes(r, t) => /\ Writes(st, t) /\ r.ft[t] = st.ft[t]
                                          /\ r.heap[r.ft[t].fd_inode] = st.heap[st.ft[t].fd_inode]
      BY <1>5, <1>6, <2>2 DEF Writes
    <3>2. st.unguarded \subseteq r.unguarded
      BY DEF FileClosed
    <3>3. ASSUME NEW t \in Slot, Writes(r, t)
          PROVE  \/ r.heap[r.ft[t].fd_inode].write_deny
                 \/ r.heap[r.ft[t].fd_inode].file \in r.unguarded
      BY <1>1, <3>1, <3>2, <3>3 DEF WritersOK
    <3>4. ASSUME NEW t \in Slot, NEW v \in Slot, Writes(r, t), Writes(r, v), t # v,
                 r.ft[t].fd_inode = r.ft[v].fd_inode
          PROVE  r.heap[r.ft[t].fd_inode].file \in r.unguarded
      BY <1>1, <3>1, <3>2, <3>4 DEF WritersOK
    <3>5. ASSUME NEW u \in Range(r.list), NEW v \in Range(r.list), u # v,
                 r.heap[u].file = r.heap[v].file
          PROVE  r.heap[u].file \in r.unguarded
      BY <1>1, <1>5, <1>7, <3>2, <3>5 DEF WritersOK
    <3> QED
      BY <3>3, <3>4, <3>5 DEF WritersOK
  <2> QED
    BY <2>4, <2>5, <2>6, <2>7, <2>8 DEF ObjectsOK
<1>8. CASE /\ r.heap[o].kind = "inode" /\ r.heap[o].file = st.heap[o].file
           /\ r.heap[o].i_open_cnts = st.heap[o].i_open_cnts - 1 /\ r.list = st.list
  <2>1. \A u \in Object : r.heap[u].kind = st.heap[u].kind /\ r.heap[u].file = st.heap[u].file
    BY <1>2, <1>5, <1>8
  <2>2. ListOK(r)
    BY <1>1, <1>8, <2>1 DEF ListOK
  <2>3. KindsOK(r)
    <3> SUFFICES ASSUME NEW t \in Slot, r.ft[t].fd_inode # NULL
                 PROVE  LET u == r.ft[t].fd_inode IN
                        IF r.ft[t].fd_flag = "pipe"
                        THEN r.heap[u].kind = "pipe" /\ SlotsOn(r.ft, u) = {t}
                        ELSE /\ r.heap[u].kind = "inode"
                             /\ r.ft[t].by # "create" => u \in Range(r.list)
      BY DEF KindsOK
    <3>1. /\ t # s /\ r.ft[t] = st.ft[t] /\ r.ft[t].fd_inode \in Object
          /\ r.heap[r.ft[t].fd_inode].kind = st.heap[st.ft[t].fd_inode].kind
          /\ SlotsOn(r.ft, r.ft[t].fd_inode) = SlotsOn(st.ft, st.ft[t].fd_inode) \ {s}
      BY <1>3, <1>6, <2>1
    <3> QED
      BY <1>1, <1>8, <3>1 DEF KindsOK
  <2>4. CountsOK(r)
    <3> SUFFICES ASSUME NEW u \in Object, r.heap[u].kind = "inode"
                 PROVE  Cardinality(SlotsOn(r.ft, u))
                           <= r.heap[u].i_open_cnts + (IF u \in Range(r.list) THEN 0 ELSE 1)
      BY DEF CountsOK
    <3>1. Cardinality(SlotsOn(st.ft, u))
             <= st.heap[u].i_open_cnts + (IF u \in Range(st.list) THEN 0 ELSE 1)
      BY <1>1, <2>1 DEF CountsOK
    <3>2. CASE u = o
      BY <1>4, <1>8, <3>1, <3>2
    <3>3. CASE u # o
      BY <1>5, <1>8, <3>1, <3>3
    <3> QED
      BY <3>2, <3>3
  <2>5. CreatesOK(r, pcs)
    <3>1. ASSUME NEW t \in Slot, r.ft[t].fd_inode # NULL, r.ft[t].by = "create",
                 r.ft[t].fd_inode \notin Range(r.list)
          PROVE  \E q \in Creators(pcs) : pcs[q].slot = t /\ pcs[q].inode = r.ft[t].fd_inode
      <4>1. r.ft[t] = st.ft[t]
        BY <1>6, <3>1
      <4> QED
        BY <1>1, <1>8, <3>1, <4>1 DEF CreatesOK
    <3> QED
      BY <1>1, <1>8, <2>1, <3>1 DEF CreatesOK
  <2>6. WritersOK(r)
    <3>1. \A t \in Slot : Writes(r, t) => /\ t # s /\ Writes(st, t) /\ r.ft[t] = st.ft[t]
                                          /\ r.ft[t].fd_inode \in Object
      BY <1>6 DEF Writes
    <3>2. st.unguarded \subseteq r.unguarded
      BY DEF FileClosed
    <3>3. ASSUME NEW t \in Slot, Writes(r, t)
          PROVE  \/ r.heap[r.ft[t].fd_inode].write_deny
                 \/ r.heap[r.ft[t].fd_inode].file \in r.unguarded
      <4>1. CASE r.ft[t].fd_inode = o
        BY <2>1, <3>1, <3>3, <4>1 DEF FileClosed
      <4>2. CASE r.ft[t].fd_inode # o
        <5>1. r.heap[r.ft[t].fd_inode] = st.heap[st.ft[t].fd_inode]
          BY <1>5, <3>1, <3>3, <4>2
        <5> QED
          BY <1>1, <3>1, <3>2, <3>3, <5>1 DEF WritersOK
      <4> QED
        BY <4>1, <4>2
    <3>4. ASSUME NEW t \in Slot, NEW v \in Slot, Writes(r, t), Writes(r, v), t # v,
                 r.ft[t].fd_inode = r.ft[v].fd_inode
          PROVE  r.heap[r.ft[t].fd_inode].file \in r.unguarded
      BY <1>1, <2>1, <3>1, <3>2, <3>4 DEF WritersOK
    <3>5. ASSUME NEW u \in Range(r.list), NEW v \in Range(r.list), u # v,
                 r.heap[u].file = r.heap[v].file
          PROVE  r.heap[u].file \in r.unguarded
      BY <1>1, <1>8, <2>1, <3>2, <3>5 DEF WritersOK
    <3> QED
      BY <3>3, <3>4, <3>5 DEF WritersOK
  <2> QED
    BY <2>2, <2>3, <2>4, <2>5, <2>6 DEF ObjectsOK
<1> QED
  BY <1>7, <1>8 DEF FileClosed

\* What closing a descriptor of p leaves: all but its entry is as in c.
Dropped(c, p, fd) == [c EXCEPT !.fds[p][fd] = NoSlot, !.meant[p][fd] = NULL]

LEMMA DroppedFields ==
    ASSUME NEW c \in State, NEW p \in Procs, NEW fd \in Fd, NEW r, r = Dropped(c, p, fd)
    PROVE  /\ r \in State
           /\ r.ft = c.ft /\ r.heap = c.heap /\ r.list = c.list /\ r.lost = c.lost
           /\ r.unguarded = c.unguarded /\ r.fault = c.fault /\ r.home = c.home
           /\ r.fds = [c.fds EXCEPT ![p][fd] = NoSlot]
           /\ r.meant = [c.meant EXCEPT ![p][fd] = NULL]
<1> DEFINE F == [c.fds EXCEPT ![p][fd] = NoSlot]
           M == [c.meant EXCEPT ![p][fd] = NULL]
<1>1. NoSlot \in 0..Slots /\ NULL \in 0..Objects
  BY FilesAssumption DEF NoSlot, NULL
<1>2. F \in [Procs -> [Fd -> 0..Slots]] /\ M \in [Procs -> [Fd -> 0..Objects]]
  BY <1>1 DEF State
<1>3. r = [c EXCEPT !.fds = F, !.meant = M]
  BY DEF Dropped, State
<1> HIDE DEF F, M
<1>4. r \in State
  BY <1>2, <1>3 DEF State
<1>5. /\ r.ft = c.ft /\ r.heap = c.heap /\ r.list = c.list /\ r.lost = c.lost
      /\ r.unguarded = c.unguarded /\ r.fault = c.fault /\ r.fds = F /\ r.meant = M
      /\ r.home = c.home
  BY <1>3 DEF State
<1> QED
  BY <1>4, <1>5 DEF F, M

\* file_close of a slot with an inode that list_remove can find.
LEMMA FileCloseFields ==
    ASSUME NEW st \in State, NEW s \in Slot, NEW o \in Object, st.ft[s].fd_inode = o,
           st.heap[o].kind = "inode", IsInjective(st.list),
           st.heap[o].i_open_cnts # 1 \/ o \in Range(st.list),
           NEW p,
           {o} \cup (IF st.heap[o].i_open_cnts = 1 THEN Beside(st.list, o) ELSE {})
              \subseteq InSpace(st, p),
           NEW r, r = file_close(st, p, s)
    PROVE  /\ r \in State /\ FileClosed(st, r, s, o)
           /\ r.fds = st.fds /\ r.meant = st.meant /\ r.lost = st.lost /\ r.fault = st.fault
<1> DEFINE others == {t \in Slot \ {s} : st.ft[t].fd_inode = o /\ st.ft[t].by = "write"}
           u == IF others = {} THEN st.unguarded ELSE st.unguarded \cup {st.heap[o].file}
           i == [st.heap[o] EXCEPT !.write_deny = FALSE]
           h == [st.heap EXCEPT ![o] = i]
           j == [i EXCEPT !.i_open_cnts = @ - 1]
           g == [st.heap EXCEPT ![o] = IF i.i_open_cnts = 1 THEN Free ELSE j]
           l == IF i.i_open_cnts = 1 THEN RemoveFirst(st.list, o) ELSE st.list
           m == IF i.i_open_cnts = 1 THEN [st.home EXCEPT ![o] = Kernel] ELSE st.home
           told == [st EXCEPT !.heap = h, !.unguarded = u]
           e == [st.ft[s] EXCEPT !.fd_inode = NULL]
           ft == [st.ft EXCEPT ![s] = e]
<1>1. /\ st.heap[o] \in Inode /\ o # NULL /\ st.list \in Seq(Object) /\ st.ft[s] \in OpenFile
      /\ st.unguarded \in SUBSET FileSet
  <2>1. st.heap[o] \in Inode
    BY InodeFields
  <2>2. st.list \in Seq(Object) /\ st.ft[s] \in OpenFile /\ st.unguarded \in SUBSET FileSet
    BY DEF State
  <2>3. o # NULL
    BY DEF Object, NULL
  <2> QED
    BY <2>1, <2>2, <2>3
<1>2. /\ i \in Inode /\ i.kind = "inode" /\ i.file = st.heap[o].file
      /\ i.i_open_cnts = st.heap[o].i_open_cnts
  BY <1>1 DEF Inode
<1>3. /\ j \in Inode /\ j.kind = "inode" /\ j.file = i.file /\ j.i_open_cnts = i.i_open_cnts - 1
  <2> HIDE DEF i
  <2> QED
    BY <1>2 DEF Inode
<1>4. e \in OpenFile /\ e.fd_inode = NULL /\ e.fd_flag = st.ft[s].fd_flag
  BY <1>1, FilesAssumption DEF OpenFile, NULL
<1>5. r = [inode_close(told, o) EXCEPT !.ft = SlotClosed(@, s)]
  <2>1. ~(st.heap[o].i_open_cnts = 1 /\ ~Contains(st.list, o))
    BY <1>1, RangeIndex DEF Contains
  <2>2. told = [st EXCEPT !.heap[o].write_deny = FALSE,
                          !.unguarded = IF others = {} THEN @ ELSE @ \cup {st.heap[o].file}]
    BY DEF State
  <2> HIDE DEF told, others
  <2> QED
    BY <1>1, <2>1, <2>2, Zenon DEF file_close, others
<1>6. ft = SlotClosed(st.ft, s)
  BY DEF SlotClosed, State
<1> HIDE DEF e, others
<1>7. u \in SUBSET FileSet /\ st.unguarded \subseteq u /\ (others # {} => st.heap[o].file \in u)
  BY <1>1 DEF Inode
<1>8. /\ h \in [Object -> {Free, PipeBuffer} \cup Inode] /\ h[o] = i
      /\ \A v \in Object \ {o} : h[v] = st.heap[v]
  <2> HIDE DEF i
  <2> QED
    BY <1>2, HeapSet
<1>9. inode_close(told, o) = [st EXCEPT !.heap = g, !.home = m, !.list = l, !.unguarded = u]
  <2> HIDE DEF i, u
  <2>1. told.heap = h /\ told.heap[o] = i /\ told.list = st.list /\ told.home = st.home
    BY <1>8 DEF State
  <2>2. CASE i.i_open_cnts = 1
    <3>1. [h EXCEPT ![o] = Free] = g
      BY <2>2 DEF State
    <3>2. inode_close(told, o) = [told EXCEPT !.heap = [h EXCEPT ![o] = Free], !.home = [st.home EXCEPT ![o] = Kernel],
                                               !.list = RemoveFirst(st.list, o)]
      BY <2>1, <2>2 DEF inode_close, State
    <3> HIDE DEF h, g
    <3> QED
      BY <2>2, <3>1, <3>2 DEF State
  <2>3. CASE i.i_open_cnts # 1
    <3>1. [h EXCEPT ![o] = j] = g
      <4> HIDE DEF j
      <4> QED
        BY <2>3 DEF State
    <3>2. inode_close(told, o) = [told EXCEPT !.heap = [h EXCEPT ![o] = j]]
      BY <2>1, <2>3 DEF inode_close, State
    <3> HIDE DEF h, g, j
    <3> QED
      BY <2>3, <3>1, <3>2 DEF State
  <2> QED
    BY <2>2, <2>3
<1> HIDE DEF i, h, j, u, told
<1>10. /\ g \in [Object -> {Free, PipeBuffer} \cup Inode]
       /\ g[o] = IF i.i_open_cnts = 1 THEN Free ELSE j
       /\ \A v \in Object \ {o} : g[v] = st.heap[v]
  BY <1>3, HeapSet
<1>11. /\ l \in Seq(Object)
       /\ i.i_open_cnts = 1 => IsInjective(l) /\ Range(l) = Range(st.list) \ {o}
       /\ i.i_open_cnts # 1 => l = st.list
  BY <1>1, ListRemove
<1>12. ft \in [Slot -> OpenFile] /\ ft[s] = e /\ \A t \in Slot \ {s} : ft[t] = st.ft[t]
  BY <1>4 DEF State
<1>17. m \in [Object -> Space] /\ \A v \in Object : m[v] \in {st.home[v], Kernel}
  BY DEF State, Space
<1> HIDE DEF g, l, ft, m
<1>13. r = [st EXCEPT !.heap = g, !.home = m, !.list = l, !.unguarded = u, !.ft = ft]
  BY <1>5, <1>6, <1>9 DEF State
<1>14. /\ r.heap = g /\ r.home = m /\ r.list = l /\ r.unguarded = u /\ r.ft = ft
       /\ r.fds = st.fds /\ r.meant = st.meant /\ r.lost = st.lost /\ r.fault = st.fault
  BY <1>13 DEF State
<1>15. r \in State
  BY <1>7, <1>10, <1>11, <1>12, <1>13, <1>17 DEF State
<1>16. FileClosed(st, r, s, o)
  <2>1. Emptied(st, r, s)
    BY <1>4, <1>12, <1>14 DEF Emptied
  <2>2. \A t \in Slot \ {s} : Writes(st, t) /\ st.ft[t].fd_inode = o => st.heap[o].file \in r.unguarded
    BY <1>7, <1>14 DEF Writes, others
  <2>3. \/ /\ st.heap[o].i_open_cnts = 1 /\ o \in Range(st.list)
           /\ r.heap[o] = Free /\ IsInjective(r.list) /\ Range(r.list) = Range(st.list) \ {o}
        \/ /\ r.heap[o].kind = "inode" /\ r.heap[o].file = st.heap[o].file
           /\ r.heap[o].i_open_cnts = st.heap[o].i_open_cnts - 1 /\ r.list = st.list
    BY <1>2, <1>3, <1>10, <1>11, <1>14
  <2>4. Returned(st, r)
    BY <1>14, <1>17 DEF Returned
  <2> QED
    BY <1>7, <1>10, <1>14, <2>1, <2>2, <2>3, <2>4 DEF FileClosed
<1> QED
  BY <1>14, <1>15, <1>16

\* The last close of a pipe frees its slot and its buffer.
PipeFreed(st, r, s, o) ==
    /\ Emptied(st, r, s) /\ r.home = st.home
    /\ \A u \in Object \ {o} : r.heap[u] = st.heap[u]
    /\ r.heap[o] = Free /\ r.list = st.list /\ r.unguarded = st.unguarded

LEMMA PipeFreedObjects ==
    ASSUME NEW st \in State, NEW r \in State, NEW s \in Slot, NEW o \in Object, NEW pcs,
           ObjectsOK(st, pcs), PipeFreed(st, r, s, o),
           st.ft[s].fd_inode = o, st.ft[s].fd_flag = "pipe"
    PROVE  ObjectsOK(r, pcs)
<1>1. /\ ListOK(st) /\ KindsOK(st) /\ CountsOK(st) /\ CreatesOK(st, pcs) /\ WritersOK(st)
      /\ Range(st.list) \subseteq Object /\ o # NULL
  BY RangeIndex DEF ObjectsOK, State, Object, NULL
<1>2. st.heap[o].kind = "pipe" /\ SlotsOn(st.ft, o) = {s} /\ r.heap[o].kind = "free"
  BY <1>1 DEF KindsOK, PipeFreed, Free
<1>3. r.list = st.list /\ Range(st.list) \subseteq Object \ {o} /\ r.unguarded = st.unguarded
  BY <1>1, <1>2 DEF ListOK, PipeFreed
<1>4. \A u \in Object \ {o} : SlotsOn(r.ft, u) = SlotsOn(st.ft, u) /\ r.heap[u] = st.heap[u]
  <2>1. \A u \in Object : SlotsOn(r.ft, u) = SlotsOn(st.ft, u) \ {s}
    BY EmptiedSlots DEF PipeFreed
  <2> QED
    BY <2>1 DEF SlotsOn, PipeFreed
<1>5. ASSUME NEW t \in Slot, r.ft[t].fd_inode # NULL
      PROVE  /\ t # s /\ r.ft[t] = st.ft[t] /\ r.ft[t].fd_inode \in Object \ {o}
             /\ r.heap[r.ft[t].fd_inode] = st.heap[st.ft[t].fd_inode]
             /\ SlotsOn(r.ft, r.ft[t].fd_inode) = SlotsOn(st.ft, st.ft[t].fd_inode)
  <2>1. t # s /\ r.ft[t] = st.ft[t] /\ r.ft[t].fd_inode \in Object
    BY <1>5 DEF PipeFreed, Emptied, State, OpenFile, Object, NULL
  <2>2. r.ft[t].fd_inode # o
    BY <1>2, <2>1 DEF SlotsOn
  <2> QED
    BY <1>4, <2>1, <2>2
<1>6. ListOK(r)
  BY <1>1, <1>3, <1>4 DEF ListOK
<1>7. KindsOK(r)
  <2> SUFFICES ASSUME NEW t \in Slot, r.ft[t].fd_inode # NULL
               PROVE  LET u == r.ft[t].fd_inode IN
                      IF r.ft[t].fd_flag = "pipe"
                      THEN r.heap[u].kind = "pipe" /\ SlotsOn(r.ft, u) = {t}
                      ELSE /\ r.heap[u].kind = "inode"
                           /\ r.ft[t].by # "create" => u \in Range(r.list)
    BY DEF KindsOK
  <2> QED
    BY <1>1, <1>3, <1>5 DEF KindsOK
<1>8. CountsOK(r)
  BY <1>1, <1>2, <1>3, <1>4 DEF CountsOK
<1>9. CreatesOK(r, pcs)
  <2>1. \A q \in Creators(pcs) : pcs[q].inode \in Object \ {o}
    BY <1>1, <1>2 DEF CreatesOK
  <2>2. ASSUME NEW q \in Creators(pcs)
        PROVE  /\ pcs[q].inode \in Object /\ pcs[q].inode \notin Range(r.list)
               /\ r.heap[pcs[q].inode].kind = "inode" /\ r.heap[pcs[q].inode].file = pcs[q].file
    BY <1>1, <1>3, <1>4, <2>1 DEF CreatesOK
  <2>3. ASSUME NEW t \in Slot, r.ft[t].fd_inode # NULL, r.ft[t].by = "create",
               r.ft[t].fd_inode \notin Range(r.list)
        PROVE  \E q \in Creators(pcs) : pcs[q].slot = t /\ pcs[q].inode = r.ft[t].fd_inode
    <3>1. r.ft[t] = st.ft[t]
      BY <1>5, <2>3
    <3> QED
      BY <1>1, <1>3, <2>3, <3>1 DEF CreatesOK
  <2> QED
    BY <1>1, <2>2, <2>3 DEF CreatesOK
<1>10. WritersOK(r)
  <2>1. \A t \in Slot : Writes(r, t) => /\ Writes(st, t) /\ r.ft[t] = st.ft[t]
                                        /\ r.heap[r.ft[t].fd_inode] = st.heap[st.ft[t].fd_inode]
    BY <1>5 DEF Writes
  <2>2. ASSUME NEW t \in Slot, Writes(r, t)
        PROVE  \/ r.heap[r.ft[t].fd_inode].write_deny
               \/ r.heap[r.ft[t].fd_inode].file \in r.unguarded
    BY <1>1, <1>3, <2>1, <2>2 DEF WritersOK
  <2>3. ASSUME NEW t \in Slot, NEW v \in Slot, Writes(r, t), Writes(r, v), t # v,
               r.ft[t].fd_inode = r.ft[v].fd_inode
        PROVE  r.heap[r.ft[t].fd_inode].file \in r.unguarded
    BY <1>1, <1>3, <2>1, <2>3 DEF WritersOK
  <2>4. ASSUME NEW u \in Range(r.list), NEW v \in Range(r.list), u # v,
               r.heap[u].file = r.heap[v].file
        PROVE  r.heap[u].file \in r.unguarded
    BY <1>1, <1>3, <1>4, <2>4 DEF WritersOK
  <2> QED
    BY <2>2, <2>3, <2>4 DEF WritersOK
<1> QED
  BY <1>6, <1>7, <1>8, <1>9, <1>10 DEF ObjectsOK

\* The objects when only the count of a pipe's descriptors changes.
LEMMA ObjectsFrame ==
    ASSUME NEW st, NEW r, NEW pcs, ObjectsOK(st, pcs),
           r.heap = st.heap, r.list = st.list, r.unguarded = st.unguarded,
           \A t \in Slot : /\ r.ft[t].fd_inode = st.ft[t].fd_inode
                           /\ r.ft[t].fd_flag = st.ft[t].fd_flag /\ r.ft[t].by = st.ft[t].by
    PROVE  ObjectsOK(r, pcs)
<1>1. \A o : SlotsOn(r.ft, o) = SlotsOn(st.ft, o)
  BY DEF SlotsOn
<1>2. ListOK(r)
  BY DEF ObjectsOK, ListOK
<1>3. KindsOK(r)
  BY <1>1 DEF ObjectsOK, KindsOK
<1>4. CountsOK(r)
  BY <1>1 DEF ObjectsOK, CountsOK
<1>5. CreatesOK(r, pcs)
  BY DEF ObjectsOK, CreatesOK
<1>6. WritersOK(r)
  <2>1. \A t \in Slot : Writes(r, t) <=> Writes(st, t)
    BY DEF Writes
  <2> QED
    BY <2>1 DEF ObjectsOK, WritersOK
<1> QED
  BY <1>2, <1>3, <1>4, <1>5, <1>6 DEF ObjectsOK

\* A slot when its count is set, and the rest of the record.
LEMMA CountSet ==
    ASSUME NEW st \in State, NEW s \in Slot, NEW n \in Int, NEW r, r = [st EXCEPT !.ft[s].fd_pos = n]
    PROVE  /\ r \in State
           /\ r.heap = st.heap /\ r.list = st.list /\ r.unguarded = st.unguarded
           /\ r.fds = st.fds /\ r.meant = st.meant /\ r.lost = st.lost /\ r.fault = st.fault
           /\ \A t \in Slot \ {s} : r.ft[t] = st.ft[t]
           /\ r.ft[s].fd_inode = st.ft[s].fd_inode /\ r.ft[s].fd_flag = st.ft[s].fd_flag
           /\ r.ft[s].by = st.ft[s].by /\ r.ft[s].fd_pos = n /\ r.home = st.home
<1> DEFINE e == [st.ft[s] EXCEPT !.fd_pos = n]
           ft == [st.ft EXCEPT ![s] = e]
<1>1. st.ft \in [Slot -> OpenFile] /\ st.ft[s] \in OpenFile
  BY DEF State
<1>2. /\ e \in OpenFile /\ e.fd_inode = st.ft[s].fd_inode /\ e.fd_flag = st.ft[s].fd_flag
      /\ e.fd_pos = n /\ e.by = st.ft[s].by
  BY <1>1 DEF OpenFile
<1>3. r = [st EXCEPT !.ft = ft]
  BY DEF State
<1> HIDE DEF e
<1>4. ft \in [Slot -> OpenFile] /\ ft[s] = e /\ \A t \in Slot \ {s} : ft[t] = st.ft[t]
  BY <1>1, <1>2
<1> HIDE DEF ft
<1>5. r \in State
  BY <1>3, <1>4 DEF State
<1>6. /\ r.heap = st.heap /\ r.list = st.list /\ r.unguarded = st.unguarded
      /\ r.fds = st.fds /\ r.meant = st.meant /\ r.lost = st.lost /\ r.fault = st.fault
      /\ r.ft = ft /\ r.home = st.home
  BY <1>3 DEF State
<1> QED
  BY <1>2, <1>4, <1>5, <1>6

\* Both ways to close a pipe.
LEMMA PipeCloseFields ==
    ASSUME NEW st \in State, NEW s \in Slot, NEW r, r = pipe_close(st, s),
           st.ft[s].fd_pos # 1 \/ st.ft[s].fd_inode # NULL
    PROVE  /\ r \in State
           /\ r.fds = st.fds /\ r.meant = st.meant /\ r.lost = st.lost /\ r.fault = st.fault
           /\ r.home = st.home
           /\ st.ft[s].fd_pos = 1 => PipeFreed(st, r, s, st.ft[s].fd_inode)
           /\ st.ft[s].fd_pos # 1 =>
                 /\ r.heap = st.heap /\ r.list = st.list /\ r.unguarded = st.unguarded
                 /\ \A t \in Slot \ {s} : r.ft[t] = st.ft[t]
                 /\ r.ft[s].fd_inode = st.ft[s].fd_inode /\ r.ft[s].fd_flag = st.ft[s].fd_flag
                 /\ r.ft[s].by = st.ft[s].by /\ r.ft[s].fd_pos = st.ft[s].fd_pos - 1
<1>1. st.ft \in [Slot -> OpenFile] /\ st.ft[s] \in OpenFile
  BY DEF State
<1>2. CASE st.ft[s].fd_pos # 1
  <2>1. r = [st EXCEPT !.ft[s].fd_pos = st.ft[s].fd_pos - 1]
    BY <1>2 DEF pipe_close, LastOfPipe, State
  <2>2. st.ft[s].fd_pos - 1 \in Int
    BY <1>1 DEF OpenFile
  <2> QED
    BY <1>2, <2>1, <2>2, CountSet
<1>3. CASE st.ft[s].fd_pos = 1
  <2> DEFINE o == st.ft[s].fd_inode
             e == [fd_inode |-> NULL, fd_flag |-> st.ft[s].fd_flag, by |-> st.ft[s].by,
                   fd_pos |-> 0]
             ft == [st.ft EXCEPT ![s] = e]
             h == [st.heap EXCEPT ![o] = Free]
  <2>1. e \in OpenFile /\ e.fd_inode = NULL /\ e.fd_flag = st.ft[s].fd_flag
    BY <1>1, FilesAssumption DEF OpenFile, NULL
  <2>2. o \in Object
    BY <1>1, <1>3 DEF OpenFile, Object, NULL
  <2>3. r = [st EXCEPT !.heap = h, !.ft = ft]
    <3>1. r = [st EXCEPT !.heap[o] = Free, !.ft[s].fd_inode = NULL, !.ft[s].fd_pos = 0]
      BY <1>3 DEF pipe_close, LastOfPipe
    <3>2. [[st.ft EXCEPT ![s].fd_inode = NULL] EXCEPT ![s].fd_pos = 0] = ft
      BY <1>1 DEF OpenFile
    <3> HIDE DEF o
    <3> QED
      BY <3>1, <3>2 DEF State
  <2> HIDE DEF e, o
  <2>4. ft \in [Slot -> OpenFile] /\ ft[s] = e /\ \A t \in Slot \ {s} : ft[t] = st.ft[t]
    BY <1>1, <2>1
  <2>5. /\ h \in [Object -> {Free, PipeBuffer} \cup Inode] /\ h[o] = Free
        /\ \A v \in Object \ {o} : h[v] = st.heap[v]
    BY <2>2, HeapSet
  <2> HIDE DEF ft, h
  <2>6. r \in State
    BY <2>3, <2>4, <2>5 DEF State
  <2>7. /\ r.fds = st.fds /\ r.meant = st.meant /\ r.lost = st.lost /\ r.fault = st.fault
        /\ r.ft = ft /\ r.heap = h /\ r.home = st.home /\ r.list = st.list /\ r.unguarded = st.unguarded
    BY <2>3 DEF State
  <2>8. PipeFreed(st, r, s, o)
    BY <2>1, <2>4, <2>5, <2>7 DEF PipeFreed, Emptied
  <2> QED
    BY <1>3, <2>6, <2>7, <2>8 DEF o
<1> QED
  BY <1>2, <1>3

\* A descriptor that is closed through NULL is on a slot that is shared.
LEMMA StrayClose ==
    ASSUME NEW st, NEW pcs, NEW sh, StateOK(st, pcs, sh), NEW p \in Procs, NEW fd \in Fd,
           NEW s \in Slot, st.fds[p][fd] = s, s \notin sh
    PROVE  LET o == st.ft[s].fd_inode IN
           /\ o \in Object /\ Waiters(pcs, s) = {}
           /\ st.ft[s].fd_flag # "pipe" => o \in Range(st.list)
<1> DEFINE o == st.ft[s].fd_inode
           D == Descs(st.fds, s)
<1>1. /\ st \in State /\ KindsOK(st) /\ CreatesOK(st, pcs) /\ MeantOK(st) /\ AloneOK(st, pcs, s)
  BY DEF StateOK, ObjectsOK, SlotOK
<1>2. <<p, fd>> \in D
  BY DEF Descs
<1>3. Waiters(pcs, s) = {} /\ st.meant[p][fd] = o
  <2>1. \A q \in Waiters(pcs, s) : D = {}
    BY <1>1 DEF AloneOK
  <2>2. st.meant[<<p, fd>>[1]][<<p, fd>>[2]] = o
    BY <1>1, <1>2, Zenon DEF AloneOK
  <2> QED
    BY <1>2, <2>1, <2>2
<1>4. o # NULL /\ o \in Object
  <2>1. s # NoSlot
    BY DEF Slot, NoSlot
  <2>2. o # NULL
    BY <1>1, <1>3, <2>1 DEF MeantOK
  <2> QED
    BY <1>1, <2>2 DEF State, OpenFile, Object, NULL
<1>5. ASSUME st.ft[s].fd_flag # "pipe", o \notin Range(st.list) PROVE FALSE
  <2>1. st.ft[s].by = "create"
    BY <1>1, <1>4, <1>5 DEF KindsOK
  <2>2. PICK q \in Creators(pcs) : pcs[q].slot = s
    BY <1>1, <1>4, <1>5, <2>1 DEF CreatesOK
  <2>3. q \in Waiters(pcs, s)
    BY <2>2 DEF Creators, Waiters
  <2> QED
    BY <1>3, <2>3
<1> QED
  BY <1>3, <1>4, <1>5

LEMMA FaultFields ==
    ASSUME NEW st \in State, NEW s \in Slot, NEW r, r = [st EXCEPT !.fault = s]
    PROVE  /\ r \in State
           /\ r.ft = st.ft /\ r.fds = st.fds /\ r.heap = st.heap /\ r.list = st.list
           /\ r.meant = st.meant /\ r.lost = st.lost /\ r.unguarded = st.unguarded /\ r.fault = s
           /\ r.home = st.home
<1>1. s \in 0..Astray
  BY FilesAssumption DEF Slot, Astray
<1>2. r \in State
  BY <1>1 DEF State
<1> QED
  BY <1>2 DEF State

\* An access through NULL stops the machine, and changes nothing else.
LEMMA FaultStep ==
    ASSUME NEW st, NEW pcs, NEW sh, StateOK(st, pcs, sh), NEW s \in sh, s \in Slot,
           Descs(st.fds, s) # {}, NEW r, r = [st EXCEPT !.fault = s]
    PROVE  StateOK(r, pcs, sh)
<1>1. /\ r \in State
      /\ r.ft = st.ft /\ r.fds = st.fds /\ r.heap = st.heap /\ r.list = st.list
      /\ r.meant = st.meant /\ r.lost = st.lost /\ r.unguarded = st.unguarded /\ r.fault = s
           /\ r.home = st.home
  BY FaultFields DEF StateOK
<1>2. ObjectsOK(r, pcs)
  BY <1>1, ObjectsFrame DEF StateOK
<1>3. MeantOK(r)
  BY <1>1 DEF StateOK, MeantOK
<1>4. FaultOK(r, sh)
  BY <1>1, DescsFinite DEF FaultOK
<1>5. ASSUME NEW t \in Slot PROVE SlotOK(r, pcs, sh, t)
  <2>1. SlotOK(st, pcs, sh, t) /\ SameHome(st, r, t)
    BY <1>1 DEF StateOK, SameHome
  <2> QED
    BY <1>1, <2>1, SlotFrame
<1> QED
  BY <1>1, <1>2, <1>3, <1>4, <1>5 DEF StateOK

\* One descriptor of p is free.
FreedFd(st, r, p, fd) ==
    /\ r.fds = [st.fds EXCEPT ![p][fd] = NoSlot]
    /\ r.meant = [st.meant EXCEPT ![p][fd] = NULL]

\* The slot that is closed loses a descriptor, and no other does.
LEMMA DroppedOthers ==
    ASSUME NEW st \in State, NEW r, NEW p \in Procs, NEW fd \in Fd, NEW s \in Slot,
           st.fds[p][fd] = s, MeantOK(st), FreedFd(st, r, p, fd)
    PROVE  /\ MeantOK(r)
           /\ Descs(r.fds, s) = Descs(st.fds, s) \ {<<p, fd>>} /\ <<p, fd>> \in Descs(st.fds, s)
           /\ \A x \in Descs(r.fds, s) : r.meant[x[1]][x[2]] = st.meant[x[1]][x[2]]
           /\ \A t \in Slot \ {s} :
                 /\ Descs(r.fds, t) = Descs(st.fds, t)
                 /\ \A x \in Descs(st.fds, t) : r.meant[x[1]][x[2]] = st.meant[x[1]][x[2]]
<1>1. /\ st.fds \in FdTables /\ NoSlot \in 0..Slots /\ NoSlot \notin Slot
      /\ st.meant \in [Procs -> [Fd -> 0..Objects]]
  BY FilesAssumption DEF State, FdTables, Slot, NoSlot
<1>2. \A t \in Slot : Descs(r.fds, t) = Descs(st.fds, t) \ {<<p, fd>>}
  BY <1>1, DescsSet DEF FreedFd
<1>3. <<p, fd>> \in Procs \X Fd /\ <<p, fd>>[1] = p /\ <<p, fd>>[2] = fd
  OBVIOUS
<1>4. \A t \in Slot : <<p, fd>> \in Descs(st.fds, t) <=> t = s
  BY <1>3 DEF Descs
<1>5. \A q \in Procs, n \in Fd :
         /\ r.fds[q][n] = IF q = p /\ n = fd THEN NoSlot ELSE st.fds[q][n]
         /\ r.meant[q][n] = IF q = p /\ n = fd THEN NULL ELSE st.meant[q][n]
  BY <1>1 DEF FdTables, FreedFd
<1>6. MeantOK(r)
  BY <1>5 DEF MeantOK
<1>7. ASSUME NEW x \in Procs \X Fd, x # <<p, fd>>
      PROVE  r.meant[x[1]][x[2]] = st.meant[x[1]][x[2]]
  <2>1. x[1] \in Procs /\ x[2] \in Fd /\ ~(x[1] = p /\ x[2] = fd)
    BY <1>7
  <2> QED
    BY <1>5, <2>1
<1>8. \A t : Descs(r.fds, t) \subseteq Procs \X Fd /\ Descs(st.fds, t) \subseteq Procs \X Fd
  BY DEF Descs
<1>9. \A x \in Descs(r.fds, s) : r.meant[x[1]][x[2]] = st.meant[x[1]][x[2]]
  BY <1>2, <1>7, <1>8
<1>10. ASSUME NEW t \in Slot \ {s}
       PROVE  /\ Descs(r.fds, t) = Descs(st.fds, t)
              /\ \A x \in Descs(st.fds, t) : r.meant[x[1]][x[2]] = st.meant[x[1]][x[2]]
  <2>1. <<p, fd>> \notin Descs(st.fds, t)
    BY <1>4
  <2>2. Descs(r.fds, t) = Descs(st.fds, t)
    BY <1>2, <2>1
  <2> QED
    BY <1>7, <1>8, <2>1, <2>2
<1> QED
  BY <1>2, <1>4, <1>6, <1>9, <1>10

(***************************************************************************)
(* The slot of the descriptor that is closed: freed with its only          *)
(* descriptor or, a pipe's, with the last it counts.                       *)
(***************************************************************************)
LEMMA DroppedSlot ==
    ASSUME NEW st, NEW r, NEW pcs, NEW sh, NEW s \in Slot, NEW x,
           st \in State, SlotOK(st, pcs, sh, s), x \in Descs(st.fds, s),
           Descs(r.fds, s) = Descs(st.fds, s) \ {x},
           \A y \in Descs(r.fds, s) : r.meant[y[1]][y[2]] = st.meant[y[1]][y[2]],
           r.lost = st.lost,
           \/ /\ r.ft[s].fd_inode = NULL
              /\ st.ft[s].fd_flag = "pipe" => st.ft[s].fd_pos = 1
           \/ /\ r.ft[s].fd_inode = st.ft[s].fd_inode
              /\ st.ft[s].fd_flag = "pipe" /\ st.ft[s].fd_pos # 1 /\ r.ft[s].fd_flag = "pipe"
              /\ r.ft[s].fd_pos = st.ft[s].fd_pos - 1
    PROVE  SlotOK(r, pcs, sh, s)
<1> DEFINE D == Descs(st.fds, s)
           E == Descs(r.fds, s)
<1>1. HeldOK(st, pcs, s) /\ (s \notin sh => AloneOK(st, pcs, s)) /\ st.ft[s].fd_pos \in Int
  BY DEF SlotOK, State, OpenFile
<1>2. /\ IsFiniteSet(D) /\ Cardinality(D) \in Nat
      /\ Cardinality(E) \in Nat /\ (Cardinality(E) = 0 <=> E = {})
  BY DescsFinite
<1>3. Cardinality(E) = Cardinality(D) - 1
  <2>1. Cardinality(D \ {x}) = Cardinality(D) - 1
    BY <1>2, FS_RemoveElement
  <2> QED
    BY <2>1
<1> HIDE DEF D, E
<1>4. s \notin sh => Waiters(pcs, s) = {}
  BY <1>1 DEF AloneOK, D
<1>5. CASE /\ r.ft[s].fd_inode = NULL
           /\ st.ft[s].fd_flag = "pipe" => st.ft[s].fd_pos = 1
  <2>1. HeldOK(r, pcs, s)
    BY <1>5 DEF HeldOK
  <2>2. ASSUME s \notin sh PROVE E = {}
    <3>1. CASE st.ft[s].fd_flag = "pipe"
      <4>1. Cardinality(D) <= 1
        BY <1>1, <1>5, <2>2, <3>1 DEF AloneOK, D
      <4> QED
        BY <1>2, <1>3, <4>1
    <3>2. CASE st.ft[s].fd_flag # "pipe"
      <4>1. \A y \in D : x = y
        BY <1>1, <2>2, <3>2 DEF AloneOK, D
      <4> QED
        BY <4>1 DEF D, E
    <3> QED
      BY <3>1, <3>2
  <2>3. ASSUME s \notin sh PROVE AloneOK(r, pcs, s)
    BY <1>4, <2>2, <2>3 DEF AloneOK, E
  <2> QED
    BY <2>1, <2>3 DEF SlotOK
<1>6. CASE /\ r.ft[s].fd_inode = st.ft[s].fd_inode
           /\ st.ft[s].fd_flag = "pipe" /\ st.ft[s].fd_pos # 1 /\ r.ft[s].fd_flag = "pipe"
           /\ r.ft[s].fd_pos = st.ft[s].fd_pos - 1
  <2>1. HeldOK(r, pcs, s)
    <3>1. ASSUME r.ft[s].fd_inode # NULL
          PROVE  /\ r.ft[s].fd_pos >= 1
                 /\ s \in r.lost \/ r.ft[s].fd_pos <= Cardinality(E)
      <4>1. /\ st.ft[s].fd_pos >= 1
            /\ s \in st.lost \/ st.ft[s].fd_pos <= Cardinality(D)
        BY <1>1, <1>6, <3>1 DEF HeldOK, D
      <4> QED
        BY <1>1, <1>2, <1>3, <1>6, <4>1
    <3>2. r.ft[s].fd_inode # NULL => E # {} \/ s \in r.lost
      BY <1>1, <1>2, <1>6, <3>1
    <3> QED
      BY <3>1, <3>2 DEF HeldOK, E
  <2>2. ASSUME s \notin sh PROVE AloneOK(r, pcs, s)
    <3>1. Cardinality(D) <= st.ft[s].fd_pos
      BY <1>1, <1>6, <2>2 DEF AloneOK, D
    <3>2. \A y \in E : r.meant[y[1]][y[2]] = r.ft[s].fd_inode
      BY <1>1, <1>6, <2>2 DEF AloneOK, D, E
    <3>3. Cardinality(E) <= r.ft[s].fd_pos
      BY <1>1, <1>2, <1>3, <1>6, <3>1
    <3> QED
      BY <1>4, <1>6, <2>2, <3>2, <3>3 DEF AloneOK, AtHome, E
  <2> QED
    BY <2>1, <2>2 DEF SlotOK
<1> QED
  BY <1>5, <1>6

\* The inodes that list_remove sets are in the list.
LEMMA BesideObjects ==
    ASSUME NEW l \in Seq(Object), NEW o
    PROVE  Beside(l, o) \subseteq Object
<1>1. DOMAIN l = 1..Len(l)
  BY LenProperties
<1> QED
  BY <1>1, ElementOfSeq DEF Beside

\* A close keeps the invariant, and the descriptor is free unless there was a fault.
LEMMA ClosedOK ==
    ASSUME NEW st, NEW pcs, NEW sh, StateOK(st, pcs, sh), NEW p \in Procs, NEW fd \in Fd,
           NEW r, r = Closed(st, p, fd)
    PROVE  /\ StateOK(r, pcs, sh)
           /\ r.fault = NoSlot => /\ st.fault = NoSlot
                                  /\ r.fds = [st.fds EXCEPT ![p][fd] = NoSlot]
<1> DEFINE s == st.fds[p][fd]
           o == st.ft[s].fd_inode
           pipe == st.ft[s].fd_flag = "pipe"
           set == {o} \cup (IF st.heap[o].i_open_cnts = 1 THEN Beside(st.list, o) ELSE {})
           there == set \subseteq InSpace(st, p)
           c == IF pipe THEN pipe_close(st, s) ELSE file_close(st, p, s)
<1>1. /\ st \in State /\ pcs \in [Procs -> Place] /\ ObjectsOK(st, pcs) /\ MeantOK(st)
      /\ FaultOK(st, sh) /\ \A t \in Slot : SlotOK(st, pcs, sh, t)
  BY DEF StateOK
<1>2. CASE s = NoSlot \/ st.fault # NoSlot
  <2>1. r = st
    BY <1>2, Zenon DEF Closed
  <2>2. s = NoSlot => st.fds = [st.fds EXCEPT ![p][fd] = NoSlot]
    BY <1>1 DEF State
  <2> QED
    BY <1>2, <2>1, <2>2
<1>3. CASE s # NoSlot /\ st.fault = NoSlot
  <2>1. s \in Slot /\ s # NoSlot
    BY <1>1, <1>3 DEF State, Slot, NoSlot
  <2>2. r = IF c.fault # NoSlot THEN c ELSE Dropped(c, p, fd)
    BY <1>3, Zenon DEF Closed, Dropped
  <2>3. <<p, fd>> \in Descs(st.fds, s)
    BY DEF Descs
  <2>4. \A q \in {o} : s \notin sh => q \in Object /\ (~pipe => q \in Range(st.list))
    BY <2>1, StrayClose
  <2>8. /\ st.list \in Seq(Object)
        /\ o # NULL => o \in Object
    BY <1>1, <2>1 DEF State, OpenFile, Object, NULL
  <2> DEFINE stray == IF pipe THEN st.ft[s].fd_pos = 1 /\ o = NULL
                      ELSE \/ o = NULL
                           \/ there /\ st.heap[o].i_open_cnts = 1 /\ ~Contains(st.list, o)
  <2>5. CASE stray
    <3>1. c = [st EXCEPT !.fault = s]
      BY <2>5, Zenon DEF pipe_close, LastOfPipe, file_close
    <3>2. s \in sh
      <4>1. st.list \in Seq(Object) /\ NULL \notin Object
        BY <1>1 DEF State, Object, NULL
      <4>2. ASSUME o \in Range(st.list) PROVE Contains(st.list, o)
        BY <4>1, <4>2, RangeIndex DEF Contains
      <4> QED
        BY <2>4, <2>5, <4>1, <4>2
    <3>3. c.fault = s
      BY <1>1, <2>1, <3>1, FaultFields
    <3> HIDE DEF c
    <3>4. r = [st EXCEPT !.fault = s]
      BY <2>1, <2>2, <3>1, <3>3
    <3>5. StateOK(r, pcs, sh)
      <4> HIDE DEF s
      <4> QED
        BY <2>1, <2>3, <3>2, <3>4, FaultStep
    <3>6. r.fault = s
      BY <3>3, <2>2, <2>1
    <3> QED
      BY <2>1, <3>5, <3>6
  <2>7. CASE ~pipe /\ o # NULL /\ ~there
    <3>1. c = Strayed(st)
      BY <2>7, Zenon DEF file_close
    <3>2. set \in SUBSET Object
      <4>1. o \in Object /\ st.list \in Seq(Object)
        BY <2>7, <2>8
      <4>2. Beside(st.list, o) \subseteq Object
        <5> HIDE DEF o
        <5> QED
          BY <4>1, BesideObjects
      <4> QED
        BY <4>1, <4>2
    <3>3. \E u \in Object : st.home[u] # Kernel
      <4> HIDE DEF set
      <4> QED
        BY <2>7, <3>2, NotThere
    <3>4. StateOK(Strayed(st), pcs, sh) /\ Strayed(st).fault # NoSlot
      BY <3>3, StrayOK
    <3> HIDE DEF c
    <3> QED
      BY <2>2, <3>1, <3>4
  <2>6. CASE ~stray /\ (pipe \/ there)
    <3>1. /\ c \in State
          /\ c.fds = st.fds /\ c.meant = st.meant /\ c.lost = st.lost /\ c.fault = st.fault
          /\ \/ ~pipe /\ o \in Object /\ FileClosed(st, c, s, o)
             \/ pipe /\ o \in Object /\ st.ft[s].fd_pos = 1 /\ PipeFreed(st, c, s, o)
             \/ /\ pipe /\ st.ft[s].fd_pos # 1
                /\ c.heap = st.heap /\ c.list = st.list /\ c.unguarded = st.unguarded
                /\ c.home = st.home
                /\ \A t \in Slot \ {s} : c.ft[t] = st.ft[t]
                /\ c.ft[s].fd_inode = st.ft[s].fd_inode /\ c.ft[s].fd_flag = st.ft[s].fd_flag
                /\ c.ft[s].by = st.ft[s].by /\ c.ft[s].fd_pos = st.ft[s].fd_pos - 1
      <4>1. o # NULL => o \in Object
        BY <1>1, <2>1 DEF State, OpenFile, Object, NULL
      <4>2. CASE pipe
        <5>1. c = pipe_close(st, s) /\ (st.ft[s].fd_pos # 1 \/ o # NULL)
          BY <2>6, <4>2
        <5> HIDE DEF c, s
        <5>2. /\ c \in State
              /\ c.fds = st.fds /\ c.meant = st.meant /\ c.lost = st.lost /\ c.fault = st.fault
              /\ st.ft[s].fd_pos = 1 => PipeFreed(st, c, s, st.ft[s].fd_inode)
              /\ st.ft[s].fd_pos # 1 =>
                    /\ c.heap = st.heap /\ c.list = st.list /\ c.unguarded = st.unguarded
                    /\ c.home = st.home
                    /\ \A t \in Slot \ {s} : c.ft[t] = st.ft[t]
                    /\ c.ft[s].fd_inode = st.ft[s].fd_inode /\ c.ft[s].fd_flag = st.ft[s].fd_flag
                    /\ c.ft[s].by = st.ft[s].by /\ c.ft[s].fd_pos = st.ft[s].fd_pos - 1
          BY <1>1, <2>1, <5>1, PipeCloseFields
        <5> QED
          BY <4>1, <4>2, <5>1, <5>2
      <4>3. CASE ~pipe
        <5>1. c = file_close(st, p, s) /\ o \in Object /\ set \subseteq InSpace(st, p)
          BY <2>6, <4>1, <4>3
        <5>2. st.heap[o].kind = "inode" /\ IsInjective(st.list)
          <6>1. KindsOK(st) /\ IsInjective(st.list)
            BY <1>1 DEF ObjectsOK, ListOK
          <6>2. o # NULL
            BY <2>6, <4>3
          <6> QED
            BY <2>1, <4>3, <6>1, <6>2, Zenon DEF KindsOK
        <5>3. st.heap[o].i_open_cnts # 1 \/ o \in Range(st.list)
          <6>1. st.list \in Seq(Object)
            BY <1>1 DEF State
          <6> QED
            BY <2>6, <4>3, <6>1, RangeIndex DEF Contains
        <5>4. st.ft[s].fd_inode = o
          OBVIOUS
        <5>6. {o} \cup (IF st.heap[o].i_open_cnts = 1 THEN Beside(st.list, o) ELSE {})
                 \subseteq InSpace(st, p)
          BY <5>1
        <5> HIDE DEF c, s, o, set, there
        <5>5. /\ c \in State /\ FileClosed(st, c, s, o)
              /\ c.fds = st.fds /\ c.meant = st.meant /\ c.lost = st.lost /\ c.fault = st.fault
          BY <1>1, <2>1, <5>1, <5>2, <5>3, <5>4, <5>6, FileCloseFields
        <5> QED
          BY <4>3, <5>1, <5>5
      <4> HIDE DEF c, s, o, pipe, set, there
      <4> QED
        BY <4>2, <4>3
    <3> HIDE DEF c
    <3>2. r = Dropped(c, p, fd)
      BY <1>3, <2>2, <3>1
    <3>3. /\ r \in State
          /\ r.ft = c.ft /\ r.heap = c.heap /\ r.list = c.list /\ r.lost = st.lost
          /\ r.unguarded = c.unguarded /\ r.fault = NoSlot /\ r.home = c.home
          /\ r.fds = [st.fds EXCEPT ![p][fd] = NoSlot]
          /\ r.meant = [st.meant EXCEPT ![p][fd] = NULL]
      <4>1. /\ c \in State /\ c.fds = st.fds /\ c.meant = st.meant /\ c.lost = st.lost
            /\ c.fault = NoSlot
        BY <1>3, <3>1
      <4> HIDE DEF s, o, pipe, set, there
      <4>2. /\ r \in State
            /\ r.ft = c.ft /\ r.heap = c.heap /\ r.list = c.list /\ r.lost = c.lost
            /\ r.unguarded = c.unguarded /\ r.fault = c.fault /\ r.home = c.home
            /\ r.fds = [c.fds EXCEPT ![p][fd] = NoSlot]
            /\ r.meant = [c.meant EXCEPT ![p][fd] = NULL]
        BY <3>2, <4>1, DroppedFields
      <4> QED
        BY <4>1, <4>2
    <3>4. st.fds[p][fd] = s /\ st.ft[s].fd_inode = o /\ (pipe <=> st.ft[s].fd_flag = "pipe")
      OBVIOUS
    <3> HIDE DEF s, o, pipe, set, there
    <3>5. /\ MeantOK(r)
          /\ Descs(r.fds, s) = Descs(st.fds, s) \ {<<p, fd>>} /\ <<p, fd>> \in Descs(st.fds, s)
          /\ \A x \in Descs(r.fds, s) : r.meant[x[1]][x[2]] = st.meant[x[1]][x[2]]
          /\ \A t \in Slot \ {s} :
                /\ Descs(r.fds, t) = Descs(st.fds, t)
                /\ \A x \in Descs(st.fds, t) : r.meant[x[1]][x[2]] = st.meant[x[1]][x[2]]
      <4>1. FreedFd(st, r, p, fd)
        BY <3>3 DEF FreedFd
      <4> QED
        BY <1>1, <2>1, <3>4, <4>1, DroppedOthers, SMTT(60)
    <3>6. /\ ObjectsOK(r, pcs)
          /\ \A t \in Slot \ {s} : r.ft[t] = st.ft[t]
          /\ \/ /\ r.ft[s].fd_inode = NULL
                /\ st.ft[s].fd_flag = "pipe" => st.ft[s].fd_pos = 1
             \/ /\ r.ft[s].fd_inode = st.ft[s].fd_inode
                /\ st.ft[s].fd_flag = "pipe" /\ st.ft[s].fd_pos # 1 /\ r.ft[s].fd_flag = "pipe"
                /\ r.ft[s].fd_pos = st.ft[s].fd_pos - 1
      <4>1. CASE ~pipe /\ o \in Object /\ FileClosed(st, c, s, o)
        <5>1. FileClosed(st, r, s, o)
          BY <3>3, <4>1 DEF FileClosed, Emptied, Returned
        <5>2. ObjectsOK(r, pcs)
          BY <1>1, <2>1, <3>3, <3>4, <4>1, <5>1, FileClosedObjects
        <5> QED
          BY <3>4, <4>1, <5>1, <5>2 DEF FileClosed, Emptied
      <4>2. CASE pipe /\ o \in Object /\ st.ft[s].fd_pos = 1 /\ PipeFreed(st, c, s, o)
        <5>1. PipeFreed(st, r, s, o)
          BY <3>3, <4>2 DEF PipeFreed, Emptied
        <5>2. ObjectsOK(r, pcs)
          BY <1>1, <2>1, <3>3, <3>4, <4>2, <5>1, PipeFreedObjects
        <5> QED
          BY <3>4, <4>2, <5>1, <5>2 DEF PipeFreed, Emptied
      <4>3. CASE /\ pipe /\ st.ft[s].fd_pos # 1
                 /\ c.heap = st.heap /\ c.list = st.list /\ c.unguarded = st.unguarded
                 /\ c.home = st.home
                 /\ \A t \in Slot \ {s} : c.ft[t] = st.ft[t]
                 /\ c.ft[s].fd_inode = st.ft[s].fd_inode /\ c.ft[s].fd_flag = st.ft[s].fd_flag
                 /\ c.ft[s].by = st.ft[s].by /\ c.ft[s].fd_pos = st.ft[s].fd_pos - 1
        <5>1. \A t \in Slot : /\ r.ft[t].fd_inode = st.ft[t].fd_inode
                              /\ r.ft[t].fd_flag = st.ft[t].fd_flag /\ r.ft[t].by = st.ft[t].by
          BY <3>3, <4>3
        <5>2. ObjectsOK(r, pcs)
          BY <1>1, <3>3, <4>3, <5>1, ObjectsFrame
        <5> QED
          BY <3>3, <3>4, <4>3, <5>2
      <4> QED
        BY <3>1, <4>1, <4>2, <4>3
    <3>10. \A t \in Slot : SameHome(st, r, t)
      <4>1. Returned(st, r)
        BY <3>1, <3>3 DEF FileClosed, PipeFreed, Returned
      <4> QED
        BY <1>1, <4>1, ReturnedHome
    <3>7. ASSUME NEW t \in Slot PROVE SlotOK(r, pcs, sh, t)
      <4>1. CASE t # s
        <5>1. t \in st.lost => t \in r.lost
          BY <3>3
        <5> QED
          BY <1>1, <3>5, <3>6, <3>10, <4>1, <5>1, SlotFrame
      <4>2. CASE t = s
        <5>1. SlotOK(r, pcs, sh, s)
          BY <1>1, <2>1, <3>3, <3>5, <3>6, DroppedSlot
        <5> QED
          BY <4>2, <5>1
      <4> QED
        BY <4>1, <4>2
    <3>8. FaultOK(r, sh)
      BY <3>3 DEF FaultOK
    <3>9. StateOK(r, pcs, sh)
      BY <1>1, <3>3, <3>5, <3>6, <3>7, <3>8 DEF StateOK
    <3> QED
      BY <1>3, <3>3, <3>9
  <2> HIDE DEF there
  <2> QED
    BY <2>5, <2>6, <2>7
<1> QED
  BY <1>2, <1>3

-----------------------------------------------------------------------------
(* The loops of fork and exit over the descriptors of a process. *)

\* What holds before the first round, and after a round if before it, holds
\* after every round.
LEMMA EveryRound ==
    ASSUME NEW B, 0 \in B, \A n \in Fd : n - 1 \in B => n \in B
    PROVE  \A n \in 0..Fds : n \in B
<1> DEFINE S == {n \in 0..Fds : n \notin B}
<1>1. SUFFICES ASSUME S # {} PROVE FALSE
  OBVIOUS
<1>2. S \in SUBSET Nat
  OBVIOUS
<1>3. PICK m \in S : \A n \in S : m <= n
  <2> HIDE DEF S
  <2> QED
    BY <1>1, <1>2, LeastElement
<1>4. m \in Fd /\ m - 1 \in 0..Fds
  BY <1>3, FilesAssumption DEF Fd
<1>5. m - 1 \in B
  BY <1>3, <1>4
<1> QED
  BY <1>3, <1>4, <1>5

\* A loop whose rounds stay in the set T runs through a sequence of its elements.
Round(G, T) == G \in [T \X Fd -> T]
Run(g, T, x, G) ==
    g \in [0..Fds -> T] /\ g[0] = x /\ \A n \in Fd : g[n] = G[<<g[n - 1], n>>]

LEMMA Rounds ==
    ASSUME NEW T, NEW x \in T, NEW G, Round(G, T)
    PROVE  \E g : Run(g, T, x, G)
<1> DEFINE Runs(g, m) == g[0] = x /\ \A n \in 1..m : g[n] = G[<<g[n - 1], n>>]
           B == {m \in 0..Fds : \E g \in [0..m -> T] : Runs(g, m)}
<1>1. Fds \in Nat /\ Fd = 1..Fds /\ G \in [T \X Fd -> T]
  BY FilesAssumption DEF Fd, Round
<1>2. 0 \in B
  <2> DEFINE g == [n \in 0..0 |-> x]
  <2>1. g \in [0..0 -> T] /\ g[0] = x
    OBVIOUS
  <2>2. \A n \in 1..0 : g[n] = G[<<g[n - 1], n>>]
    OBVIOUS
  <2> HIDE DEF g
  <2> QED
    BY <1>1, <2>1, <2>2
<1>3. ASSUME NEW m \in Fd, m - 1 \in B PROVE m \in B
  <2>1. PICK g \in [0..m - 1 -> T] : Runs(g, m - 1)
    BY <1>3
  <2>2. m - 1 \in 0..m - 1 /\ m \in 0..Fds
    BY <1>1
  <2> DEFINE y == G[<<g[m - 1], m>>]
             h == [n \in 0..m |-> IF n = m THEN y ELSE g[n]]
  <2>3. y \in T
    BY <1>1, <2>2
  <2>4. h \in [0..m -> T] /\ h[m] = y /\ \A n \in 0..m - 1 : h[n] = g[n]
    <3> HIDE DEF y
    <3> QED
      BY <1>1, <2>2, <2>3
  <2> HIDE DEF h
  <2>5. Runs(h, m)
    <3>1. h[0] = x
      BY <1>1, <2>1, <2>4
    <3>2. ASSUME NEW n \in 1..m PROVE h[n] = G[<<h[n - 1], n>>]
      <4>1. CASE n = m
        BY <1>1, <2>2, <2>4, <4>1
      <4>2. CASE n # m
        <5>1. n \in 1..m - 1 /\ n \in 0..m - 1 /\ n - 1 \in 0..m - 1
          BY <1>1, <4>2
        <5> QED
          BY <2>1, <2>4, <5>1
      <4> QED
        BY <4>1, <4>2
    <3> QED
      BY <3>1, <3>2
  <2> QED
    BY <2>2, <2>4, <2>5
<1>4. Fds \in B
  <2> HIDE DEF B
  <2>1. \A n \in 0..Fds : n \in B
    BY <1>2, <1>3, EveryRound
  <2> QED
    BY <1>1, <2>1
<1>5. PICK g \in [0..Fds -> T] : Runs(g, Fds)
  BY <1>4
<1>6. Run(g, T, x, G)
  BY <1>1, <1>5 DEF Run
<1> QED
  BY <1>6

\* The descriptors when the first n of p are free.
FreedUpTo(fds, p, n) ==
    [q \in Procs |-> [m \in Fd |-> IF q = p /\ m <= n THEN NoSlot ELSE fds[q][m]]]

LEMMA FreedNext ==
    ASSUME NEW fds \in FdTables, NEW p \in Procs, NEW n \in Fd
    PROVE  /\ [FreedUpTo(fds, p, n - 1) EXCEPT ![p][n] = NoSlot] = FreedUpTo(fds, p, n)
           /\ FreedUpTo(fds, p, 0) = fds
           /\ FreedUpTo(fds, p, Fds) = [fds EXCEPT ![p] = NoFds]
<1>1. \A m \in Fd : (m <= n <=> m <= n - 1 \/ m = n) /\ ~(m <= 0) /\ m <= Fds
  BY FilesAssumption DEF Fd
<1>2. [FreedUpTo(fds, p, n - 1) EXCEPT ![p][n] = NoSlot] = FreedUpTo(fds, p, n)
  BY <1>1 DEF FreedUpTo
<1>3. FreedUpTo(fds, p, 0) = fds
  BY <1>1 DEF FreedUpTo, FdTables
<1>4. FreedUpTo(fds, p, Fds) = [fds EXCEPT ![p] = NoFds]
  BY <1>1 DEF FreedUpTo, FdTables, NoFds
<1> QED
  BY <1>2, <1>3, <1>4

\* release_prog_resource frees every descriptor of p, or stops, and then the
\* pages of p are gone.
LEMMA ReleasedOK ==
    ASSUME NEW st, NEW pcs, NEW sh, StateOK(st, pcs, sh), NEW p \in Procs,
           NEW r, r = release_prog_resource(st, p)
    PROVE  \E c : /\ StateOK(c, pcs, sh)
                  /\ c.fault = NoSlot => c.fds = [st.fds EXCEPT ![p] = NoFds]
                  /\ r = IF c.fault # NoSlot THEN c ELSE Vacated(c, p)
<1> DEFINE T == {x \in State : StateOK(x, pcs, sh)}
           G == [y \in T \X Fd |-> Closed(y[1], p, y[2])]
           a == CHOOSE c : c = [n \in 0..Fds |-> IF n = 0 THEN st ELSE Closed(c[n - 1], p, n)]
<1>1. Fds \in Fd /\ Fds \in Nat /\ 0 \in 0..Fds /\ Fds \in 0..Fds
      /\ \A n \in Fd : n # 0 /\ n \in 0..Fds /\ n - 1 \in 0..Fds
  BY FilesAssumption DEF Fd
<1>2. \A x \in T, n \in Fd : Closed(x, p, n) \in T
  <2>1. \A x \in T, n \in Fd : StateOK(Closed(x, p, n), pcs, sh)
    BY ClosedOK
  <2> QED
    BY <2>1 DEF StateOK
<1>3. G \in [T \X Fd -> T] /\ \A x \in T, n \in Fd : G[<<x, n>>] = Closed(x, p, n)
  <2> HIDE DEF T
  <2> QED
    BY <1>2
<1>4. st \in T /\ st.fds \in FdTables
  BY DEF StateOK, State, FdTables
<1>5. \E c : c = [n \in 0..Fds |-> IF n = 0 THEN st ELSE Closed(c[n - 1], p, n)]
  <2> HIDE DEF T, G
  <2>1. PICK g \in [0..Fds -> T] : g[0] = st /\ \A n \in Fd : g[n] = G[<<g[n - 1], n>>]
    <3>1. Round(G, T) /\ st \in T
      BY <1>3, <1>4 DEF Round
    <3>2. PICK g : Run(g, T, st, G)
      BY <3>1, Rounds
    <3> QED
      BY <3>2 DEF Run
  <2>2. \A n \in 0..Fds : g[n] = IF n = 0 THEN st ELSE Closed(g[n - 1], p, n)
    <3>1. \A n \in 0..Fds : n = 0 \/ n \in Fd
      BY <1>1 DEF Fd
    <3> QED
      BY <1>1, <1>3, <2>1, <3>1
  <2>3. g = [n \in 0..Fds |-> IF n = 0 THEN st ELSE Closed(g[n - 1], p, n)]
    BY <2>2
  <2> QED
    BY <2>3
<1>6. a = [n \in 0..Fds |-> IF n = 0 THEN st ELSE Closed(a[n - 1], p, n)]
  BY <1>5, Zenon
<1>7. r = IF a[Fds].fault # NoSlot THEN a[Fds] ELSE Vacated(a[Fds], p)
  BY Zenon DEF release_prog_resource
<1> HIDE DEF a
<1>8. a[0] = st /\ \A n \in Fd : a[n] = Closed(a[n - 1], p, n)
  BY <1>1, <1>6
<1> DEFINE B == {n \in 0..Fds : /\ StateOK(a[n], pcs, sh)
                                /\ a[n].fault = NoSlot => a[n].fds = FreedUpTo(st.fds, p, n)}
<1>9. 0 \in B
  BY <1>1, <1>4, <1>8, FreedNext
<1>10. ASSUME NEW n \in Fd, n - 1 \in B PROVE n \in B
  <2>1. /\ StateOK(a[n - 1], pcs, sh)
        /\ a[n - 1].fault = NoSlot => a[n - 1].fds = FreedUpTo(st.fds, p, n - 1)
    BY <1>10
  <2>2. a[n] = Closed(a[n - 1], p, n)
    BY <1>8
  <2>3. /\ StateOK(a[n], pcs, sh)
        /\ a[n].fault = NoSlot => /\ a[n - 1].fault = NoSlot
                                  /\ a[n].fds = [a[n - 1].fds EXCEPT ![p][n] = NoSlot]
    BY <2>1, <2>2, ClosedOK
  <2>4. a[n].fault = NoSlot => a[n].fds = FreedUpTo(st.fds, p, n)
    BY <1>4, <2>1, <2>3, FreedNext
  <2> QED
    BY <1>1, <2>3, <2>4
<1>11. Fds \in B
  <2> HIDE DEF B
  <2> QED
    BY <1>1, <1>9, <1>10, EveryRound
<1>12. /\ StateOK(a[Fds], pcs, sh)
       /\ a[Fds].fault = NoSlot => a[Fds].fds = [st.fds EXCEPT ![p] = NoFds]
  BY <1>1, <1>4, <1>11, FreedNext
<1> QED
  BY <1>7, <1>12

\* Nobody who can still close a slot on an inode of p misses it when p is gone.
LEMMA VacatedOK ==
    ASSUME NEW st, NEW pcs, NEW sh, StateOK(st, pcs, sh), NEW p \in Procs,
           st.fault = NoSlot, st.fds[p] = NoFds, \A s : p \notin Waiters(pcs, s),
           NEW r, r = Vacated(st, p)
    PROVE  StateOK(r, pcs, sh) /\ r.fds = st.fds /\ r.fault = st.fault
<1> DEFINE H == [o \in Object |-> IF st.home[o] = p THEN Dead ELSE st.home[o]]
<1>1. /\ st \in State /\ pcs \in [Procs -> Place] /\ ObjectsOK(st, pcs) /\ MeantOK(st)
      /\ \A s \in Slot : SlotOK(st, pcs, sh, s)
  BY DEF StateOK
<1>2. r = [st EXCEPT !.home = H]
  BY Zenon DEF Vacated
<1>3. H \in [Object -> Space] /\ \A o \in Object : st.home[o] # p => H[o] = st.home[o]
  BY <1>1 DEF State, Space
<1> HIDE DEF H
<1>4. /\ r \in State
      /\ r.ft = st.ft /\ r.fds = st.fds /\ r.heap = st.heap /\ r.list = st.list
      /\ r.meant = st.meant /\ r.lost = st.lost /\ r.unguarded = st.unguarded
      /\ r.fault = st.fault /\ r.home = H
  BY <1>1, <1>2, <1>3 DEF State
<1>5. ObjectsOK(r, pcs)
  BY <1>1, <1>4, ObjectsFrame
<1>6. MeantOK(r) /\ FaultOK(r, sh)
  BY <1>1, <1>4 DEF MeantOK, FaultOK
<1>7. ASSUME NEW s \in Slot PROVE SlotOK(r, pcs, sh, s)
  <2>1. HeldOK(st, pcs, s) /\ (s \notin sh => AloneOK(st, pcs, s))
    BY <1>1 DEF SlotOK
  <2>2. HeldOK(r, pcs, s)
    BY <1>4, <2>1 DEF HeldOK
  <2>3. ASSUME NEW q, q # p, AtHome(st, s, q) PROVE AtHome(r, s, q)
    <3>1. st.ft[s].fd_inode # NULL => st.ft[s].fd_inode \in Object
      BY <1>1 DEF State, OpenFile, Object, NULL
    <3>2. Kernel # p
      BY FilesAssumption DEF Kernel
    <3> QED
      BY <1>3, <1>4, <2>3, <3>1, <3>2 DEF AtHome
  <2>4. \A q \in Waiters(pcs, s) : q # p
    OBVIOUS
  <2>5. \A x \in Descs(st.fds, s) : x[1] # p
    BY DEF Descs, NoFds, Slot, NoSlot
  <2>6. s \notin sh => AloneOK(r, pcs, s)
    BY <1>4, <2>1, <2>3, <2>4, <2>5 DEF AloneOK
  <2> QED
    BY <2>2, <2>6 DEF SlotOK
<1> QED
  BY <1>1, <1>4, <1>5, <1>6, <1>7 DEF StateOK

\* sys_close.
LEMMA CloseStep ==
    ASSUME FilesInv, fault = NoSlot, NEW p \in Procs, NEW fd \in Fd, sys_close(p, fd)
    PROVE  FilesInv'
<1> DEFINE r == Closed(Now, p, fd)
<1>1. StateOK(Now, pc, shared) /\ shared \in SUBSET Slot /\ Now \in State /\ pc \in [Procs -> Place]
  BY DEF FilesInv, StateOK
<1>2. pc[p] = Running /\ Becomes(r, pc, {})
  BY DEF sys_close
<1>3. /\ StateOK(r, pc, shared)
      /\ r.fault = NoSlot => r.fds = [fd_table EXCEPT ![p][fd] = NoSlot]
  BY <1>1, NowFields, ClosedOK
<1> HIDE DEF r
<1>4. StateOK(Now', pc', shared') /\ shared' \subseteq Slot
  BY <1>1, <1>2, <1>3, BecomesOK
<1>5. ASSUME fault' = NoSlot, NEW q \in Procs, pc'[q] = Gone PROVE fd_table'[q] = NoFds
  <2>1. pc' = pc /\ fd_table' = r.fds /\ r.fault = NoSlot /\ q # p
    BY <1>1, <1>2, <1>5, NotWaiting DEF Becomes
  <2>2. fd_table \in [Procs -> [Fd -> 0..Slots]]
    BY <1>1, NowFields DEF State
  <2>3. r.fds[q] = fd_table[q]
    BY <1>3, <2>1, <2>2
  <2> QED
    BY <1>5, <2>1, <2>3 DEF FilesInv
<1> QED
  BY <1>4, <1>5 DEF FilesInv

\* sys_exit.
LEMMA ExitStep ==
    ASSUME FilesInv, fault = NoSlot, NEW p \in Procs, sys_exit(p)
    PROVE  FilesInv'
<1> DEFINE r == release_prog_resource(Now, p)
           qcs == [pc EXCEPT ![p] = Gone]
<1>1. StateOK(Now, pc, shared) /\ shared \in SUBSET Slot /\ Now \in State /\ pc \in [Procs -> Place]
  BY DEF FilesInv, StateOK
<1>2. pc[p] = Running /\ Becomes(r, qcs, {})
  BY DEF sys_exit
<1>3. PICK c : /\ StateOK(c, pc, shared)
               /\ c.fault = NoSlot => c.fds = [fd_table EXCEPT ![p] = NoFds]
               /\ r = IF c.fault # NoSlot THEN c ELSE Vacated(c, p)
  <2>1. \E c : /\ StateOK(c, pc, shared)
               /\ c.fault = NoSlot => c.fds = [Now.fds EXCEPT ![p] = NoFds]
               /\ r = IF c.fault # NoSlot THEN c ELSE Vacated(c, p)
    BY <1>1, ReleasedOK
  <2> QED
    BY <2>1, NowFields
<1> HIDE DEF r
<1>4. Moved(pc, qcs, p, Gone)
  BY <1>1, MovedEx, Places
<1> HIDE DEF qcs
<1>5. StateOK(c, qcs, shared)
  <2>1. ObjectsOK(c, qcs)
    BY <1>1, <1>2, <1>3, <1>4, CreatesFrame, NotWaiting, Places DEF StateOK, ObjectsOK
  <2>2. ASSUME NEW t \in Slot PROVE SlotOK(c, qcs, shared, t)
    <3>1. Waiters(qcs, t) = Waiters(pc, t) /\ \A q \in Waiters(pc, t) : qcs[q].inode = pc[q].inode
      BY <1>2, <1>4, Places DEF Waiters, Moved
    <3>2. SlotOK(c, pc, shared, t) /\ SameHome(c, c, t)
      BY <1>3 DEF StateOK, SameHome
    <3> QED
      BY <3>1, <3>2, SlotFrame
  <2> QED
    BY <1>3, <1>4, <2>1, <2>2 DEF StateOK, Moved
<1>8. /\ StateOK(r, qcs, shared)
      /\ r.fault = NoSlot => r.fds = [fd_table EXCEPT ![p] = NoFds]
  <2>1. CASE c.fault # NoSlot
    BY <1>3, <1>5, <2>1
  <2>2. CASE c.fault = NoSlot
    <3>1. \A s : p \notin Waiters(qcs, s)
      BY <1>4, Places DEF Waiters, Moved
    <3>2. c.fds[p] = NoFds
      BY <1>1, <1>3, <2>2, NowFields DEF State
    <3>3. StateOK(r, qcs, shared) /\ r.fds = c.fds
      BY <1>3, <1>5, <2>2, <3>1, <3>2, VacatedOK
    <3> QED
      BY <1>3, <2>2, <3>3
  <2> QED
    BY <2>1, <2>2
<1>6. StateOK(Now', pc', shared') /\ shared' \subseteq Slot
  BY <1>1, <1>2, <1>8, BecomesOK
<1>7. ASSUME fault' = NoSlot, NEW q \in Procs, pc'[q] = Gone PROVE fd_table'[q] = NoFds
  <2>1. pc' = qcs /\ fd_table' = r.fds /\ r.fault = NoSlot
    BY <1>2, <1>7 DEF Becomes
  <2>2. fd_table \in [Procs -> [Fd -> 0..Slots]] /\ r.fds = [fd_table EXCEPT ![p] = NoFds]
    BY <1>1, <1>8, <2>1, NowFields DEF State
  <2>3. CASE q = p
    BY <2>1, <2>2, <2>3
  <2>4. CASE q # p
    BY <1>4, <1>7, <2>1, <2>2, <2>4 DEF FilesInv, Moved
  <2> QED
    BY <2>3, <2>4
<1> QED
  BY <1>6, <1>7 DEF FilesInv

-----------------------------------------------------------------------------
(* fork. *)

\* What one round of update_inode_open_cnts does for a descriptor on s.
InheritedOn(c, r, s) ==
    /\ r.list = c.list /\ r.unguarded = c.unguarded /\ r.lost = c.lost /\ r.home = c.home
    /\ \/ s = NoSlot /\ r.ft = c.ft /\ r.heap = c.heap /\ r.fault = c.fault
       \/ /\ s \in Slot /\ c.ft[s].fd_flag = "pipe" /\ r.ft[s].fd_flag = "pipe"
          /\ r.ft[s].fd_inode = c.ft[s].fd_inode /\ r.ft[s].fd_pos = c.ft[s].fd_pos + 1
          /\ r.ft[s].by = c.ft[s].by
          /\ \A t \in Slot \ {s} : r.ft[t] = c.ft[t]
          /\ r.heap = c.heap /\ r.fault = c.fault
       \/ /\ s \in Slot /\ c.ft[s].fd_flag # "pipe" /\ c.ft[s].fd_inode = NULL
          /\ r.ft = c.ft /\ r.heap = c.heap /\ r.fault = s
       \/ /\ s \in Slot /\ c.ft[s].fd_flag # "pipe" /\ c.ft[s].fd_inode # NULL
          /\ r.ft = c.ft /\ r.heap = c.heap /\ r.fault = Astray
          /\ \E o \in Object : c.home[o] # Kernel
       \/ /\ s \in Slot /\ c.ft[s].fd_flag # "pipe" /\ c.ft[s].fd_inode \in Object
          /\ r.ft = c.ft /\ r.fault = c.fault /\ Counted(c, r, c.ft[s].fd_inode)

LEMMA InheritedFields ==
    ASSUME NEW c \in State, KindsOK(c), NEW p \in Procs, NEW n \in Fd,
           NEW r, r = Inherited(c, p, n)
    PROVE  /\ r \in State /\ r.fds = c.fds /\ r.meant = c.meant
           /\ InheritedOn(c, r, c.fds[p][n])
<1> DEFINE s == c.fds[p][n]
           o == c.ft[s].fd_inode
<1>1. CASE s = NoSlot
  <2>1. r = c
    BY <1>1, Zenon DEF Inherited
  <2> QED
    BY <1>1, <2>1 DEF InheritedOn
<1>2. CASE s # NoSlot
  <2>1. s \in Slot /\ c.ft[s] \in OpenFile
    <3>1. s \in 0..Slots
      BY DEF State
    <3>2. s \in Slot
      BY <1>2, <3>1, FilesAssumption DEF Slot, NoSlot
    <3> QED
      BY <3>2 DEF State
  <2>2. o # NULL => o \in Object
    BY <2>1 DEF OpenFile, Object, NULL
  <2>3. CASE c.ft[s].fd_flag = "pipe"
    <3>1. r = [c EXCEPT !.ft[s].fd_pos = c.ft[s].fd_pos + 1]
      <4>1. r = [c EXCEPT !.ft[s].fd_pos = @ + 1]
        BY <1>2, <2>3, Zenon DEF Inherited
      <4> HIDE DEF s
      <4> QED
        BY <4>1 DEF State
    <3>2. c.ft[s].fd_pos + 1 \in Int
      BY <2>1 DEF OpenFile
    <3> HIDE DEF s
    <3> DEFINE m == c.ft[s].fd_pos + 1
    <3>5. m \in Int /\ r = [c EXCEPT !.ft[s].fd_pos = m] /\ s \in Slot
      BY <2>1, <3>1, <3>2
    <3> HIDE DEF m
    <3>6. /\ r \in State
          /\ r.heap = c.heap /\ r.list = c.list /\ r.unguarded = c.unguarded
          /\ r.fds = c.fds /\ r.meant = c.meant /\ r.lost = c.lost /\ r.fault = c.fault
          /\ \A t \in Slot \ {s} : r.ft[t] = c.ft[t]
          /\ r.ft[s].fd_inode = c.ft[s].fd_inode /\ r.ft[s].fd_flag = c.ft[s].fd_flag
          /\ r.ft[s].by = c.ft[s].by /\ r.ft[s].fd_pos = m /\ r.home = c.home
      BY <3>5, CountSet
    <3>3. /\ r \in State
          /\ r.heap = c.heap /\ r.list = c.list /\ r.unguarded = c.unguarded
          /\ r.fds = c.fds /\ r.meant = c.meant /\ r.lost = c.lost /\ r.fault = c.fault
          /\ \A t \in Slot \ {s} : r.ft[t] = c.ft[t]
          /\ r.ft[s].fd_inode = c.ft[s].fd_inode /\ r.ft[s].fd_flag = c.ft[s].fd_flag
          /\ r.ft[s].by = c.ft[s].by /\ r.ft[s].fd_pos = c.ft[s].fd_pos + 1
          /\ r.home = c.home
      BY <3>6 DEF m
    <3>4. InheritedOn(c, r, s)
      BY <2>1, <2>3, <3>3 DEF InheritedOn
    <3> QED
      BY <3>3, <3>4 DEF s
  <2>4. CASE c.ft[s].fd_flag # "pipe" /\ o = NULL
    <3>1. r = [c EXCEPT !.fault = s]
      BY <1>2, <2>4, Zenon DEF Inherited
    <3> HIDE DEF s
    <3>2. /\ r \in State
          /\ r.ft = c.ft /\ r.fds = c.fds /\ r.heap = c.heap /\ r.list = c.list
          /\ r.meant = c.meant /\ r.lost = c.lost /\ r.unguarded = c.unguarded /\ r.fault = s
          /\ r.home = c.home
      BY <2>1, <3>1, FaultFields
    <3>3. InheritedOn(c, r, s)
      BY <2>1, <2>4, <3>2 DEF InheritedOn
    <3> QED
      BY <3>2, <3>3 DEF s
  <2>6. CASE c.ft[s].fd_flag # "pipe" /\ o # NULL /\ o \notin InSpace(c, p)
    <3>1. r = Strayed(c)
      BY <1>2, <2>6, Zenon DEF Inherited
    <3>2. \E u \in Object : c.home[u] # Kernel
      BY <2>2, <2>6 DEF InSpace
    <3>3. /\ r \in State
          /\ r.ft = c.ft /\ r.fds = c.fds /\ r.heap = c.heap /\ r.list = c.list
          /\ r.meant = c.meant /\ r.lost = c.lost /\ r.unguarded = c.unguarded
          /\ r.fault = Astray /\ r.home = c.home
      <4>1. Astray \in 0..Astray
        BY FilesAssumption DEF Astray
      <4> QED
        BY <3>1, <4>1 DEF Strayed, State
    <3> HIDE DEF s
    <3>4. InheritedOn(c, r, s)
      BY <2>1, <2>6, <3>2, <3>3 DEF InheritedOn
    <3> QED
      BY <3>3, <3>4 DEF s
  <2>5. CASE c.ft[s].fd_flag # "pipe" /\ o # NULL /\ o \in InSpace(c, p)
    <3>1. r = inode_open(c, o)
      BY <1>2, <2>5, Zenon DEF Inherited, inode_open
    <3>2. o \in Object /\ c.heap[o].kind = "inode"
      BY <2>1, <2>2, <2>5 DEF KindsOK
    <3>3. c.ft[s].fd_inode = o
      OBVIOUS
    <3> HIDE DEF s, o
    <3>4. /\ r \in State
          /\ r.ft = c.ft /\ r.fds = c.fds /\ r.list = c.list /\ r.meant = c.meant
          /\ r.lost = c.lost /\ r.unguarded = c.unguarded /\ r.fault = c.fault
          /\ r.home = c.home
          /\ \A u \in Object \ {o} : r.heap[u] = c.heap[u]
          /\ r.heap[o].kind = "inode" /\ r.heap[o].file = c.heap[o].file
          /\ r.heap[o].write_deny = c.heap[o].write_deny
          /\ r.heap[o].i_open_cnts = c.heap[o].i_open_cnts + 1
      BY <3>1, <3>2, OpenFields
    <3>5. Counted(c, r, o)
      BY <3>2, <3>4 DEF Counted
    <3>6. InheritedOn(c, r, s)
      BY <2>1, <2>5, <3>2, <3>3, <3>4, <3>5 DEF InheritedOn
    <3> QED
      BY <3>4, <3>6 DEF s
  <2> QED
    BY <2>3, <2>4, <2>5, <2>6
<1> QED
  BY <1>1, <1>2

LEMMA InheritedObjects ==
    ASSUME NEW c \in State, NEW r \in State, NEW pcs, NEW s,
           ObjectsOK(c, pcs), InheritedOn(c, r, s)
    PROVE  ObjectsOK(r, pcs)
<1>1. CASE r.heap = c.heap
  <2>1. \A t \in Slot : /\ r.ft[t].fd_inode = c.ft[t].fd_inode
                        /\ r.ft[t].fd_flag = c.ft[t].fd_flag /\ r.ft[t].by = c.ft[t].by
    BY DEF InheritedOn
  <2>2. r.list = c.list /\ r.unguarded = c.unguarded
    BY DEF InheritedOn
  <2> QED
    BY <1>1, <2>1, <2>2, ObjectsFrame
<1>2. CASE r.heap # c.heap
  <2>1. c.ft[s].fd_inode \in Object /\ Counted(c, r, c.ft[s].fd_inode)
    BY <1>2 DEF InheritedOn
  <2> QED
    BY <2>1, CountedObjects
<1> QED
  BY <1>1, <1>2

\* The child q has a copy of one more descriptor of p.
CopiedFd(j, k, p, q, n) ==
    /\ j.fds[q][n] = NoSlot
    /\ k.fds = [j.fds EXCEPT ![q][n] = j.fds[p][n]]
    /\ k.meant = [j.meant EXCEPT ![q][n] = j.meant[p][n]]

\* So s has one descriptor more, and no other slot has.
CopiedOn(j, k, p, q, n, s) ==
    /\ s \in Slot => /\ Descs(k.fds, s) = Descs(j.fds, s) \cup {<<q, n>>}
                     /\ <<q, n>> \notin Descs(j.fds, s) /\ <<p, n>> \in Descs(j.fds, s)
                     /\ k.meant[q][n] = j.meant[p][n]
    /\ \A t \in Slot : t # s => Descs(k.fds, t) = Descs(j.fds, t)
    /\ \A t \in Slot : \A x \in Descs(j.fds, t) : k.meant[x[1]][x[2]] = j.meant[x[1]][x[2]]

LEMMA CopiedOthers ==
    ASSUME NEW j \in State, NEW k, NEW p \in Procs, NEW q \in Procs, NEW n \in Fd,
           p # q, MeantOK(j), CopiedFd(j, k, p, q, n)
    PROVE  MeantOK(k) /\ CopiedOn(j, k, p, q, n, j.fds[p][n])
<1> DEFINE s == j.fds[p][n]
<1>1. /\ j.fds \in FdTables /\ s \in 0..Slots /\ NoSlot \notin Slot
      /\ j.meant \in [Procs -> [Fd -> 0..Objects]]
  BY DEF State, FdTables, Slot, NoSlot
<1>2. \A t \in Slot : /\ t = s => Descs(k.fds, t) = Descs(j.fds, t) \cup {<<q, n>>}
                      /\ t # s => Descs(k.fds, t) = Descs(j.fds, t) \ {<<q, n>>}
  <2>1. k.fds = [j.fds EXCEPT ![q][n] = s]
    BY DEF CopiedFd
  <2> QED
    BY <1>1, <2>1, DescsSet
<1>3. <<q, n>> \in Procs \X Fd /\ <<q, n>>[1] = q /\ <<q, n>>[2] = n
  OBVIOUS
<1>4. \A t \in Slot : <<q, n>> \notin Descs(j.fds, t)
  BY <1>1, <1>3 DEF Descs, CopiedFd
<1>5. \A a \in Procs, m \in Fd :
         /\ k.fds[a][m] = IF a = q /\ m = n THEN s ELSE j.fds[a][m]
         /\ k.meant[a][m] = IF a = q /\ m = n THEN j.meant[p][n] ELSE j.meant[a][m]
  BY <1>1 DEF FdTables, CopiedFd
<1>6. MeantOK(k)
  BY <1>5 DEF MeantOK
<1>7. ASSUME NEW x \in Procs \X Fd, x # <<q, n>>
      PROVE  k.meant[x[1]][x[2]] = j.meant[x[1]][x[2]]
  <2>1. x[1] \in Procs /\ x[2] \in Fd /\ ~(x[1] = q /\ x[2] = n)
    BY <1>7
  <2> QED
    BY <1>5, <2>1
<1>8. ASSUME NEW t \in Slot, NEW x \in Descs(j.fds, t)
      PROVE  k.meant[x[1]][x[2]] = j.meant[x[1]][x[2]]
  <2>1. x \in Procs \X Fd /\ x # <<q, n>>
    BY <1>4 DEF Descs
  <2> QED
    BY <1>7, <2>1
<1>9. ASSUME NEW t \in Slot, t # s PROVE Descs(k.fds, t) = Descs(j.fds, t)
  BY <1>2, <1>4, <1>9
<1>10. <<p, n>> \in Descs(j.fds, s) /\ k.meant[q][n] = j.meant[p][n]
  BY <1>5 DEF Descs
<1> HIDE DEF s
<1>11. CopiedOn(j, k, p, q, n, s)
  BY <1>2, <1>4, <1>8, <1>9, <1>10 DEF CopiedOn
<1> QED
  BY <1>6, <1>11 DEF s

(***************************************************************************)
(* One round: the parent's slot is counted once more and the child has its *)
(* descriptor.  A slot of a regular file counts as shared from then on,    *)
(* for fork counts the inode and not the slot.                             *)
(***************************************************************************)
LEMMA ForkRound ==
    ASSUME NEW j, NEW k \in State, NEW pcs, NEW sh, NEW p \in Procs, NEW q \in Procs,
           NEW n \in Fd, p # q, StateOK(j, pcs, sh), CopiedFd(j, k, p, q, n),
           NEW s, s = j.fds[p][n], InheritedOn(j, k, s),
           s \in Slot /\ j.ft[s].fd_flag # "pipe" => s \in sh
    PROVE  StateOK(k, pcs, sh)
<1> DEFINE D == Descs(j.fds, s)
           E == Descs(k.fds, s)
<1>1. /\ j \in State /\ pcs \in [Procs -> Place] /\ ObjectsOK(j, pcs) /\ MeantOK(j)
      /\ FaultOK(j, sh) /\ \A t \in Slot : SlotOK(j, pcs, sh, t)
  BY DEF StateOK
<1>2. /\ MeantOK(k)
      /\ s \in Slot => /\ E = D \cup {<<q, n>>}
                       /\ <<q, n>> \notin D /\ <<p, n>> \in D
                       /\ k.meant[q][n] = j.meant[p][n]
      /\ \A t \in Slot : t # s => Descs(k.fds, t) = Descs(j.fds, t)
      /\ \A t \in Slot : \A x \in Descs(j.fds, t) : k.meant[x[1]][x[2]] = j.meant[x[1]][x[2]]
  <2>1. MeantOK(k) /\ CopiedOn(j, k, p, q, n, s)
    BY <1>1, CopiedOthers
  <2> QED
    BY <2>1 DEF CopiedOn
<1>3. ObjectsOK(k, pcs)
  BY <1>1, InheritedObjects
<1>4. ASSUME NEW t \in Slot, t # s PROVE SlotOK(k, pcs, sh, t)
  <2>1. k.ft[t] = j.ft[t] /\ k.lost = j.lost /\ SameHome(j, k, t)
    BY <1>4 DEF InheritedOn, SameHome
  <2> QED
    BY <1>1, <1>2, <1>4, <2>1, SlotFrame
<1>5. ASSUME s \in Slot PROVE SlotOK(k, pcs, sh, s)
  <2>1. /\ HeldOK(j, pcs, s) /\ (s \notin sh => AloneOK(j, pcs, s)) /\ j.ft[s].fd_pos \in Int
        /\ k.ft[s].fd_inode = j.ft[s].fd_inode /\ k.ft[s].fd_flag = j.ft[s].fd_flag
        /\ k.lost = j.lost
        /\ j.ft[s].fd_flag = "pipe" => k.ft[s].fd_pos = j.ft[s].fd_pos + 1
    <3>1. SlotOK(j, pcs, sh, s)
      BY <1>1, <1>5
    <3>2. j.ft[s].fd_pos \in Int
      BY <1>1, <1>5 DEF State, OpenFile
    <3>3. s # NoSlot
      BY <1>5 DEF Slot, NoSlot
    <3> QED
      BY <3>1, <3>2, <3>3 DEF SlotOK, InheritedOn
  <2>2. IsFiniteSet(D) /\ Cardinality(D) \in Nat
    BY DescsFinite
  <2>3. Cardinality(E) = Cardinality(D) + 1
    <3> HIDE DEF D, E
    <3> QED
      BY <1>2, <1>5, <2>2, FS_AddElement
  <2>4. <<q, n>> \in E /\ <<p, n>> \in D
    BY <1>2, <1>5
  <2>5. HeldOK(k, pcs, s)
    <3>1. ASSUME k.ft[s].fd_inode # NULL, k.ft[s].fd_flag = "pipe"
          PROVE  /\ k.ft[s].fd_pos >= 1
                 /\ s \in k.lost \/ k.ft[s].fd_pos <= Cardinality(E)
      <4>1. /\ j.ft[s].fd_pos >= 1
            /\ s \in j.lost \/ j.ft[s].fd_pos <= Cardinality(D)
        BY <2>1, <3>1 DEF HeldOK
      <4> HIDE DEF D, E
      <4> QED
        BY <2>1, <2>2, <2>3, <3>1, <4>1
    <3> QED
      BY <2>4, <3>1 DEF HeldOK
  <2>6. ASSUME s \notin sh PROVE AloneOK(k, pcs, s)
    <3>1. j.ft[s].fd_flag = "pipe" /\ AloneOK(j, pcs, s)
      BY <1>5, <2>1, <2>6
    <3>2. Waiters(pcs, s) = {} /\ Cardinality(D) <= j.ft[s].fd_pos
      BY <2>4, <3>1 DEF AloneOK
    <3>3. j.meant[p][n] = j.ft[s].fd_inode
      <4>1. j.meant[<<p, n>>[1]][<<p, n>>[2]] = j.ft[s].fd_inode
        BY <2>4, <3>1, Zenon DEF AloneOK
      <4> QED
        BY <4>1
    <3>4. ASSUME NEW x \in E PROVE k.meant[x[1]][x[2]] = k.ft[s].fd_inode
      <4>1. CASE x = <<q, n>>
        BY <1>2, <1>5, <2>1, <3>3, <4>1
      <4>2. CASE x # <<q, n>>
        <5>1. x \in D
          BY <1>2, <1>5, <4>2
        <5>2. k.meant[x[1]][x[2]] = j.meant[x[1]][x[2]]
          BY <1>2, <1>5, <5>1
        <5> QED
          BY <2>1, <3>1, <5>1, <5>2 DEF AloneOK
      <4> QED
        BY <4>1, <4>2
    <3>5. Cardinality(E) <= k.ft[s].fd_pos
      <4> HIDE DEF D, E
      <4> QED
        BY <2>1, <2>2, <2>3, <3>1, <3>2
    <3> QED
      BY <2>1, <3>1, <3>2, <3>4, <3>5 DEF AloneOK, AtHome
  <2> QED
    BY <2>5, <2>6 DEF SlotOK
<1>6. FaultOK(k, sh)
  <2>1. CASE k.fault = j.fault
    <3>2. k.home = j.home
      BY DEF InheritedOn
    <3>1. ASSUME j.fault # NoSlot, j.fault # Astray
          PROVE  j.fault \in sh /\ Holders(k.fds, j.fault) # {}
      <4>1. j.fault \in sh /\ Holders(j.fds, j.fault) # {} /\ j.fault \in Slot
        <5>1. j.fault \in 0..Astray
          BY <1>1 DEF State
        <5>2. j.fault \in Slot
          BY <3>1, <5>1, FilesAssumption DEF Slot, NoSlot, Astray
        <5> QED
          BY <1>1, <3>1, <5>2 DEF FaultOK
      <4>2. Descs(j.fds, j.fault) # {}
        BY <4>1, DescsFinite
      <4>3. Descs(k.fds, j.fault) # {}
        BY <1>2, <4>1, <4>2
      <4> QED
        BY <4>1, <4>3, DescsFinite
    <3>3. CASE j.fault = Astray
      <4>1. Astray \notin Slot /\ Astray # NoSlot
        BY FilesAssumption DEF Astray, Slot, NoSlot
      <4>2. CASE \E o \in Object : j.home[o] # Kernel
        BY <2>1, <3>2, <3>3, <4>2 DEF FaultOK
      <4>3. CASE j.fault \in sh /\ Holders(j.fds, j.fault) # {}
        <5>1. PICK h \in Procs, m \in Fd : j.fds[h][m] = Astray
          BY <3>3, <4>3 DEF Holders
        <5>2. j.fds[h][m] \in 0..Slots
          BY <1>1 DEF State
        <5> QED
          BY <5>1, <5>2, FilesAssumption DEF Astray
      <4> QED
        BY <1>1, <3>3, <4>1, <4>2, <4>3 DEF FaultOK
    <3> QED
      BY <2>1, <3>1, <3>3 DEF FaultOK
  <2>2. CASE k.fault # j.fault
    <3>1. \/ k.fault = s /\ s \in Slot /\ j.ft[s].fd_flag # "pipe"
          \/ k.fault = Astray /\ k.home = j.home /\ \E o \in Object : j.home[o] # Kernel
      BY <2>2 DEF InheritedOn
    <3>3. CASE k.fault = s /\ s \in Slot /\ j.ft[s].fd_flag # "pipe"
      <4>1. E # {}
        BY <1>2, <3>3
      <4> QED
        BY <3>3, <4>1, DescsFinite DEF FaultOK
    <3>4. CASE k.fault = Astray /\ k.home = j.home /\ \E o \in Object : j.home[o] # Kernel
      BY <3>4 DEF FaultOK
    <3> QED
      BY <3>1, <3>3, <3>4
  <2> QED
    BY <2>1, <2>2
<1> QED
  BY <1>1, <1>2, <1>3, <1>4, <1>5, <1>6 DEF StateOK

\* The record with the first n descriptors of p copied to q.
FirstOf(fds, n, none) == [m \in Fd |-> IF m <= n THEN fds[m] ELSE none]
CopyUpTo(c, p, q, n) ==
    [c EXCEPT !.fds[q] = FirstOf(c.fds[p], n, NoSlot), !.meant[q] = FirstOf(c.meant[p], n, NULL)]

CopyOf(c, j, p, q, n) ==
    /\ j \in State /\ j.ft = c.ft /\ j.heap = c.heap /\ j.list = c.list
    /\ j.lost = c.lost /\ j.unguarded = c.unguarded /\ j.fault = c.fault /\ j.home = c.home
    /\ j.fds = [c.fds EXCEPT ![q] = FirstOf(c.fds[p], n, NoSlot)]
    /\ j.meant = [c.meant EXCEPT ![q] = FirstOf(c.meant[p], n, NULL)]

LEMMA CopyFields ==
    ASSUME NEW c \in State, NEW p \in Procs, NEW q \in Procs, NEW n \in 0..Fds
    PROVE  CopyOf(c, CopyUpTo(c, p, q, n), p, q, n)
<1> DEFINE j == CopyUpTo(c, p, q, n)
           F == [c.fds EXCEPT ![q] = FirstOf(c.fds[p], n, NoSlot)]
           M == [c.meant EXCEPT ![q] = FirstOf(c.meant[p], n, NULL)]
<1>1. NoSlot \in 0..Slots /\ NULL \in 0..Objects
  BY FilesAssumption DEF NoSlot, NULL
<1>2. c.fds \in [Procs -> [Fd -> 0..Slots]] /\ c.meant \in [Procs -> [Fd -> 0..Objects]]
  BY DEF State
<1>3. /\ FirstOf(c.fds[p], n, NoSlot) \in [Fd -> 0..Slots]
      /\ FirstOf(c.meant[p], n, NULL) \in [Fd -> 0..Objects]
  BY <1>1, <1>2 DEF FirstOf
<1>4. F \in [Procs -> [Fd -> 0..Slots]] /\ M \in [Procs -> [Fd -> 0..Objects]]
  BY <1>2, <1>3
<1>5. j = [c EXCEPT !.fds = F, !.meant = M]
  BY DEF CopyUpTo, State
<1> HIDE DEF F, M, j
<1>6. j \in State
  BY <1>4, <1>5 DEF State
<1>7. /\ j.ft = c.ft /\ j.heap = c.heap /\ j.list = c.list /\ j.lost = c.lost /\ j.home = c.home
      /\ j.unguarded = c.unguarded /\ j.fault = c.fault /\ j.fds = F /\ j.meant = M
  BY <1>5 DEF State
<1>8. CopyOf(c, j, p, q, n)
  BY <1>6, <1>7 DEF CopyOf, F, M
<1> QED
  BY <1>8 DEF j

\* One more entry of the table of q.
SetFirst(f, q, u, n, w) == [f EXCEPT ![q] = FirstOf(u, n, w)]
SetOne(f, q, n, v) == [f EXCEPT ![q][n] = v]

LEMMA SameTable ==
    ASSUME NEW S, NEW f \in [Procs -> [Fd -> S]], NEW q \in Procs, NEW n \in Fd,
           NEW v \in S, NEW w \in S, NEW u \in [Fd -> S], u[n] = v
    PROVE  SetOne(SetFirst(f, q, u, n - 1, w), q, n, v) = SetFirst(f, q, u, n, w)
<1> DEFINE g == FirstOf(u, n - 1, w)
           h == FirstOf(u, n, w)
           e == [f EXCEPT ![q] = g]
<1>1. \A m \in Fd : (m <= n <=> m <= n - 1 \/ m = n)
  BY DEF Fd
<1>2. g \in [Fd -> S] /\ h \in [Fd -> S]
  BY DEF FirstOf
<1>3. [g EXCEPT ![n] = v] = h
  BY <1>1 DEF FirstOf
<1> HIDE DEF g, h
<1>4. e \in [Procs -> [Fd -> S]] /\ e[q] = g /\ \A a \in Procs \ {q} : e[a] = f[a]
  BY <1>2
<1>5. [e EXCEPT ![q][n] = v] = [e EXCEPT ![q] = h]
  BY <1>3, <1>4
<1>6. [e EXCEPT ![q] = h] = [f EXCEPT ![q] = h]
  BY <1>2, <1>4
<1> QED
  BY <1>5, <1>6 DEF g, h, SetOne, SetFirst

LEMMA CopyNext ==
    ASSUME NEW c \in State, NEW r \in State, NEW p \in Procs, NEW q \in Procs, NEW n \in Fd,
           p # q, r.fds = c.fds, r.meant = c.meant, InheritedOn(c, r, c.fds[p][n]),
           NEW j, CopyOf(c, j, p, q, n - 1), NEW k, CopyOf(r, k, p, q, n)
    PROVE  CopiedFd(j, k, p, q, n) /\ j.fds[p][n] = c.fds[p][n] /\ InheritedOn(j, k, c.fds[p][n])
<1> DEFINE s == c.fds[p][n]
<1>1. n \in Int /\ ~(n <= n - 1)
  BY DEF Fd
<1>2. /\ j.fds = [c.fds EXCEPT ![q] = FirstOf(c.fds[p], n - 1, NoSlot)]
      /\ j.meant = [c.meant EXCEPT ![q] = FirstOf(c.meant[p], n - 1, NULL)]
      /\ k.fds = [c.fds EXCEPT ![q] = FirstOf(c.fds[p], n, NoSlot)]
      /\ k.meant = [c.meant EXCEPT ![q] = FirstOf(c.meant[p], n, NULL)]
  BY DEF CopyOf
<1>3. /\ c.fds \in [Procs -> [Fd -> 0..Slots]] /\ c.meant \in [Procs -> [Fd -> 0..Objects]]
      /\ NoSlot \in 0..Slots /\ NULL \in 0..Objects
  BY FilesAssumption DEF State, NoSlot, NULL
<1>4. j.fds[p][n] = s /\ j.meant[p][n] = c.meant[p][n]
  BY <1>2, <1>3
<1>5. j.fds[q][n] = NoSlot
  <2>1. FirstOf(c.fds[p], n - 1, NoSlot)[n] = NoSlot
    BY <1>1 DEF FirstOf
  <2> QED
    BY <1>2, <1>3, <2>1
<1>6. k.fds = [j.fds EXCEPT ![q][n] = j.fds[p][n]]
  <2>1. c.fds[p] \in [Fd -> 0..Slots] /\ c.fds[p][n] \in 0..Slots
    BY <1>3
  <2>2. SetOne(SetFirst(c.fds, q, c.fds[p], n - 1, NoSlot), q, n, s)
           = SetFirst(c.fds, q, c.fds[p], n, NoSlot)
    BY <1>3, <2>1, SameTable
  <2> QED
    BY <1>2, <1>4, <2>2 DEF SetOne, SetFirst
<1>7. k.meant = [j.meant EXCEPT ![q][n] = j.meant[p][n]]
  <2>1. c.meant[p] \in [Fd -> 0..Objects] /\ c.meant[p][n] \in 0..Objects
    BY <1>3
  <2>2. SetOne(SetFirst(c.meant, q, c.meant[p], n - 1, NULL), q, n, c.meant[p][n])
           = SetFirst(c.meant, q, c.meant[p], n, NULL)
    BY <1>3, <2>1, SameTable
  <2> QED
    BY <1>2, <1>4, <2>2 DEF SetOne, SetFirst
<1>8. InheritedOn(j, k, s)
  <2>1. /\ j.ft = c.ft /\ j.heap = c.heap /\ j.list = c.list
        /\ j.lost = c.lost /\ j.unguarded = c.unguarded /\ j.fault = c.fault
        /\ k.ft = r.ft /\ k.heap = r.heap /\ k.list = r.list
        /\ k.lost = r.lost /\ k.unguarded = r.unguarded /\ k.fault = r.fault
        /\ j.home = c.home /\ k.home = r.home
    BY DEF CopyOf
  <2>2. \A o : Counted(c, r, o) => Counted(j, k, o)
    BY <2>1 DEF Counted
  <2> HIDE DEF s
  <2>3. InheritedOn(c, r, s)
    BY DEF s
  <2> QED
    BY <2>1, <2>2, <2>3 DEF InheritedOn
<1> QED
  BY <1>4, <1>5, <1>6, <1>7, <1>8 DEF CopiedFd

\* What the child begins with, and what it has after the last round.
Forked(c, p, q) == [c EXCEPT !.fds[q] = c.fds[p], !.meant[q] = c.meant[p]]

LEMMA CopyEnds ==
    ASSUME NEW c \in State, NEW p \in Procs, NEW q \in Procs, MeantOK(c)
    PROVE  /\ c.fds[q] = NoFds => CopyUpTo(c, p, q, 0) = c
           /\ CopyUpTo(c, p, q, Fds) = Forked(c, p, q)
<1>1. \A m \in Fd : ~(m <= 0) /\ m <= Fds
  BY FilesAssumption DEF Fd
<1>2. c.fds \in [Procs -> [Fd -> 0..Slots]] /\ c.meant \in [Procs -> [Fd -> 0..Objects]]
  BY DEF State
<1>3. ASSUME c.fds[q] = NoFds PROVE CopyUpTo(c, p, q, 0) = c
  <2>1. FirstOf(c.fds[p], 0, NoSlot) = c.fds[q]
    BY <1>1, <1>3 DEF NoFds, FirstOf
  <2>2. \A m \in Fd : c.meant[q][m] = NULL
    BY <1>3 DEF MeantOK, NoFds
  <2>3. FirstOf(c.meant[p], 0, NULL) = c.meant[q]
    BY <1>1, <1>2, <2>2 DEF FirstOf
  <2>4. CopyUpTo(c, p, q, 0) = [c EXCEPT !.fds[q] = c.fds[q], !.meant[q] = c.meant[q]]
    BY <2>1, <2>3 DEF CopyUpTo
  <2>5. /\ [c.fds EXCEPT ![q] = c.fds[q]] = c.fds /\ [c.meant EXCEPT ![q] = c.meant[q]] = c.meant
    BY <1>2
  <2>6. CopyUpTo(c, p, q, 0) = [c EXCEPT !.fds = c.fds, !.meant = c.meant]
    BY <2>4, <2>5 DEF State
  <2> QED
    BY <2>6 DEF State
<1>4. FirstOf(c.fds[p], Fds, NoSlot) = c.fds[p]
  BY <1>1, <1>2 DEF FirstOf
<1>5. FirstOf(c.meant[p], Fds, NULL) = c.meant[p]
  BY <1>1, <1>2 DEF FirstOf
<1>6. CopyUpTo(c, p, q, Fds) = Forked(c, p, q)
  BY <1>4, <1>5 DEF CopyUpTo, Forked
<1> QED
  BY <1>3, <1>6

\* update_inode_open_cnts, and the child with the descriptors of p.
LEMMA ForkedOK ==
    ASSUME NEW st, NEW pcs, NEW sh, StateOK(st, pcs, sh), NEW p \in Procs, NEW q \in Procs,
           p # q, st.fds[q] = NoFds,
           \A n \in Fd : LET s == st.fds[p][n] IN
                         s \in Slot /\ st.ft[s].fd_flag # "pipe" => s \in sh,
           NEW c, c = update_inode_open_cnts(st, p)
    PROVE  /\ c \in State /\ c.fds = st.fds /\ c.meant = st.meant
           /\ StateOK(Forked(c, p, q), pcs, sh)
<1> DEFINE T == {x \in State : ObjectsOK(x, pcs)}
           G == [y \in T \X Fd |-> Inherited(y[1], p, y[2])]
           a == CHOOSE f : f = [n \in 0..Fds |-> IF n = 0 THEN st ELSE Inherited(f[n - 1], p, n)]
<1>1. Fds \in Fd /\ Fds \in Nat /\ 0 \in 0..Fds /\ Fds \in 0..Fds
      /\ \A n \in Fd : n # 0 /\ n \in 0..Fds /\ n - 1 \in 0..Fds
  BY FilesAssumption DEF Fd
<1>2. ASSUME NEW x \in T, NEW n \in Fd
      PROVE  LET r == Inherited(x, p, n) IN
             /\ r \in T /\ r.fds = x.fds /\ r.meant = x.meant /\ InheritedOn(x, r, x.fds[p][n])
  <2> DEFINE r == Inherited(x, p, n)
  <2>1. r \in State /\ r.fds = x.fds /\ r.meant = x.meant /\ InheritedOn(x, r, x.fds[p][n])
    BY InheritedFields DEF ObjectsOK
  <2>2. ObjectsOK(r, pcs)
    BY <2>1, InheritedObjects
  <2> QED
    BY <2>1, <2>2
<1>3. G \in [T \X Fd -> T] /\ \A x \in T, n \in Fd : G[<<x, n>>] = Inherited(x, p, n)
  <2> HIDE DEF T
  <2> QED
    BY <1>2
<1>4. st \in T /\ MeantOK(st)
  BY DEF StateOK
<1>5. \E f : f = [n \in 0..Fds |-> IF n = 0 THEN st ELSE Inherited(f[n - 1], p, n)]
  <2> HIDE DEF T, G
  <2>1. PICK g \in [0..Fds -> T] : g[0] = st /\ \A n \in Fd : g[n] = G[<<g[n - 1], n>>]
    <3>1. Round(G, T) /\ st \in T
      BY <1>3, <1>4 DEF Round
    <3>2. PICK g : Run(g, T, st, G)
      BY <3>1, Rounds
    <3> QED
      BY <3>2 DEF Run
  <2>2. \A n \in 0..Fds : g[n] = IF n = 0 THEN st ELSE Inherited(g[n - 1], p, n)
    <3>1. \A n \in 0..Fds : n = 0 \/ n \in Fd
      BY <1>1 DEF Fd
    <3> QED
      BY <1>1, <1>3, <2>1, <3>1
  <2>3. g = [n \in 0..Fds |-> IF n = 0 THEN st ELSE Inherited(g[n - 1], p, n)]
    BY <2>2
  <2> QED
    BY <2>3
<1>6. a = [n \in 0..Fds |-> IF n = 0 THEN st ELSE Inherited(a[n - 1], p, n)]
  BY <1>5, Zenon
<1>7. c = a[Fds]
  BY Zenon DEF update_inode_open_cnts
<1> HIDE DEF a
<1>8. a[0] = st /\ \A n \in Fd : a[n] = Inherited(a[n - 1], p, n)
  BY <1>1, <1>6
<1> DEFINE Same(x) == /\ x.fds = st.fds /\ x.meant = st.meant
                      /\ \A t \in Slot : x.ft[t].fd_flag = st.ft[t].fd_flag
           B == {n \in 0..Fds : /\ a[n] \in T /\ Same(a[n])
                                /\ StateOK(CopyUpTo(a[n], p, q, n), pcs, sh)}
<1>9. 0 \in B
  <2>1. CopyUpTo(st, p, q, 0) = st
    BY <1>4, CopyEnds
  <2> QED
    BY <1>1, <1>4, <1>8, <2>1
<1>10. ASSUME NEW n \in Fd, n - 1 \in B PROVE n \in B
  <2> DEFINE x == a[n - 1]
             r == a[n]
             s == x.fds[p][n]
             j == CopyUpTo(x, p, q, n - 1)
             k == CopyUpTo(r, p, q, n)
  <2>1. x \in T /\ Same(x) /\ StateOK(j, pcs, sh)
    BY <1>10
  <2>2. r = Inherited(x, p, n)
    BY <1>8
  <2> HIDE DEF x, r
  <2>3. r \in T /\ r.fds = x.fds /\ r.meant = x.meant /\ InheritedOn(x, r, s)
    BY <1>2, <2>1, <2>2
  <2>4. \A t \in Slot : r.ft[t].fd_flag = x.ft[t].fd_flag
    <3> HIDE DEF s
    <3> QED
      BY <2>3 DEF InheritedOn
  <2>5. Same(r)
    BY <2>1, <2>3, <2>4
  <2>6. CopiedFd(j, k, p, q, n) /\ j.fds[p][n] = s /\ InheritedOn(j, k, s)
    <3>1. /\ CopyOf(x, j, p, q, n - 1) /\ CopyOf(r, k, p, q, n) /\ x \in State /\ r \in State
      BY <1>1, <2>1, <2>3, CopyFields
    <3> HIDE DEF j, k
    <3>2. InheritedOn(x, r, x.fds[p][n])
      BY <2>3
    <3> QED
      BY <2>3, <3>1, <3>2, CopyNext
  <2>7. k \in State /\ j.ft = x.ft
    <3>1. CopyOf(x, j, p, q, n - 1) /\ CopyOf(r, k, p, q, n)
      BY <1>1, <2>1, <2>3, CopyFields
    <3> HIDE DEF j, k
    <3> QED
      BY <3>1 DEF CopyOf
  <2>8. s \in Slot /\ j.ft[s].fd_flag # "pipe" => s \in sh
    <3> HIDE DEF j
    <3>1. s = st.fds[p][n] /\ \A t \in Slot : j.ft[t].fd_flag = st.ft[t].fd_flag
      BY <2>1, <2>7
    <3> QED
      BY <3>1
  <2> HIDE DEF j, k, s
  <2>9. StateOK(k, pcs, sh)
    BY <2>1, <2>6, <2>7, <2>8, ForkRound
  <2> QED
    BY <1>1, <2>3, <2>5, <2>9 DEF k, r
<1>11. Fds \in B
  <2> HIDE DEF B
  <2> QED
    BY <1>1, <1>9, <1>10, EveryRound
<1>12. c \in T /\ Same(c) /\ StateOK(CopyUpTo(c, p, q, Fds), pcs, sh)
  BY <1>7, <1>11
<1>13. c \in State /\ MeantOK(c)
  BY <1>4, <1>12 DEF MeantOK
<1>14. CopyUpTo(c, p, q, Fds) = Forked(c, p, q)
  BY <1>13, CopyEnds
<1> QED
  BY <1>12, <1>13, <1>14

\* sys_fork.
LEMMA ForkStep ==
    ASSUME FilesInv, fault = NoSlot, NEW p \in Procs, NEW q \in Procs, sys_fork(p, q)
    PROVE  FilesInv'
<1> DEFINE c == update_inode_open_cnts(Now, p)
           r == [c EXCEPT !.fds[q] = fd_table[p], !.meant[q] = meant[p]]
           qcs == [pc EXCEPT ![q] = Running]
           files == {fd_table[p][fd] : fd \in Fd} \ {NoSlot}
           newly == {s \in files : file_table[s].fd_flag # "pipe"}
           ch == shared \cup newly
<1>1. /\ StateOK(Now, pc, shared) /\ shared \in SUBSET Slot
      /\ Now \in State /\ pc \in [Procs -> Place] /\ ObjectsOK(Now, pc) /\ MeantOK(Now)
      /\ \A t \in Slot : SlotOK(Now, pc, shared, t)
      /\ fd_table \in [Procs -> [Fd -> 0..Slots]]
  BY NowFields DEF FilesInv, StateOK, State
<1>2. pc[p] = Running /\ pc[q] = Gone /\ Becomes(r, qcs, newly)
  BY DEF sys_fork
<1>3. p # q /\ q \notin Creators(pc) /\ (\A s : q \notin Waiters(pc, s)) /\ fd_table[q] = NoFds
  <2>1. p # q
    BY <1>2, Places
  <2>2. q \notin Creators(pc) /\ \A s : q \notin Waiters(pc, s)
    BY <1>2, Places DEF Creators, Waiters
  <2> QED
    BY <1>2, <2>1, <2>2 DEF FilesInv
<1>4. newly \in SUBSET Slot
  BY <1>1 DEF Slot, NoSlot
<1>5. \A n \in Fd : LET s == fd_table[p][n] IN
                    s \in Slot /\ file_table[s].fd_flag # "pipe" => s \in ch
  BY DEF Slot, NoSlot
<1> HIDE DEF newly, files
<1>6. Moved(pc, qcs, q, Running)
  BY <1>1, MovedEx, Places
<1> HIDE DEF qcs
<1>7. StateOK(Now, qcs, ch)
  <2>1. ObjectsOK(Now, qcs)
    BY <1>1, <1>3, <1>6, CreatesFrame, Places DEF ObjectsOK
  <2>2. ASSUME NEW t \in Slot PROVE SlotOK(Now, qcs, ch, t)
    <3>1. Waiters(qcs, t) = Waiters(pc, t) /\ \A w \in Waiters(pc, t) : qcs[w].inode = pc[w].inode
      BY <1>2, <1>6, Places DEF Waiters, Moved
    <3>2. SameHome(Now, Now, t)
      BY DEF SameHome
    <3> QED
      BY <1>1, <3>1, <3>2, SlotFrame
  <2>3. FaultOK(Now, ch)
    BY NowFields DEF FaultOK
  <2> QED
    BY <1>1, <1>6, <2>1, <2>2, <2>3 DEF StateOK, Moved
<1> HIDE DEF ch
<1>8. c \in State /\ c.fds = fd_table /\ c.meant = meant /\ StateOK(Forked(c, p, q), qcs, ch)
  <2>1. Now.fds[q] = NoFds
    BY <1>3, NowFields
  <2>2. \A n \in Fd : LET s == Now.fds[p][n] IN
                      s \in Slot /\ Now.ft[s].fd_flag # "pipe" => s \in ch
    BY <1>5, NowFields
  <2>3. /\ c \in State /\ c.fds = Now.fds /\ c.meant = Now.meant
        /\ StateOK(Forked(c, p, q), qcs, ch)
    BY <1>3, <1>7, <2>1, <2>2, ForkedOK
  <2> QED
    BY <2>3, NowFields
<1> HIDE DEF c
<1>9. r = Forked(c, p, q)
  BY <1>8, Zenon DEF Forked
<1> HIDE DEF r
<1>10. StateOK(Now', pc', shared') /\ shared' \subseteq Slot
  BY <1>1, <1>2, <1>4, <1>8, <1>9, BecomesOK DEF ch
<1>11. ASSUME NEW x \in Procs, pc'[x] = Gone PROVE fd_table'[x] = NoFds
  <2>1. pc' = qcs /\ fd_table' = r.fds
    BY <1>2 DEF Becomes
  <2>2. x # q /\ pc[x] = Gone
    BY <1>6, <1>11, <2>1, Places DEF Moved
  <2>3. fd_table[x] = NoFds
    BY <2>2 DEF FilesInv
  <2>4. r.fds = [c.fds EXCEPT ![q] = c.fds[p]]
    BY <1>8, <1>9 DEF Forked, State
  <2> QED
    BY <1>1, <1>8, <2>1, <2>2, <2>3, <2>4
<1> QED
  BY <1>10, <1>11 DEF FilesInv

-----------------------------------------------------------------------------
(* The invariant, and what the runs check of it. *)

LEMMA InitHolds ==
    ASSUME Init
    PROVE  FilesInv
<1>1. Now \in State
  <2>1. 0 \in 0..Slots /\ 0 \in 0..Objects
    BY FilesAssumption
  <2>2. OpenFileOf(NULL, "read", "read", 0) \in OpenFile
    BY <2>1 DEF OpenFileOf, OpenFile, NULL, Fillers, Flags
  <2>3. file_table \in [Slot -> OpenFile]
    BY <2>2 DEF Init
  <2>4. fd_table \in [Procs -> [Fd -> 0..Slots]] /\ meant \in [Procs -> [Fd -> 0..Objects]]
    BY <2>1 DEF Init, NoFds, NoSlot, NULL
  <2>5. heap \in [Object -> {Free, PipeBuffer} \cup Inode] /\ open_inodes \in Seq(Object)
    BY DEF Init
  <2>6. lost \in SUBSET Slot /\ unguarded \in SUBSET FileSet /\ fault \in 0..Astray
    BY <2>1, FilesAssumption DEF Init, NoSlot, Astray
  <2>7. home \in [Object -> Space]
    BY DEF Init, Space
  <2> QED
    BY <2>3, <2>4, <2>5, <2>6, <2>7 DEF Now, State
<1>2. pc \in [Procs -> Place] /\ \A p \in Procs : pc[p].at \notin {"open", "create", "entry"}
  BY Places DEF Init
<1>3. Creators(pc) = {} /\ \A s : Waiters(pc, s) = {}
  BY <1>2 DEF Creators, Waiters
<1>4. \A s \in Slot : file_table[s].fd_inode = NULL /\ file_table[s].fd_flag = "read"
  BY DEF Init, OpenFileOf
<1>5. \A p \in Procs, fd \in Fd : fd_table[p][fd] = NoSlot /\ meant[p][fd] = NULL
  BY DEF Init, NoFds
<1>6. \A o \in Object : heap[o].kind = "free"
  BY DEF Init, Free
<1>7. Range(open_inodes) = {} /\ IsInjective(open_inodes)
  <2>1. open_inodes \in Seq(Object) /\ Len(open_inodes) = 0
    BY DEF Init
  <2>2. 1..Len(open_inodes) = {}
    BY <2>1
  <2>3. \A e : e \notin Range(open_inodes)
    BY <2>1, <2>2, RangeIndex
  <2>4. IsInjective(open_inodes)
    BY <2>1, <2>2, RangeIndex
  <2> QED
    BY <2>3, <2>4
<1>8. ObjectsOK(Now, pc)
  <2>1. ListOK(Now) /\ KindsOK(Now)
    BY <1>4, <1>7, NowFields DEF ListOK, KindsOK
  <2>2. CountsOK(Now)
    BY <1>6, NowFields DEF CountsOK
  <2>3. CreatesOK(Now, pc)
    BY <1>3, <1>4, NowFields DEF CreatesOK
  <2>4. WritersOK(Now)
    BY <1>4, <1>7, NowFields DEF WritersOK, Writes
  <2> QED
    BY <2>1, <2>2, <2>3, <2>4 DEF ObjectsOK
<1>9. MeantOK(Now) /\ FaultOK(Now, shared)
  BY <1>5, NowFields DEF MeantOK, FaultOK, Init
<1>10. ASSUME NEW s \in Slot PROVE SlotOK(Now, pc, shared, s)
  <2>1. Descs(fd_table, s) = {}
    BY <1>5 DEF Descs, Slot, NoSlot
  <2>2. HeldOK(Now, pc, s)
    BY <1>4, NowFields DEF HeldOK
  <2>3. AloneOK(Now, pc, s)
    BY <1>3, <1>4, <2>1, NowFields DEF AloneOK, AtHome
  <2> QED
    BY <2>2, <2>3 DEF SlotOK
<1>11. StateOK(Now, pc, shared)
  BY <1>1, <1>2, <1>8, <1>9, <1>10 DEF StateOK
<1>12. shared \subseteq Slot /\ \A p \in Procs : fd_table[p] = NoFds
  BY DEF Init
<1> QED
  BY <1>11, <1>12 DEF FilesInv

\* file_open, whether or not the inode is in the list.
LEMMA FileOpenStep ==
    ASSUME FilesInv, fault = NoSlot, NEW p \in Procs, NEW f \in FileSet, NEW flag \in Flags,
           pc[p] = Running \/ pc[p].at = "reopen", file_open(p, f, flag)
    PROVE  FilesInv'
<1>1. CASE Walked(f) \subseteq InSpace(Now, p)
  <2>1. CASE Found(f) # 0
    BY <1>1, <2>1, OpenListed
  <2>2. CASE Found(f) = 0
    BY <1>1, <2>2, OpenUnlisted
  <2> QED
    BY <2>1, <2>2
<1>2. CASE ~(Walked(f) \subseteq InSpace(Now, p))
  <2>1. open_inodes \in Seq(Object)
    BY NowFields DEF FilesInv, StateOK, State
  <2>2. Walked(f) \in SUBSET Object
    BY <2>1, FoundListed
  <2>3. \E o \in Object : home[o] # Kernel
    BY <1>2, <2>2, NotThere, NowFields
  <2>4. Becomes(Strayed(Now), pc, {})
    BY <1>2, Zenon DEF file_open
  <2> QED
    BY <2>3, <2>4, StrayStep
<1> QED
  BY <1>1, <1>2

LEMMA OpenStep ==
    ASSUME FilesInv, fault = NoSlot, NEW p \in Procs, NEW f \in FileSet, NEW flag \in Flags,
           sys_open(p, f, flag)
    PROVE  FilesInv'
<1>1. pc[p] = Running /\ file_open(p, f, flag)
  BY DEF sys_open
<1> QED
  BY <1>1, FileOpenStep

LEMMA ReopenStep ==
    ASSUME FilesInv, fault = NoSlot, NEW p \in Procs, NEW f \in FileSet, reopen(p, f)
    PROVE  FilesInv'
<1>1. pc[p].at = "reopen" /\ file_open(p, f, pc[p].flag)
  BY DEF reopen
<1>2. pc[p].flag \in Flags
  <2>1. pc[p] \in Place
    BY DEF FilesInv, StateOK
  <2> QED
    BY <1>1, <2>1 DEF Place, Gone, Running
<1> QED
  BY <1>1, <1>2, FileOpenStep

\* list_push of an inode that was read or created.
LEMMA PushStep ==
    ASSUME FilesInv, fault = NoSlot, NEW p \in Procs, inode_read(p) \/ inode_listed(p)
    PROVE  FilesInv'
<1>1. CASE PushedOn \subseteq InSpace(Now, p)
  BY <1>1, InodeReadStep, InodeListedStep
<1>2. CASE ~(PushedOn \subseteq InSpace(Now, p))
  <2>1. open_inodes \in Seq(Object)
    BY NowFields DEF FilesInv, StateOK, State
  <2>2. PushedOn \in SUBSET Object
    <3>1. open_inodes # <<>> => Head(open_inodes) \in Object
      BY <2>1
    <3> QED
      BY <3>1 DEF PushedOn
  <2>3. \E o \in Object : home[o] # Kernel
    BY <1>2, <2>2, NotThere, NowFields
  <2>4. Becomes(Strayed(Now), pc, {})
    <3>1. CASE inode_read(p)
      BY <1>2, <3>1, Zenon DEF inode_read
    <3>2. CASE inode_listed(p)
      BY <1>2, <3>2, Zenon DEF inode_listed
    <3> QED
      BY <3>1, <3>2
  <2> QED
    BY <2>3, <2>4, StrayStep
<1> QED
  BY <1>1, <1>2

\* Every slot, count and list entry is accounted for in every reachable state,
\* whatever opens, closes, forks and exits overlap.
THEOREM FilesInvariant == Spec => []FilesInv
<1>1. Init => FilesInv
  BY InitHolds
<1>2. FilesInv /\ [Next]_vars => FilesInv'
  <2> SUFFICES ASSUME FilesInv, [Next]_vars PROVE FilesInv'
    OBVIOUS
  <2>1. CASE UNCHANGED vars
    <3>1. Now' = Now /\ pc' = pc /\ shared' = shared /\ fault' = fault /\ fd_table' = fd_table
      BY <2>1 DEF vars, Now
    <3> QED
      BY <3>1 DEF FilesInv
  <2>2. CASE Next
    <3>1. fault = NoSlot
      BY <2>2 DEF Next
    <3>2. ASSUME NEW p \in Procs, NEW f \in FileSet, NEW flag \in Flags, sys_open(p, f, flag)
          PROVE  FilesInv'
      BY <3>1, <3>2, OpenStep
    <3>5. ASSUME NEW p \in Procs, NEW f \in FileSet, NEW n \in Names, NEW flag \in Flags,
                 file_create(p, f, n, flag)
          PROVE  FilesInv'
      BY <3>1, <3>5, FileCreateStep
    <3>3. ASSUME NEW p \in Procs, inode_read(p) \/ inode_listed(p) PROVE FilesInv'
      BY <3>1, <3>3, PushStep
    <3>4. ASSUME NEW p \in Procs, sync_dir_entry(p) PROVE FilesInv'
      BY <3>1, <3>4, EntryStep
    <3>6. ASSUME NEW p \in Procs, NEW f \in FileSet, reopen(p, f) PROVE FilesInv'
      BY <3>1, <3>6, ReopenStep
    <3>7. ASSUME NEW p \in Procs, sys_pipe(p) PROVE FilesInv'
      BY <3>1, <3>7, PipeStep
    <3>8. ASSUME NEW p \in Procs, sys_exit(p) PROVE FilesInv'
      BY <3>1, <3>8, ExitStep
    <3>9. ASSUME NEW p \in Procs, NEW fd \in Fd, sys_close(p, fd) PROVE FilesInv'
      BY <3>1, <3>9, CloseStep
    <3>10. ASSUME NEW p \in Procs, NEW q \in Procs, sys_fork(p, q) PROVE FilesInv'
      BY <3>1, <3>10, ForkStep
    <3> QED
      BY <2>2, <3>2, <3>3, <3>4, <3>5, <3>6, <3>7, <3>8, <3>9, <3>10 DEF Next
  <2> QED
    BY <2>1, <2>2
<1> QED
  BY <1>1, <1>2, PTL DEF Spec

\* A descriptor on a slot that nobody else took leads to what it was opened on.
\* NULL reaches file_close only through a slot that two parties took, and an
\* inode is missing only if file_create took one from the heap of a process.
THEOREM DescriptorsLead == Spec => []DescriptorsRight
<1>1. FilesInv => DescriptorsRight
  <2> SUFFICES ASSUME FilesInv PROVE DescriptorsRight
    OBVIOUS
  <2>1. /\ Now \in State /\ FaultOK(Now, shared)
        /\ \A s \in Slot : SlotOK(Now, pc, shared, s)
    BY DEF FilesInv, StateOK
  <2>2. ASSUME NEW p \in Procs, NEW fd \in Fd, fd_table[p][fd] # NoSlot,
               fd_table[p][fd] \notin shared
        PROVE  file_table[fd_table[p][fd]].fd_inode = meant[p][fd]
    <3> DEFINE s == fd_table[p][fd]
    <3>1. s \in Slot
      BY <2>1, <2>2, NowFields DEF State, Slot, NoSlot
    <3>2. AloneOK(Now, pc, s) /\ <<p, fd>> \in Descs(fd_table, s)
      BY <2>1, <2>2, <3>1 DEF SlotOK, Descs
    <3>3. meant[<<p, fd>>[1]][<<p, fd>>[2]] = file_table[s].fd_inode
      BY <3>2, NowFields, Zenon DEF AloneOK
    <3> QED
      BY <3>3
  <2>3. fault # NoSlot => \/ fault \in shared
                          \/ fault = Astray /\ \E o \in Object : home[o] # Kernel
    BY <2>1, NowFields DEF FaultOK
  <2> QED
    BY <2>2, <2>3 DEF DescriptorsRight
<1> QED
  BY <1>1, FilesInvariant, PTL

\* A slot that is neither shared nor lost is that of a process that is there to
\* access its inode, so the inode has not gone with its creator.
LEMMA HomesKnown ==
    ASSUME FilesInv, NEW s \in Slot, NEW o \in Object, file_table[s].fd_inode = o,
           heap[o].kind = "inode", home[o] = Dead
    PROVE  s \in shared \cup lost
<1>1. Now \in State /\ KindsOK(Now) /\ SlotOK(Now, pc, shared, s)
  BY DEF FilesInv, StateOK, ObjectsOK
<1>2. o # NULL /\ "inode" # "pipe"
  BY DEF Object, NULL
<1>3. file_table[s].fd_flag # "pipe"
  BY <1>1, <1>2, NowFields, Zenon DEF KindsOK
<1>4. SUFFICES ASSUME s \notin shared, s \notin lost PROVE FALSE
  OBVIOUS
<1>5. AloneOK(Now, pc, s)
  BY <1>1, <1>4 DEF SlotOK
<1>6. Descs(fd_table, s) # {} \/ Waiters(pc, s) # {}
  BY <1>1, <1>2, <1>4, NowFields DEF SlotOK, HeldOK
<1>7. ASSUME NEW p \in Procs, AtHome(Now, s, p) PROVE FALSE
  <2>1. home[o] \in {Kernel, p}
    BY <1>2, <1>3, <1>7, NowFields DEF AtHome
  <2> QED
    BY <2>1, FilesAssumption DEF Kernel, Dead
<1>8. CASE Waiters(pc, s) # {}
  <2>1. PICK p \in Waiters(pc, s) : TRUE
    BY <1>8
  <2>2. p \in Procs
    BY <2>1 DEF Waiters
  <2>3. AtHome(Now, s, p)
    BY <1>5, <2>1 DEF AloneOK
  <2> QED
    BY <1>7, <2>2, <2>3
<1>9. CASE Descs(fd_table, s) # {}
  <2>1. PICK x \in Descs(fd_table, s) : TRUE
    BY <1>9
  <2>2. x[1] \in Procs
    BY <2>1 DEF Descs
  <2>3. AtHome(Now, s, x[1])
    BY <1>5, <2>1, NowFields DEF AloneOK
  <2> QED
    BY <1>7, <2>2, <2>3
<1> QED
  BY <1>6, <1>8, <1>9

\* No slot leads to an inode or a pipe that was freed with the last of its count,
\* a listed inode was not freed, and an inode goes with the process that created
\* it only from under shared and lost slots.
THEOREM NoSlotDangles == Spec => []SlotsAlive
<1>1. FilesInv => SlotsAlive
  <2> SUFFICES ASSUME FilesInv PROVE SlotsAlive
    OBVIOUS
  <2>1. Now \in State /\ ListOK(Now) /\ KindsOK(Now) /\ CountsOK(Now)
    BY DEF FilesInv, StateOK, ObjectsOK
  <2>2. open_inodes \in Seq(Object)
    BY <2>1, NowFields DEF State
  <2>3. \A n \in 1..Len(open_inodes) : heap[open_inodes[n]].kind = "inode"
    BY <2>1, <2>2, NowFields, RangeIndex DEF ListOK
  <2>4. ASSUME NEW o \in Object, SlotsOn(file_table, o) # {} PROVE heap[o].kind # "free"
    <3>1. PICK s \in Slot : file_table[s].fd_inode = o
      BY <2>4 DEF SlotsOn
    <3>2. o # NULL
      BY DEF Object, NULL
    <3> QED
      BY <2>1, <3>1, <3>2, NowFields DEF KindsOK
  <2>5. ASSUME NEW o \in Object, heap[o].kind = "inode", o \in Range(open_inodes)
        PROVE  heap[o].i_open_cnts >= Cardinality(SlotsOn(file_table, o))
    <3>1. Cardinality(SlotsOn(file_table, o)) <= heap[o].i_open_cnts + 0
      BY <2>1, <2>5, NowFields DEF CountsOK
    <3>2. heap[o].i_open_cnts \in Int /\ Cardinality(SlotsOn(file_table, o)) \in Nat
      BY <2>1, <2>5, NowFields, InodeFields, SlotsOnFinite DEF Inode
    <3> QED
      BY <3>1, <3>2
  <2>6. ASSUME NEW o \in Object, heap[o].kind = "inode", home[o] = Dead
        PROVE  SlotsOn(file_table, o) \subseteq shared \cup lost
    BY <2>6, HomesKnown DEF SlotsOn
  <2> QED
    BY <2>3, <2>4, <2>5, <2>6 DEF SlotsAlive, SlotsOn
<1> QED
  BY <1>1, FilesInvariant, PTL

\* Two descriptors that write one file share a slot, or write_deny stopped
\* telling, or one is the descriptor of file_create.
THEOREM WritersApart == Spec => []OneWriter
<1>1. FilesInv => OneWriter
  <2> SUFFICES ASSUME FilesInv,
                      NEW p \in Procs, NEW q \in Procs, NEW fd \in Fd, NEW gd \in Fd,
                      NEW s, s = fd_table[p][fd], NEW t, t = fd_table[q][gd],
                      <<p, fd>> # <<q, gd>>, s \in Slot, t \in Slot,
                      s \notin shared, t \notin shared,
                      file_table[s].fd_flag = "write", file_table[t].fd_flag = "write",
                      file_table[s].fd_inode # NULL, file_table[t].fd_inode # NULL,
                      file_table[s].by # "create", file_table[t].by # "create",
                      heap[file_table[s].fd_inode].file = heap[file_table[t].fd_inode].file
               PROVE  heap[file_table[s].fd_inode].file \in unguarded
    BY DEF OneWriter
  <2>1. /\ Now \in State /\ KindsOK(Now) /\ WritersOK(Now)
        /\ \A u \in Slot : SlotOK(Now, pc, shared, u)
    BY DEF FilesInv, StateOK, ObjectsOK
  <2>2. <<p, fd>> \in Descs(fd_table, s) /\ <<q, gd>> \in Descs(fd_table, t)
    BY DEF Descs
  <2>3. ASSUME NEW u \in {s, t} PROVE AloneOK(Now, pc, u) /\ Writes(Now, u)
    <3>1. AloneOK(Now, pc, u) /\ Descs(Now.fds, u) # {}
      BY <2>1, <2>2, NowFields DEF SlotOK
    <3>2. Now.ft[u].by # "refused"
      BY <3>1, NowFields DEF AloneOK
    <3>3. Now.ft[u].by \in {"write", "create"}
      <4>1. Now.ft[u] \in OpenFile /\ Now.ft[u].fd_flag = "write"
        BY <2>1, NowFields DEF State
      <4> QED
        BY <3>2, <4>1 DEF OpenFile, Fillers
    <3> QED
      BY <3>1, <3>3, NowFields DEF Writes
  <2>4. s # t
    <3>1. SUFFICES ASSUME s = t PROVE FALSE
      OBVIOUS
    <3>2. AloneOK(Now, pc, s) /\ Now.ft[s].fd_flag # "pipe" /\ Now.fds = fd_table
      BY <2>3, NowFields
    <3>3. \A x, y \in Descs(fd_table, s) : x = y
      BY <3>2 DEF AloneOK
    <3> QED
      BY <2>2, <3>1, <3>3
  <2>5. Writes(Now, s) /\ Writes(Now, t)
    BY <2>3
  <2>6. CASE file_table[s].fd_inode = file_table[t].fd_inode
    BY <2>1, <2>4, <2>5, <2>6, NowFields DEF WritersOK
  <2>7. CASE file_table[s].fd_inode # file_table[t].fd_inode
    <3>1. file_table[s].fd_inode \in Range(open_inodes) /\ file_table[t].fd_inode \in Range(open_inodes)
      BY <2>1, NowFields DEF KindsOK
    <3> QED
      BY <2>1, <2>7, <3>1, NowFields DEF WritersOK
  <2> QED
    BY <2>6, <2>7
<1> QED
  BY <1>1, FilesInvariant, PTL

\* A slot stays taken only for a descriptor, for a call in progress, or after a
\* call that failed when it had the slot.
THEOREM NoSlotLeaks == Spec => []SlotsHeld
<1>1. FilesInv => SlotsHeld
  <2> SUFFICES ASSUME FilesInv, NEW s \in Slot, file_table[s].fd_inode # NULL
               PROVE  Holders(fd_table, s) # {} \/ Waiters(pc, s) # {} \/ s \in lost
    BY DEF SlotsHeld
  <2>1. HeldOK(Now, pc, s)
    BY DEF FilesInv, StateOK, SlotOK
  <2>2. Descs(fd_table, s) # {} \/ Waiters(pc, s) # {} \/ s \in lost
    BY <2>1, NowFields DEF HeldOK
  <2> QED
    BY <2>2, DescsFinite
<1> QED
  BY <1>1, FilesInvariant, PTL
=============================================================================
