---------------------------- MODULE AttachProofs ----------------------------
(***************************************************************************)
(* Proofs about how a device of three drivers comes up and goes:           *)
(* MySerialPnp for any finite set of devices and any number of ports of    *)
(* other drivers, Ac97 for any set of devices and any parameter tables,    *)
(* Rl8029 for any limits of the MTU.  The three share no state.            *)
(***************************************************************************)
EXTENDS MySerialPnp, Ac97, Rl8029, FiniteSetTheorems, TLAPS

-----------------------------------------------------------------------------
(* MySerialPnp                                                             *)

Counted == {d \in Devices : incremented[d]}
Steps == {"absent", "create", "queue", "link", "registry", "count", "started", "failed"}

PnpType ==
    /\ count \in Int /\ others \in SUBSET Int /\ IsFiniteSet(others)
    /\ pc \in [Devices -> Steps] /\ name \in [Devices -> Int]
    /\ incremented \in [Devices -> BOOLEAN]
    /\ holes \in BOOLEAN

\* A device is counted from the end of EvtDeviceAdd on, one EvtDeviceAdd runs at
\* a time, and no two ports have one name.
PnpOrder ==
    /\ \A d \in Devices :
          /\ incremented[d] => pc[d] \in {"started", "failed"}
          /\ pc[d] = "started" => incremented[d]
          /\ Exists(d) => name[d] \notin others
    /\ \A d, e \in Devices :
          pc[d] \notin {"absent", "started"} /\ pc[e] \notin {"absent", "started"} => d = e
    /\ \A d, e \in Devices : Exists(d) /\ Exists(e) /\ name[d] = name[e] => d = e

PnpInv == PnpType /\ PnpOrder

LEMMA PnpInit == Init => PnpInv
<1> SUFFICES ASSUME Init PROVE PnpInv
    BY Zenon
<1>1. incremented \in [Devices -> BOOLEAN] /\ holes \in BOOLEAN
    BY Zenon DEF Init
<1>2. /\ pc \in [Devices -> Steps] /\ name \in [Devices -> Int]
      /\ count \in Int /\ others \in SUBSET Int
    BY SMT DEF Init, Steps
<1>3. IsFiniteSet(others)
    BY FS_EmptySet, Zenon DEF Init
<1>4. \A d \in Devices : pc[d] = "absent" /\ incremented[d] = FALSE
    BY Zenon DEF Init
<1> QED BY <1>1, <1>2, <1>3, <1>4, Zenon DEF PnpInv, PnpType, PnpOrder, Exists

LEMMA PnpOthers ==
    ASSUME PnpInv, OtherAdd \/ OtherRemove
    PROVE  PnpInv'
<1>1. CASE OtherAdd
    <2>1. others' \in SUBSET Int /\ count' \in Int
        BY <1>1 DEF OtherAdd, PnpInv, PnpType
    <2>2. IsFiniteSet(others')
        BY <1>1, FS_AddElement, Zenon DEF OtherAdd, PnpInv, PnpType
    <2> QED BY <1>1, <2>1, <2>2, Zenon DEF OtherAdd, NameTaken, Exists, PnpInv, PnpType, PnpOrder
<1>2. CASE OtherRemove
    <2>1. PICK n \in others : others' = others \ {n} /\ holes' = (holes \/ LeavesHole(n))
        BY <1>2, Zenon DEF OtherRemove
    <2>2. others' \in SUBSET Int /\ count' \in Int /\ holes' \in BOOLEAN
        BY <1>2, <2>1 DEF OtherRemove, PnpInv, PnpType
    <2>3. IsFiniteSet(others')
        BY <2>1, FS_RemoveElement, Zenon DEF PnpInv, PnpType
    <2> QED BY <1>2, <2>1, <2>2, <2>3, Zenon DEF OtherRemove, Exists, PnpInv, PnpType, PnpOrder
<1> QED BY <1>1, <1>2, Zenon

LEMMA PnpDevice ==
    ASSUME PnpInv, NEW d \in Devices, EvtDeviceAdd(d) \/ EvtDeviceContextCleanup(d)
    PROVE  PnpInv'
<1> USE DEF PnpInv, PnpType, PnpOrder, Steps, Exists, Goto
<1>1. CASE AddName(d)
    BY <1>1 DEF AddName, Settled
<1>2. CASE AddCreate(d)
    BY <1>2 DEF AddCreate, NameTaken
<1>3. CASE AddQueue(d)
    BY <1>3 DEF AddQueue
<1>4. CASE AddLink(d)
    BY <1>4 DEF AddLink
<1>5. CASE AddRegistry(d)
    BY <1>5 DEF AddRegistry
<1>6. CASE AddCount(d)
    BY <1>6 DEF AddCount
<1>7. CASE EvtDeviceContextCleanup(d)
    BY <1>7 DEF EvtDeviceContextCleanup, Settled
<1> QED BY <1>1, <1>2, <1>3, <1>4, <1>5, <1>6, <1>7, Zenon DEF EvtDeviceAdd

LEMMA PnpNext == PnpInv /\ [Next]_vars => PnpInv'
<1> SUFFICES ASSUME PnpInv, [Next]_vars PROVE PnpInv'
    BY Zenon
<1>1. CASE DriverEntry \/ Unload
    BY <1>1, Zenon DEF DriverEntry, Unload, PnpInv, PnpType, PnpOrder, Exists
<1>2. CASE UNCHANGED vars
    BY <1>2, Zenon DEF vars, PnpInv, PnpType, PnpOrder, Exists
<1> QED BY <1>1, <1>2, PnpOthers, PnpDevice, Zenon DEF Next
-----------------------------------------------------------------------------
(***************************************************************************)
(* The count.                                                              *)
(***************************************************************************)
LEMMA CountedFinite == IsFiniteSet(Counted)
    BY DevicesAssumption, FS_Subset, Zenon DEF Counted

LEMMA CountInit == Init => CountRight
<1> SUFFICES ASSUME Init PROVE CountRight
    OBVIOUS
<1>1. others = {} /\ {d \in Devices : incremented[d]} = {} /\ count = 0
    BY Zenon DEF Init
<1> QED BY <1>1, FS_EmptySet DEF CountRight

\* A step that counts the same devices, and neither adds nor removes others.
LEMMA SameCount ==
    ASSUME CountRight, UNCHANGED <<count, others>>, Counted' = Counted
    PROVE  CountRight'
    BY Zenon DEF CountRight, Counted

LEMMA CountOthers ==
    ASSUME PnpInv, CountRight, OtherAdd \/ OtherRemove
    PROVE  CountRight'
<1> DEFINE k == Cardinality(Counted)
<1>1. k \in Nat /\ count = Cardinality(others) + k /\ Cardinality(others) \in Nat
    BY CountedFinite, FS_CardinalityType, Zenon DEF CountRight, Counted, PnpInv, PnpType
<1>2. Counted' = Counted
    BY Zenon DEF OtherAdd, OtherRemove, Counted
<1>3. CASE OtherAdd
    <2>1. Cardinality(others') = Cardinality(others) + 1
        BY <1>3, FS_AddElement, Zenon DEF OtherAdd, NameTaken, PnpInv, PnpType
    <2> QED BY <1>1, <1>2, <1>3, <2>1 DEF OtherAdd, CountRight, Counted
<1>4. CASE OtherRemove
    <2>1. Cardinality(others') = Cardinality(others) - 1
        BY <1>4, FS_RemoveElement, Zenon DEF OtherRemove, PnpInv, PnpType
    <2> QED BY <1>1, <1>2, <1>4, <2>1 DEF OtherRemove, CountRight, Counted
<1> QED BY <1>3, <1>4, Zenon

LEMMA CountDevice ==
    ASSUME PnpInv, CountRight, NEW d \in Devices, EvtDeviceAdd(d) \/ EvtDeviceContextCleanup(d)
    PROVE  CountRight'
<1> DEFINE k == Cardinality(Counted)
<1>1. k \in Nat /\ count = Cardinality(others) + k /\ Cardinality(others) \in Nat
    BY CountedFinite, FS_CardinalityType, Zenon DEF CountRight, Counted, PnpInv, PnpType
<1>2. CASE AddName(d) \/ AddQueue(d) \/ AddLink(d) \/ AddRegistry(d)
    <2>1. UNCHANGED <<count, others, incremented>>
        BY <1>2, Zenon DEF AddName, AddQueue, AddLink, AddRegistry
    <2> QED BY <2>1, SameCount, Zenon DEF Counted
<1>3. CASE AddCreate(d)
    <2>1. incremented[d] = FALSE /\ incremented' = incremented
        BY <1>3, Zenon DEF AddCreate, PnpInv, PnpType, PnpOrder
    <2> QED BY <1>3, <2>1, SameCount, Zenon DEF AddCreate, Counted
<1>4. CASE AddCount(d)
    <2>1. d \notin Counted
        BY <1>4, Zenon DEF AddCount, Counted, PnpInv, PnpOrder
    <2>2. Counted' = Counted \cup {d}
        BY <1>4, Zenon DEF AddCount, Counted, PnpInv, PnpType
    <2>3. Cardinality(Counted') = k + 1
        BY <2>1, <2>2, CountedFinite, FS_AddElement, Zenon
    <2> QED BY <1>1, <1>4, <2>3 DEF AddCount, CountRight, Counted
<1>5. CASE EvtDeviceContextCleanup(d) /\ incremented[d]
    <2>1. d \in Counted
        BY <1>5, Zenon DEF Counted
    <2>2. Counted' = Counted \ {d}
        BY <1>5, Zenon DEF EvtDeviceContextCleanup, Counted, PnpInv, PnpType
    <2>3. Cardinality(Counted') = k - 1
        BY <2>1, <2>2, CountedFinite, FS_RemoveElement, Zenon
    <2> QED BY <1>1, <1>5, <2>3 DEF EvtDeviceContextCleanup, CountRight, Counted
<1>6. CASE EvtDeviceContextCleanup(d) /\ ~incremented[d]
    <2>1. Counted' = Counted
        BY <1>6, Zenon DEF EvtDeviceContextCleanup, Counted, PnpInv, PnpType
    <2> QED BY <1>6, <2>1, SameCount, Zenon DEF EvtDeviceContextCleanup
<1> QED BY <1>2, <1>3, <1>4, <1>5, <1>6, Zenon DEF EvtDeviceAdd

LEMMA CountNext == PnpInv /\ CountRight /\ [Next]_vars => CountRight'
<1> SUFFICES ASSUME PnpInv, CountRight, [Next]_vars PROVE CountRight'
    BY Zenon
<1>1. CASE DriverEntry \/ Unload \/ UNCHANGED vars
    <2>1. UNCHANGED <<count, others, incremented>>
        BY <1>1, Zenon DEF DriverEntry, Unload, vars
    <2> QED BY <2>1, SameCount, Zenon DEF Counted
<1> QED BY <1>1, CountOthers, CountDevice, Zenon DEF Next

\* The system-wide count of serial ports is right for any number of devices and
\* of ports of other drivers, whatever step of EvtDeviceAdd fails.
THEOREM CountKept == Spec => []CountRight
    BY PnpInit, PnpNext, CountInit, CountNext, PTL DEF Spec
-----------------------------------------------------------------------------
(***************************************************************************)
(* The names.  As long as no port has gone that was not the last, the      *)
(* counted ports are 0..count-1, a device that is being added has the next *)
(* number, and before it exists other drivers may have taken that number.  *)
(***************************************************************************)
Numbers == others \cup {name[d] : d \in Counted}

NameInv ==
    ~holes =>
        /\ Numbers = 0..(count - 1)
        /\ \A d \in Devices :
              /\ pc[d] \in {"queue", "link", "registry", "count"} => name[d] = count
              /\ pc[d] = "create" => name[d] \in 0..count /\ name[d]..(count - 1) \subseteq others

LEMMA NameInit == Init => NameInv
<1> SUFFICES ASSUME Init PROVE NameInv
    OBVIOUS
<1>1. Numbers = {} /\ count = 0 /\ \A d \in Devices : pc[d] = "absent"
    BY Zenon DEF Init, Numbers, Counted
<1>2. 0..(0 - 1) = {}
    OBVIOUS
<1> QED BY <1>1, <1>2, Zenon DEF NameInv

LEMMA CountNonNegative == PnpInv /\ CountRight => count \in Nat
    BY CountedFinite, FS_CardinalityType DEF CountRight, Counted, PnpInv, PnpType

\* A step that keeps the counted ports and their number keeps the numbers.
LEMMA SameNumbers ==
    ASSUME UNCHANGED others, Counted' = Counted, \A d \in Counted : name'[d] = name[d]
    PROVE  Numbers' = Numbers
    BY Zenon DEF Numbers

\* The port that leaves no hole is the last one.
LEMMA LastPort ==
    ASSUME PnpInv, NameInv, ~holes, NEW n \in Numbers, ~LeavesHole(n)
    PROVE  count \in Nat \ {0} /\ n = count - 1
<1>1. n \in 0..(count - 1) /\ count \in Int
    BY Zenon DEF NameInv, PnpInv, PnpType
<1>2. count - 1 \in Numbers
    BY <1>1 DEF NameInv
<1>3. \A m \in Numbers : m <= n
    BY <1>1 DEF Numbers, Counted, LeavesHole, NameInv, PnpInv, PnpType, PnpOrder
<1> QED BY <1>1, <1>2, <1>3

LEMMA NameOthers ==
    ASSUME PnpInv, CountRight, NameInv, OtherAdd \/ OtherRemove
    PROVE  NameInv'
<1> SUFFICES ASSUME ~holes' PROVE NameInv'
    BY Zenon DEF NameInv
<1>0. count \in Int /\ name \in [Devices -> Int] /\ others \in SUBSET Int
    BY Zenon DEF PnpInv, PnpType
<1>1. CASE OtherAdd
    <2>1. ~holes /\ Numbers = 0..(count - 1) /\ UNCHANGED <<pc, name, incremented>>
        BY <1>1, Zenon DEF OtherAdd, NameInv
    <2>2. Numbers' = Numbers \cup {count}
        BY <1>1, <2>1, Zenon DEF OtherAdd, Numbers, Counted
    <2>3. count' = count + 1 /\ count >= 0
        BY <1>1, <2>1, CountNonNegative DEF OtherAdd
    <2>4. Numbers' = 0..(count' - 1)
        BY <1>0, <2>1, <2>2, <2>3
    <2>5. ASSUME NEW d \in Devices PROVE pc[d] \notin {"queue", "link", "registry", "count"}
        BY <1>1, <2>1, <2>5, Zenon DEF OtherAdd, NameTaken, Exists, NameInv
    <2>6. ASSUME NEW d \in Devices, pc[d] = "create"
          PROVE  name[d] \in 0..count' /\ name[d]..(count' - 1) \subseteq others'
        BY <1>0, <1>1, <2>1, <2>3, <2>6 DEF OtherAdd, NameInv
    <2> QED BY <2>1, <2>4, <2>5, <2>6, Zenon DEF NameInv
<1>2. CASE OtherRemove
    <2>1. PICK n \in others : others' = others \ {n} /\ holes' = (holes \/ LeavesHole(n))
        BY <1>2, Zenon DEF OtherRemove
    <2>2. ~holes /\ ~LeavesHole(n) /\ n \in Numbers
        BY <2>1, Zenon DEF Numbers, PnpInv, PnpType
    <2>3. count \in Nat \ {0} /\ n = count - 1 /\ count' = count - 1
        BY <1>2, <2>2, LastPort, Zenon DEF OtherRemove
    <2>4. UNCHANGED <<pc, name, incremented>>
        BY <1>2, Zenon DEF OtherRemove
    <2>5. \A d \in Counted : name[d] # n
        BY Zenon DEF Counted, Exists, PnpInv, PnpOrder
    <2>6. Numbers' = Numbers \ {n}
        BY <2>1, <2>4, <2>5, Zenon DEF Numbers, Counted
    <2>7. Numbers' = 0..(count' - 1)
        BY <2>2, <2>3, <2>6 DEF NameInv
    <2>8. ASSUME NEW d \in Devices PROVE pc[d] # "absent" => name[d] <= n
        BY <1>0, <2>2, <2>3 DEF LeavesHole
    <2>9. ASSUME NEW d \in Devices PROVE pc[d] \notin {"queue", "link", "registry", "count"}
        BY <1>0, <2>2, <2>3, <2>8 DEF NameInv
    <2>10. ASSUME NEW d \in Devices, pc[d] = "create"
           PROVE  name[d] \in 0..count' /\ name[d]..(count' - 1) \subseteq others'
        BY <1>0, <2>1, <2>2, <2>3, <2>8, <2>10 DEF NameInv
    <2> QED BY <2>4, <2>7, <2>9, <2>10, Zenon DEF NameInv
<1> QED BY <1>1, <1>2, Zenon

\* EvtDeviceAdd works on one device at a time.
LEMMA OneAdded ==
    ASSUME PnpInv, NEW d \in Devices, EvtDeviceAdd(d) \/ EvtDeviceContextCleanup(d)
    PROVE  \A e \in Devices \ {d} : pc[e] \in {"absent", "started"} /\ pc'[e] = pc[e]
    BY Zenon DEF PnpInv, PnpType, PnpOrder, EvtDeviceAdd, AddName, AddCreate, AddQueue, AddLink,
           AddRegistry, AddCount, EvtDeviceContextCleanup, Settled, Goto

LEMMA NameDevice ==
    ASSUME PnpInv, CountRight, NameInv,
           NEW d \in Devices, EvtDeviceAdd(d) \/ EvtDeviceContextCleanup(d)
    PROVE  NameInv'
<1> SUFFICES ASSUME ~holes' PROVE NameInv'
    BY Zenon DEF NameInv
<1>0. count \in Nat /\ name \in [Devices -> Int] /\ pc \in [Devices -> Steps]
    BY CountNonNegative, Zenon DEF PnpInv, PnpType
<1>a. \A e \in Devices \ {d} : pc'[e] \in {"absent", "started"}
    BY OneAdded, Zenon
<1>1. CASE AddName(d)
    <2>1. ~holes /\ Numbers = 0..(count - 1) /\ d \notin Counted
        BY <1>1, Zenon DEF AddName, NameInv, Counted, PnpInv, PnpOrder
    <2>2. Numbers' = Numbers
        BY <1>0, <1>1, <2>1, SameNumbers, Zenon DEF AddName, Counted
    <2>3. pc'[d] = "create" /\ name'[d] = count /\ count' = count /\ count..(count - 1) = {}
        BY <1>0, <1>1 DEF AddName, Goto
    <2> QED BY <1>0, <1>a, <2>1, <2>2, <2>3 DEF NameInv
<1>2. CASE AddCreate(d)
    <2>1. ~holes /\ Numbers = 0..(count - 1) /\ UNCHANGED <<count, name, others>>
        BY <1>2, Zenon DEF AddCreate, NameInv
    <2>2. incremented' = incremented
        BY <1>2, Zenon DEF AddCreate, PnpInv, PnpType, PnpOrder
    <2>3. Numbers' = Numbers
        BY <2>1, <2>2, SameNumbers, Zenon DEF Counted
    <2>4. \/ pc'[d] = "absent"
          \/ pc'[d] = "queue" /\ name[d] \notin others
        BY <1>0, <1>2, Zenon DEF AddCreate, Goto, NameTaken
    <2>5. name[d] \in 0..count /\ name[d]..(count - 1) \subseteq others
        BY <1>2, <2>1, Zenon DEF AddCreate, NameInv
    <2>6. pc'[d] = "queue" => name[d] = count
        BY <1>0, <2>4, <2>5
    <2> QED BY <1>a, <2>1, <2>3, <2>4, <2>6, Zenon DEF NameInv
<1>3. CASE AddQueue(d) \/ AddLink(d) \/ AddRegistry(d)
    <2>1. ~holes /\ Numbers = 0..(count - 1) /\ UNCHANGED <<count, name, others, incremented>>
        BY <1>3 DEF AddQueue, AddLink, AddRegistry, NameInv
    <2>2. Numbers' = Numbers
        BY <2>1, SameNumbers, Zenon DEF Counted
    <2>3. name[d] = count /\ pc'[d] \in {"link", "registry", "count", "failed"}
        BY <1>0, <1>3, <2>1, Zenon DEF AddQueue, AddLink, AddRegistry, Goto, NameInv
    <2> QED BY <1>a, <2>1, <2>2, <2>3, Zenon DEF NameInv
<1>4. CASE AddCount(d)
    <2>1. ~holes /\ Numbers = 0..(count - 1) /\ name[d] = count /\ UNCHANGED <<name, others>>
        BY <1>4, Zenon DEF AddCount, NameInv
    <2>2. Counted' = Counted \cup {d}
        BY <1>4, Zenon DEF AddCount, Counted, PnpInv, PnpType
    <2>3. Numbers' = Numbers \cup {count}
        BY <2>1, <2>2, Zenon DEF Numbers
    <2>4. count' = count + 1 /\ pc'[d] \in {"started", "failed"}
        BY <1>0, <1>4, Zenon DEF AddCount, Goto
    <2>5. Numbers' = 0..(count' - 1)
        BY <1>0, <2>1, <2>3, <2>4
    <2> QED BY <1>a, <2>4, <2>5, Zenon DEF NameInv
<1>5. CASE EvtDeviceContextCleanup(d) /\ incremented[d]
    <2>1. /\ ~holes /\ ~LeavesHole(name[d]) /\ name[d] \in Numbers
          /\ count' = count - 1 /\ UNCHANGED <<name, others>>
        BY <1>5, Zenon DEF EvtDeviceContextCleanup, Numbers, Counted
    <2>2. name[d] = count - 1
        BY <2>1, LastPort, Zenon
    <2>3. Counted' = Counted \ {d}
        BY <1>5, Zenon DEF EvtDeviceContextCleanup, Counted, PnpInv, PnpType
    <2>4. /\ name[d] \notin others
          /\ \A e \in Counted \ {d} : name[e] # name[d]
        BY <1>5, Zenon DEF Counted, Exists, PnpInv, PnpOrder
    <2>5. Numbers' = Numbers \ {name[d]}
        BY <2>1, <2>3, <2>4, Zenon DEF Numbers
    <2>6. Numbers' = 0..(count' - 1)
        BY <1>0, <2>1, <2>2, <2>5 DEF NameInv
    <2>7. pc'[d] = "absent"
        BY <1>0, <1>5, Zenon DEF EvtDeviceContextCleanup, Goto
    <2> QED BY <1>a, <2>6, <2>7, Zenon DEF NameInv
<1>6. CASE EvtDeviceContextCleanup(d) /\ ~incremented[d]
    <2>1. ~holes /\ Numbers = 0..(count - 1) /\ UNCHANGED <<count, name, others>>
        BY <1>6, Zenon DEF EvtDeviceContextCleanup, NameInv
    <2>2. Counted' = Counted
        BY <1>6, Zenon DEF EvtDeviceContextCleanup, Counted, PnpInv, PnpType
    <2>3. Numbers' = Numbers /\ pc'[d] = "absent"
        BY <1>0, <1>6, <2>1, <2>2, SameNumbers, Zenon DEF EvtDeviceContextCleanup, Goto
    <2> QED BY <1>a, <2>1, <2>3, Zenon DEF NameInv
<1> QED BY <1>1, <1>2, <1>3, <1>4, <1>5, <1>6, Zenon DEF EvtDeviceAdd

LEMMA NameNext == PnpInv /\ CountRight /\ NameInv /\ [Next]_vars => NameInv'
<1> SUFFICES ASSUME PnpInv, CountRight, NameInv, [Next]_vars PROVE NameInv'
    BY Zenon
<1>1. CASE DriverEntry \/ Unload \/ UNCHANGED vars
    <2>1. UNCHANGED <<count, others, incremented, name, pc, holes>>
        BY <1>1, Zenon DEF DriverEntry, Unload, vars
    <2> QED BY <2>1, Zenon DEF NameInv, Numbers, Counted
<1> QED BY <1>1, NameOthers, NameDevice, Zenon DEF Next

\* Until a port goes that was not the last, the counted ports have the numbers
\* below the count, and EvtDeviceAdd only loses its name to a port that another
\* driver added since it read the count.
THEOREM NamesKept == Spec => []NamesInOrder
<1>1. ASSUME PnpInv, CountRight, NameInv PROVE NamesInOrder
    <2> SUFFICES ASSUME ~holes PROVE NamesInOrder
        BY Zenon DEF NamesInOrder
    <2>0. count \in Nat /\ name \in [Devices -> Int]
        BY <1>1, CountNonNegative, Zenon DEF PnpInv, PnpType
    <2>1. Numbers = 0..(count - 1)
        BY <1>1, Zenon DEF NameInv
    <2>2. ASSUME NEW d \in Devices, pc[d] = "create", NameTaken(name[d])
          PROVE  name[d] \in others /\ name[d] < count
        <3>1. name[d] \in 0..count /\ name[d]..(count - 1) \subseteq others
            BY <1>1, <2>2, Zenon DEF NameInv
        <3>2. \A e \in Devices : Exists(e) => name[e] \in Numbers
            BY <1>1, <2>2, Zenon DEF Exists, PnpInv, PnpType, PnpOrder, Steps, Numbers, Counted
        <3>3. name[d] \in Numbers
            BY <2>2, <3>2, Zenon DEF NameTaken, Numbers
        <3> QED BY <2>0, <2>1, <3>1, <3>3
    <2> QED BY <2>1, <2>2, Zenon DEF NamesInOrder, Numbers, Counted
<1> QED BY <1>1, PnpInit, PnpNext, CountInit, CountNext, NameInit, NameNext, PTL DEF Spec

-----------------------------------------------------------------------------
(* Ac97                                                                    *)

ProbeLabels == {"out", "limit", "enable", "store", "card", "pci_enable", "kzalloc",
                "device", "register", "fail"}

Ac97Type ==
  /\ registered \in BOOLEAN /\ overlapped \in BOOLEAN
  /\ dev_idx \in Nat /\ taken \in Nat
  /\ ppc \in [PciDevs -> ProbeLabels] /\ idx \in [PciDevs -> Nat]
  /\ enabled \in [PciDevs -> Int] /\ chip \in [PciDevs -> {"none", "kzalloc", "device"}]
  /\ card \in [PciDevs -> BOOLEAN] /\ drvdata \in [PciDevs -> BOOLEAN]
  /\ slot \in [PciDevs -> Nat]

\* What device d holds of the kernel.
Holds(d, en, ch, ca) == enabled[d] = en /\ chip[d] = ch /\ card[d] = ca

\* What a device holds at each step of its probe.
HeldAt(d) ==
  /\ ppc[d] \in {"limit", "enable", "card"} => ~ drvdata[d] /\ Holds(d, 0, "none", FALSE)
  /\ ppc[d] = "pci_enable" => ~ drvdata[d] /\ Holds(d, 0, "none", TRUE)
  /\ ppc[d] = "kzalloc" => ~ drvdata[d] /\ Holds(d, 1, "none", TRUE)
  /\ ppc[d] = "device" => ~ drvdata[d] /\ Holds(d, 1, "kzalloc", TRUE)
  /\ ppc[d] = "register" => ~ drvdata[d] /\ Holds(d, 1, "device", TRUE)
  /\ ppc[d] = "fail" =>
       ~ drvdata[d] /\ (Holds(d, 0, "none", TRUE) \/ Holds(d, 1, "device", TRUE))
  /\ ppc[d] \in {"out", "store"} =>
       IF drvdata[d] THEN Holds(d, 1, "device", TRUE) ELSE Holds(d, 0, "none", FALSE)

HeldInv == Ac97Type /\ \A d \in PciDevs : HeldAt(d)

LEMMA HeldInit == Ac97Init => HeldInv
<1> SUFFICES ASSUME Ac97Init PROVE HeldInv
  OBVIOUS
<1>1. Ac97Type
  <2>1. card \in [PciDevs -> BOOLEAN] /\ drvdata \in [PciDevs -> BOOLEAN]
    BY Zenon DEF Ac97Init
  <2>2. /\ ppc \in [PciDevs -> ProbeLabels] /\ idx \in [PciDevs -> Nat]
        /\ enabled \in [PciDevs -> Int]
        /\ chip \in [PciDevs -> {"none", "kzalloc", "device"}]
        /\ slot \in [PciDevs -> Nat] /\ dev_idx \in Nat /\ taken \in Nat
    BY SMT DEF Ac97Init, ProbeLabels
  <2>3. registered \in BOOLEAN /\ overlapped \in BOOLEAN
    BY Zenon DEF Ac97Init
  <2> QED BY <2>1, <2>2, <2>3, Zenon DEF Ac97Type
<1>2. ASSUME NEW d \in PciDevs PROVE HeldAt(d)
  <2>1. ppc[d] = "out" /\ drvdata[d] = FALSE /\ Holds(d, 0, "none", FALSE)
    BY Zenon DEF Ac97Init, Holds
  <2> QED BY <2>1, Zenon DEF HeldAt
<1> QED BY <1>1, <1>2, Zenon DEF HeldInv

LEMMA HeldProbe ==
  ASSUME HeldInv, NEW d \in PciDevs, Ac97Probe(d) \/ Ac97Remove(d)
  PROVE  HeldInv'
<1> USE DEF HeldInv, Ac97Type, ProbeLabels, HeldAt, Holds, ProbeGoto
<1>1. CASE ProbeCall(d)
  BY <1>1 DEF ProbeCall, pciVars
<1>2. CASE ProbeLimit(d)
  BY <1>2 DEF ProbeLimit, pciVars
<1>3. CASE ProbeEnable(d)
  BY <1>3 DEF ProbeEnable, pciVars
<1>4. CASE ProbeStore(d)
  BY <1>4 DEF ProbeStore, pciVars
<1>5. CASE CardCreate(d)
  <2>1. card' \in [PciDevs -> BOOLEAN]
    BY <1>5, Zenon DEF CardCreate
  <2> QED BY <1>5, <2>1 DEF CardCreate
<1>6. CASE PciEnable(d)
  BY <1>6 DEF PciEnable
<1>7. CASE ChipAlloc(d)
  BY <1>7 DEF ChipAlloc
<1>8. CASE DeviceNew(d)
  BY <1>8 DEF DeviceNew, Ac97Free
<1>9. CASE CardRegister(d)
  <2>1. drvdata' \in [PciDevs -> BOOLEAN]
    BY <1>9, Zenon DEF CardRegister
  <2> QED BY <1>9, <2>1 DEF CardRegister
<1>10. CASE ProbeFail(d)
  BY <1>10 DEF ProbeFail, SndCardFree, Ac97Free
<1>11. CASE Ac97Remove(d)
  BY <1>11 DEF Ac97Remove, SndCardFree, Ac97Free
<1> QED BY <1>1, <1>2, <1>3, <1>4, <1>5, <1>6, <1>7, <1>8, <1>9, <1>10, <1>11, Zenon DEF Ac97Probe

LEMMA HeldNext == HeldInv /\ [Ac97Next]_ac97Vars => HeldInv'
<1> SUFFICES ASSUME HeldInv, [Ac97Next]_ac97Vars PROVE HeldInv'
  OBVIOUS
<1>1. CASE Ac97Load
  BY <1>1, Zenon DEF Ac97Load, pciVars, HeldInv, Ac97Type, HeldAt, Holds
<1>2. CASE Ac97Unload
  BY <1>2, Zenon DEF Ac97Unload, pciVars, HeldInv, Ac97Type, HeldAt, Holds
<1>3. ASSUME NEW d \in PciDevs, Ac97Probe(d) \/ Ac97Remove(d)
      PROVE  HeldInv'
  BY <1>3, HeldProbe, Zenon
<1>4. CASE UNCHANGED ac97Vars
  BY <1>4 DEF ac97Vars, pciVars, HeldInv, Ac97Type, HeldAt, Holds
<1> QED BY <1>1, <1>2, <1>3, <1>4, Zenon DEF Ac97Next

\* Whichever step of rtx_ac97_probe fails, the device ends with everything given
\* back, and a bound device keeps everything until rtx_ac97_remove.
THEOREM ProbeGivesBack == Ac97Spec => []TakenIsGivenBack
<1>1. HeldInv => TakenIsGivenBack
  BY Zenon DEF HeldInv, Ac97Type, HeldAt, Holds, TakenIsGivenBack
<1> QED BY <1>1, HeldInit, HeldNext, PTL DEF Ac97Spec
-----------------------------------------------------------------------------
(***************************************************************************)
(* The table entries.  As long as no probes overlap, the one probe that    *)
(* runs sees the same dev_idx at every step.                               *)
(***************************************************************************)
InTable(i) == i < SNDRV_CARDS /\ i \notin Disabled

\* What a probe knows of dev_idx, and a bound card of its entry.
SlotAt(d) ==
  /\ ppc[d] \notin {"out", "limit"} => dev_idx < SNDRV_CARDS
  /\ ppc[d] \in {"card", "pci_enable", "kzalloc", "device", "register", "fail"} => InTable(dev_idx)
  /\ ppc[d] = "store" => idx[d] = dev_idx
  /\ card[d] => InTable(slot[d])
  /\ card[d] /\ ppc[d] # "out" => slot[d] = dev_idx
  /\ card[d] /\ ppc[d] = "out" => slot[d] < dev_idx

SlotInv ==
  /\ ~ registered => \A d \in PciDevs : ppc[d] = "out" /\ ~ drvdata[d]
  /\ ~ overlapped =>
       /\ dev_idx = taken /\ dev_idx <= SNDRV_CARDS
       /\ \A d, e \in Probing : d = e
       /\ \A d \in PciDevs : SlotAt(d)
       /\ \A d, e \in PciDevs : card[d] /\ card[e] /\ slot[d] = slot[e] => d = e

LEMMA SlotInit == Ac97Init => SlotInv
  BY CardsAssumption DEF Ac97Init, SlotInv, SlotAt, Probing, InTable

LEMMA SlotProbe ==
  ASSUME HeldInv, SlotInv, NEW d \in PciDevs, Ac97Probe(d) \/ Ac97Remove(d)
  PROVE  SlotInv'
<1> USE CardsAssumption DEF SlotInv, SlotAt, Probing, InTable, HeldInv, Ac97Type, ProbeGoto
<1>1. CASE ProbeCall(d)
  BY <1>1, Zenon DEF ProbeCall, pciVars, HeldAt, Holds
<1>2. CASE ProbeLimit(d)
  BY <1>2 DEF ProbeLimit, pciVars, HeldAt, Holds
<1>3. CASE ProbeEnable(d)
  BY <1>3 DEF ProbeEnable, pciVars, HeldAt, Holds
<1>4. CASE ProbeStore(d)
  BY <1>4 DEF ProbeStore, pciVars
<1>5. CASE CardCreate(d)
  <2>1. CASE card' = [card EXCEPT ![d] = TRUE] /\ slot' = [slot EXCEPT ![d] = dev_idx]
             /\ ppc' = [ppc EXCEPT ![d] = "pci_enable"]
    <3>1. \A e \in PciDevs : e # d => card'[e] = card[e] /\ slot'[e] = slot[e] /\ ppc'[e] = ppc[e]
      BY <2>1, Zenon
    <3>2. ~ overlapped => \A e \in PciDevs : e # d => ppc[e] = "out"
      BY <1>5, Zenon DEF CardCreate
    <3>3. slot'[d] = dev_idx /\ ppc'[d] = "pci_enable"
      BY <2>1, Zenon
    <3> QED BY <1>5, <3>1, <3>2, <3>3 DEF CardCreate
  <2>2. CASE ppc' = [ppc EXCEPT ![d] = "out"] /\ UNCHANGED <<card, slot>>
    BY <1>5, <2>2 DEF CardCreate, HeldAt, Holds
  <2> QED BY <1>5, <2>1, <2>2, Zenon DEF CardCreate
<1>6. CASE PciEnable(d)
  BY <1>6 DEF PciEnable
<1>7. CASE ChipAlloc(d)
  BY <1>7 DEF ChipAlloc
<1>8. CASE DeviceNew(d)
  BY <1>8 DEF DeviceNew, Ac97Free
<1>9. CASE CardRegister(d)
  BY <1>9 DEF CardRegister
<1>10. CASE ProbeFail(d)
  BY <1>10, Zenon DEF ProbeFail, SndCardFree
<1>11. CASE Ac97Remove(d)
  BY <1>11, Zenon DEF Ac97Remove, SndCardFree
<1> QED BY <1>1, <1>2, <1>3, <1>4, <1>5, <1>6, <1>7, <1>8, <1>9, <1>10, <1>11, Zenon DEF Ac97Probe

LEMMA SlotNext == HeldInv /\ SlotInv /\ [Ac97Next]_ac97Vars => SlotInv'
<1> SUFFICES ASSUME HeldInv, SlotInv, [Ac97Next]_ac97Vars PROVE SlotInv'
  BY Zenon
<1>1. CASE Ac97Load
  <2>1. \A d \in PciDevs : ppc[d] = "out" /\ card[d] = FALSE
    BY <1>1, Zenon DEF Ac97Load, SlotInv, HeldInv, HeldAt, Holds
  <2>2. /\ registered' = TRUE /\ dev_idx' = 0 /\ taken' = 0
        /\ ppc' = ppc /\ card' = card
    BY <1>1, Zenon DEF Ac97Load, pciVars
  <2>3. Probing' = {}
    BY <2>1, <2>2, Zenon DEF Probing
  <2>4. \A d \in PciDevs : SlotAt(d)'
    BY <2>1, <2>2, Zenon DEF SlotAt
  <2>5. \A d, e \in PciDevs : ~ (card'[d] /\ card'[e] /\ slot'[d] = slot'[e])
    BY <2>1, <2>2, Zenon
  <2>6. dev_idx' = taken' /\ dev_idx' <= SNDRV_CARDS
    BY <2>2, CardsAssumption
  <2>7. \A d, e \in Probing' : d = e
    BY <2>3, Zenon
  <2> QED BY <2>2, <2>4, <2>5, <2>6, <2>7, Zenon DEF SlotInv
<1>2. CASE Ac97Unload
  BY <1>2, Zenon DEF Ac97Unload, pciVars, SlotInv, SlotAt, Probing, InTable
<1>3. ASSUME NEW d \in PciDevs, Ac97Probe(d) \/ Ac97Remove(d)
      PROVE  SlotInv'
  BY <1>3, SlotProbe, Zenon
<1>4. CASE UNCHANGED ac97Vars
  BY <1>4, Zenon DEF ac97Vars, pciVars, SlotInv, SlotAt, Probing, InTable
<1> QED BY <1>1, <1>2, <1>3, <1>4, Zenon DEF Ac97Next

\* Without overlapping probes, dev_idx counts the entries used up and every card
\* has an entry of the tables to itself.
THEOREM SlotsKept == Ac97Spec => []SlotPerCard
<1>1. HeldInv /\ SlotInv => SlotPerCard
  BY CardsAssumption DEF HeldInv, Ac97Type, SlotInv, SlotAt, InTable, SlotPerCard
<1> QED BY <1>1, HeldInit, HeldNext, SlotInit, SlotNext, PTL DEF Ac97Spec

-----------------------------------------------------------------------------
(* Rl8029                                                                  *)

\* What attach has got at each of its steps, and that nobody but the handler
\* clears sc_enabled once it is set.
AttachInv ==
  /\ apc \in {"map", "intr_map", "establish", "config", "attached", "failed", "refused"}
  /\ sc_ih <=> apc \in {"config", "attached"}
  /\ apc = "map" => ~ mapped
  /\ apc \in {"intr_map", "establish", "config", "attached"} =>
       mapped /\ (sc_enabled = 1 <=> ~ interrupted) /\ sc_enabled \in {0, 1}
  /\ apc # "attached" => error = "none"
  /\ interrupted => sc_ih
  /\ apc = "failed" => ~ mapped
  /\ error = "EIO" => interrupted

\* Whatever of attach fails, whenever the interrupts of the shared line come and
\* whatever ioctls are made, attach leaves what AttachOutcome says.
THEOREM AttachLeaves == RlnSpec => []AttachOutcome
<1>1. RlnInit => AttachInv
  BY Zenon DEF RlnInit, AttachInv
<1>2. AttachInv /\ [RlnNext]_rlnVars => AttachInv'
  <2> SUFFICES ASSUME AttachInv, [RlnNext]_rlnVars PROVE AttachInv'
    OBVIOUS
  <2> USE DEF AttachInv, ifVars
  <2>1. CASE AttachMap
    BY <2>1 DEF AttachMap
  <2>2. CASE AttachIntrMap
    BY <2>2, Zenon DEF AttachIntrMap
  <2>3. CASE AttachEstablish
    BY <2>3 DEF AttachEstablish
  <2>4. CASE RlnConfig
    BY <2>4, Zenon DEF RlnConfig
  <2>5. CASE RlnIntr
    BY <2>5 DEF RlnIntr
  <2>6. CASE SIOCSIFADDR
    BY <2>6, Zenon DEF SIOCSIFADDR
  <2>7. ASSUME NEW mtu \in Mtus, SIOCSIFMTU(mtu) PROVE AttachInv'
    BY <2>7, Zenon DEF SIOCSIFMTU
  <2>8. ASSUME NEW up \in BOOLEAN, SIOCSIFFLAGS(up) PROVE AttachInv'
    BY <2>8, Zenon DEF SIOCSIFFLAGS
  <2>9. CASE SIOCXXXMULTI
    BY <2>9 DEF SIOCXXXMULTI
  <2>10. CASE UNCHANGED rlnVars
    BY <2>10, Zenon DEF rlnVars
  <2> QED
    BY <2>1, <2>2, <2>3, <2>4, <2>5, <2>6, <2>7, <2>8, <2>9, <2>10, Zenon
    DEF RlnNext, RlnAttach, RlnIoctl
<1>3. AttachInv => AttachOutcome
  BY Zenon DEF AttachInv, AttachOutcome
<1>4. QED
  BY <1>1, <1>2, <1>3, PTL DEF RlnSpec

=============================================================================
