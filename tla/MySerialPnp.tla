---------------------------- MODULE MySerialPnp ----------------------------
(***************************************************************************)
(* Creation and destruction of the devices of the Windows driver MySerial  *)
(* (doc/systems/windows/rs232_polling/MySerial): DriverEntry of driver.c,  *)
(* EvtDeviceAdd and EvtDeviceContextCleanup of device.c.  A device is      *)
(* named after the system's count of serial ports, which the drivers of    *)
(* other ports change as well; its symbolic link is always COM1.           *)
(*                                                                         *)
(* The PnP manager adds and removes one device at a time; the ports of     *)
(* other drivers come and go at any moment.  ReadThread, which a device    *)
(* starts last, is the subject of MySerialRead.                            *)
(***************************************************************************)
EXTENDS Integers, FiniteSets

CONSTANTS
    Devices,      \* ports the driver is asked to manage
    MaxOthers,    \* bound: ports of other drivers present at once
    Nobody,       \* model value: COM1 is not a link to anything
    Other         \* model value: COM1 is a link to another driver's port

ASSUME OthersAssumption == MaxOthers \in Nat
ASSUME DevicesAssumption == IsFiniteSet(Devices) /\ Devices \cap {Nobody, Other} = {}

VARIABLES
    loaded,       \* DriverEntry registered EvtDeviceAdd
    count,        \* IoGetConfigurationInformation()->SerialCount
    others,       \* numbers n of the names \Device\Serial<n> of other drivers
    link,         \* what \DosDevices\COM1 is a link to
    comm,         \* numbers of the devices recorded as COM1 under SERIALCOMM
    pc,           \* how far EvtDeviceAdd got with each device
    name,         \* n of deviceName \Device\Serial<n>
    incremented,  \* devExt->hasIncrementedIoSerialCount
    holes         \* history: has a port gone that was not the last one?

vars == <<loaded, count, others, link, comm, pc, name, incremented, holes>>

Init ==
    /\ loaded = FALSE
    /\ count = 0
    /\ others = {}
    /\ link = Nobody
    /\ comm = {}
    /\ pc = [d \in Devices |-> "absent"]
    /\ name = [d \in Devices |-> 0]
    /\ incremented = [d \in Devices |-> FALSE]
    /\ holes = FALSE

\* A device object exists from WdfDeviceCreate to its cleanup.
Exists(d) == pc[d] \notin {"absent", "create"}

Settled == \A d \in Devices : pc[d] \in {"absent", "started"}

NameTaken(n) == n \in others \/ \E d \in Devices : Exists(d) /\ name[d] = n

\* Port n goes while one with a higher number, or the name for it, stays.
LeavesHole(n) ==
    \/ \E m \in others : m > n
    \/ \E d \in Devices : pc[d] # "absent" /\ name[d] > n

Goto(d, label) == pc' = [pc EXCEPT ![d] = label]

-----------------------------------------------------------------------------
(* The framework and the other drivers (external)                          *)

Unload ==
    /\ loaded
    /\ \A d \in Devices : pc[d] = "absent"
    /\ loaded' = FALSE
    /\ UNCHANGED <<count, others, link, comm, pc, name, incremented, holes>>

\* Another serial driver names its port after the count too, and takes the
\* link when it is free.
OtherAdd ==
    /\ Cardinality(others) < MaxOthers
    /\ ~NameTaken(count)
    /\ others' = others \cup {count}
    /\ count' = count + 1
    /\ link' \in {link} \cup (IF link = Nobody THEN {Other} ELSE {})
    /\ UNCHANGED <<loaded, comm, pc, name, incremented, holes>>

OtherRemove ==
    /\ \E n \in others : others' = others \ {n} /\ holes' = (holes \/ LeavesHole(n))
    /\ count' = count - 1
    /\ link' \in {link} \cup (IF link = Other THEN {Nobody} ELSE {})
    /\ link' = Other => others' # {}
    /\ UNCHANGED <<loaded, comm, pc, name, incremented>>

-----------------------------------------------------------------------------
(* DriverEntry and EvtDeviceAdd; a failure before the device exists leaves *)
(* nothing behind, a later one leaves a device the framework deletes.      *)

DriverEntry ==
    /\ ~loaded
    /\ loaded' = TRUE
    /\ UNCHANGED <<count, others, link, comm, pc, name, incremented, holes>>

\* Mutant: the ports are numbered from one.
AddName_FromOne(d) ==
    /\ loaded
    /\ Settled
    /\ pc[d] = "absent"
    /\ name' = [name EXCEPT ![d] = count + 1]
    /\ Goto(d, "create")
    /\ UNCHANGED <<loaded, count, others, link, comm, incremented, holes>>

\* Lines 84-127: the name comes from the count as it is now.
AddName(d) ==
    /\ loaded
    /\ Settled
    /\ pc[d] = "absent"
    /\ name' = [name EXCEPT ![d] = count]
    /\ Goto(d, "create")
    /\ UNCHANGED <<loaded, count, others, link, comm, incremented, holes>>

\* Lines 129-145: WdfDeviceCreate refuses a name that is taken.
AddCreate(d) ==
    /\ pc[d] = "create"
    /\ \/ ~NameTaken(name[d]) /\ Goto(d, "queue")
       \/ Goto(d, "absent")
    /\ incremented' = [incremented EXCEPT ![d] = FALSE]
    /\ UNCHANGED <<loaded, count, others, link, comm, name, holes>>

\* Lines 147-163
AddQueue(d) ==
    /\ pc[d] = "queue"
    /\ Goto(d, "link") \/ Goto(d, "failed")
    /\ UNCHANGED <<loaded, count, others, link, comm, name, incremented, holes>>

\* Lines 166-184: the link is COM1 for every device; it is refused when it
\* exists.
AddLink(d) ==
    /\ pc[d] = "link"
    /\ \/ link = Nobody /\ link' = d /\ Goto(d, "registry")
       \/ link' = link /\ Goto(d, "failed")
    /\ UNCHANGED <<loaded, count, others, comm, name, incremented, holes>>

\* Lines 186-198
AddRegistry(d) ==
    /\ pc[d] = "registry"
    /\ \/ comm' = comm \cup {name[d]} /\ Goto(d, "count")
       \/ comm' = comm /\ Goto(d, "failed")
    /\ UNCHANGED <<loaded, count, others, link, name, incremented, holes>>

\* Mutant: the port is counted only once its thread runs.
AddCount_Late(d) ==
    /\ pc[d] = "count"
    /\ incremented' = [incremented EXCEPT ![d] = TRUE]
    /\ \/ count' = count + 1 /\ Goto(d, "started")
       \/ count' = count /\ Goto(d, "failed")
    /\ UNCHANGED <<loaded, others, link, comm, name, holes>>

\* Lines 200-214: the port is counted, then the thread starts or does not.
AddCount(d) ==
    /\ pc[d] = "count"
    /\ count' = count + 1
    /\ incremented' = [incremented EXCEPT ![d] = TRUE]
    /\ Goto(d, "started") \/ Goto(d, "failed")
    /\ UNCHANGED <<loaded, others, link, comm, name, holes>>

\* The framework deletes a device that failed or was removed: the cleanup
\* callback takes the port off the count if it was put there; name and link
\* go with the device object, the registry value stays.
EvtDeviceContextCleanup(d) ==
    /\ pc[d] = "failed" \/ (pc[d] = "started" /\ Settled)
    /\ count' = IF incremented[d] THEN count - 1 ELSE count
    /\ holes' = (holes \/ (incremented[d] /\ LeavesHole(name[d])))
    /\ incremented' = [incremented EXCEPT ![d] = FALSE]
    /\ link' = IF link = d THEN Nobody ELSE link
    /\ Goto(d, "absent")
    /\ UNCHANGED <<loaded, others, comm, name>>

EvtDeviceAdd(d) ==
    \/ AddName(d) \/ AddCreate(d) \/ AddQueue(d)
    \/ AddLink(d) \/ AddRegistry(d) \/ AddCount(d)

Next ==
    \/ DriverEntry \/ Unload \/ OtherAdd \/ OtherRemove
    \/ \E d \in Devices : EvtDeviceAdd(d) \/ EvtDeviceContextCleanup(d)

Spec == Init /\ [][Next]_vars

-----------------------------------------------------------------------------
(* Properties                                                              *)

\* The count of serial ports is right at every moment, whatever step of
\* EvtDeviceAdd failed and however the ports of other drivers come and go:
\* the ports of the others and the devices that were counted
\* (device.c:200-206 and 226-230).
CountRight ==
    count = Cardinality(others) + Cardinality({d \in Devices : incremented[d]})

\* The system-wide count is a safe source of names until a port goes that was
\* not the last: the counted ports are numbered without a gap, so a device that
\* WdfDeviceCreate refuses because its name is taken lost it to a port that
\* another driver added since EvtDeviceAdd read the count (device.c:84-145).
NamesInOrder ==
    ~holes =>
        /\ others \cup {name[d] : d \in {e \in Devices : incremented[e]}} = 0..(count - 1)
        /\ \A d \in Devices :
              pc[d] = "create" /\ NameTaken(name[d]) => name[d] \in others /\ name[d] < count

=============================================================================
