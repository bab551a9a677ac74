--------------------------- MODULE DeviceRegistry ---------------------------
(***************************************************************************)
(* The device registry (ep_device.c) and the default devices of the RTOS   *)
(* board (ep_rtos_default_devices.c).  The registry is the sequence of the *)
(* devices in its slots, which are filled from the first on and never      *)
(* given back; a device is a record [name, type].                          *)
(***************************************************************************)
EXTENDS Naturals, Sequences

CONSTANTS MaxDevices,        \* EP_DEVICE_MAX_DEVICES
          Defaults           \* the default devices, in their order

ASSUME DeviceAssumption == /\ MaxDevices \in Nat
                           /\ Defaults \in Seq([name : STRING, type : STRING])
                           /\ Len(Defaults) <= MaxDevices
                           /\ \A i, j \in DOMAIN Defaults : Defaults[i].name = Defaults[j].name => i = j

\* ep_device_find
Find(slots, name) == \E i \in DOMAIN slots : slots[i].name = name

\* ep_device_find_by_type: the slot of the device number n of that type.
FindByType(slots, type, n) ==
    {i \in DOMAIN slots : /\ slots[i].type = type
                          /\ Len(SelectSeq(SubSeq(slots, 1, i - 1), LAMBDA d : d.type = type)) = n}

\* Mutant: a new device takes the first slot.
RegisterFirst(slots, d) ==
    IF Find(slots, d.name) \/ Len(slots) = MaxDevices THEN [rc |-> "BUSY", slots |-> slots]
    ELSE [rc |-> "OK", slots |-> <<d>> \o slots]

\* ep_device_register of a valid description, once the registry is there.
Register(slots, d) ==
    IF Find(slots, d.name) \/ Len(slots) = MaxDevices THEN [rc |-> "BUSY", slots |-> slots]
    ELSE [rc |-> "OK", slots |-> Append(slots, d)]

\* ep_register_default_device leaves a device that is there alone.
RegisterDefault(slots, d) ==
    IF Find(slots, d.name) THEN [rc |-> "OK", slots |-> slots] ELSE Register(slots, d)

\* ep_platform_register_default_devices: the first error ends it.
RegisterDefaults(slots) ==
    LET after[n \in 0..Len(Defaults)] ==
          IF n = 0 THEN [rc |-> "OK", slots |-> slots]
          ELSE IF after[n - 1].rc = "OK" THEN RegisterDefault(after[n - 1].slots, Defaults[n])
          ELSE after[n - 1]
    IN  after[Len(Defaults)]
=============================================================================
