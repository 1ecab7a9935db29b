------------------------------ MODULE Services ------------------------------
(***************************************************************************)
(* The services of the firmware that keep their state to themselves: the   *)
(* event stream, the diagnostic counters, the configuration files, Modbus, *)
(* KNX and the network.  What they share with the rest of the firmware is  *)
(* left open in their modules, and they share nothing with one another, so *)
(* a behaviour exercises one of them, the one on the bench.                *)
(***************************************************************************)
EXTENDS EventStream, DiagnosticCounters, ConfigurationFiles, ModbusServer, KnxBus, NetworkManager

VARIABLE bench

vars == <<stream, counting, files, modbus, knx, network, bench>>

Init ==
    /\ bench \in {"stream", "counting", "files", "modbus", "knx", "network"}
    /\ StreamInit /\ ModbusInit /\ KnxInit
    /\ IF bench = "counting" THEN CountingInit ELSE counting = CountingBefore(0)
    /\ IF bench = "files" THEN FilesInit ELSE files = FilesBefore(FALSE, FALSE)
    /\ IF bench = "network" THEN NetworkInit
       ELSE network = NetworkOff([enabled |-> FALSE, profiles |-> {}, ap |-> "Off"])

Next ==
    /\ bench' = bench
    /\ \/ /\ bench = "stream" /\ StreamNext
          /\ UNCHANGED <<counting, files, modbus, knx, network>>
       \/ /\ bench = "counting" /\ CountingNext
          /\ UNCHANGED <<stream, files, modbus, knx, network>>
       \/ /\ bench = "files" /\ FilesNext
          /\ UNCHANGED <<stream, counting, modbus, knx, network>>
       \/ /\ bench = "modbus" /\ ModbusNext
          /\ UNCHANGED <<stream, counting, files, knx, network>>
       \/ /\ bench = "knx" /\ KnxNext
          /\ UNCHANGED <<stream, counting, files, modbus, network>>
       \/ /\ bench = "network" /\ NetworkNext
          /\ UNCHANGED <<stream, counting, files, modbus, knx>>

Spec == Init /\ [][Next]_vars

\* Every service has its type.
TypeOK ==
    /\ StreamTypeOK /\ CountingTypeOK /\ FilesTypeOK
    /\ ModbusTypeOK /\ KnxTypeOK /\ NetworkTypeOK
=============================================================================
