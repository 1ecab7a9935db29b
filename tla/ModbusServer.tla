---------------------------- MODULE ModbusServer ----------------------------
(***************************************************************************)
(* The Modbus RTU adapter with its register map and its two gateways: a    *)
(* poll serves one request of the bus and writes the answer, which may     *)
(* fail and then ends the service until the next boot; the command line    *)
(* switches the role and makes requests of its own, other sources share    *)
(* the relay queue, and a factory reset may lock channels and then fail.   *)
(* Registers have their addresses and limits of the code; correlation      *)
(* identifiers are left out.                                               *)
(***************************************************************************)
EXTENDS Naturals, Sequences

CONSTANTS
    RelayCount,         \* relayChannelCount, six in the code
    QueueRoom,          \* batches that the relay queue takes from ordinary sources, 14 there
    BusAddresses,       \* addresses that requests begin at
    BusValues,          \* values of written registers
    MaxRead,            \* bounds on the registers that a request reads,
    MaxWritten,         \* and writes
    NoAnswer            \* no request is being served

\* Addresses and registers are words of 16 bits.
LastWord == 65535

ASSUME ModbusAssumption ==
    /\ RelayCount \in 1 .. 8 /\ QueueRoom \in Nat
    /\ MaxRead \in Nat /\ MaxWritten \in Nat
    /\ BusAddresses \subseteq 0 .. LastWord /\ BusValues \subseteq 0 .. LastWord

VARIABLE modbus

----------------------------------------------------------------------------
(* The register map. *)

\* Slip: a range that begins in a block is in it.
BeginsWithin(address, quantity, base, count) ==
    quantity # 0 /\ address >= base /\ address - base < count

RangeWithin(address, quantity, base, count) ==
    /\ quantity # 0 /\ address >= base
    /\ address - base <= count
    /\ quantity <= count - (address - base)

UnitIds == 1 .. 247

\* Baud rate, parity and stop bits, in their bits of one register.
UartWords == 0 .. 63
UartSetting == [baud : 0 .. 4, parity : 0 .. 2, stopBits : 1 .. 2]
EncodeUart(u) == u.baud + 8 * u.parity + 32 * (u.stopBits - 1)
Decodable(n) == n < 64 /\ n % 8 <= 4 /\ (n \div 8) % 4 <= 2
DecodeUart(n) ==
    [baud |-> n % 8, parity |-> (n \div 8) % 4, stopBits |-> 1 + ((n \div 32) % 2)]

\* The codec is exact: it takes no other encodings and loses nothing.
ASSUME UartCodecExact ==
    /\ \A u \in UartSetting : Decodable(EncodeUart(u)) /\ DecodeUart(EncodeUart(u)) = u
    /\ \A n \in 0 .. 127 : Decodable(n) => EncodeUart(DecodeUart(n)) = n

ReadOp == {"ReadCoils", "ReadHolding", "ReadInput"}
WriteOp == {"WriteCoils", "WriteHolding", "ReadWrite"}

\* The values of a read stand for its quantity, and only writes are broadcast; the reading
\* half of a ReadWrite is a read of holding registers that are readable, or are not.
WrittenValues == UNION {[1 .. n -> BusValues] : n \in 1 .. MaxWritten}

Request ==
    [op : ReadOp, address : BusAddresses, broadcast : {FALSE}, readable : {FALSE},
     values : {[i \in 1 .. n |-> 0] : n \in 1 .. MaxRead}]
    \cup
    [op : {"WriteCoils", "WriteHolding"}, address : BusAddresses, broadcast : BOOLEAN,
     readable : {FALSE}, values : WrittenValues]
    \cup
    [op : {"ReadWrite"}, address : BusAddresses, broadcast : BOOLEAN,
     readable : BOOLEAN, values : WrittenValues]

Quantity(r) == Len(r.values)

\* nanomodbus hands a request within these limits to a callback, and answers others itself.
LibraryLimit(op) ==
    CASE op = "ReadCoils" -> 2000
      [] op \in {"ReadHolding", "ReadInput"} -> 125
      [] op = "WriteCoils" -> 1968
      [] op = "WriteHolding" -> 123
      [] op = "ReadWrite" -> 121

WithinLimits(r) ==
    Quantity(r) <= LibraryLimit(r.op) /\ r.address + Quantity(r) <= LastWord + 1

Fits(r, base, count) == RangeWithin(r.address, Quantity(r), base, count)
At(r, address) == Quantity(r) = 1 /\ r.address = address

\* The callbacks of coils and discrete inputs have room for as many values as there are
\* relays, those of registers for as many as are asked for.
Overflowing(r) == r.op = "ReadCoils" /\ Quantity(r) > RelayCount

InReadableBlock(r) ==
    \/ r.op = "ReadCoils" /\ Fits(r, 0, RelayCount)
    \/ r.op = "ReadHolding" /\ (\/ Fits(r, 32, RelayCount) \/ Fits(r, 48, 4)
                                \/ \E a \in {128, 130, 132} : At(r, a))
    \/ r.op = "ReadInput" /\ (\/ Fits(r, 0, RelayCount) \/ At(r, 8)
                              \/ Fits(r, 9, 2) \/ Fits(r, 11, 2))

\* readCoils, readDiscreteInputs, readHoldingRegisters, readInputRegisters, as toException
\* answers them: validateOutput first, then the range.
ReadAnswer(r) ==
    CASE Overflowing(r) -> "DeviceFailure"
      [] ~Overflowing(r) /\ InReadableBlock(r) -> "Normal"
      [] ~Overflowing(r) /\ ~InReadableBlock(r) -> "IllegalDataAddress"

Batch(kind, r, base) == [kind |-> kind, first |-> r.address - base, values |-> r.values]
Refused(error) == [kind |-> error, first |-> 0, values |-> <<>>]

AllAtMost(r, limit) == \A i \in DOMAIN r.values : r.values[i] <= limit
Checked(batch, legal) == IF legal THEN batch ELSE Refused("IllegalValue")

\* Coils have the values off and on; any other value of the model stands for on.
ParseCoilWrite(r) ==
    IF Fits(r, 0, RelayCount) THEN Batch("RelayCommands", r, 0) ELSE Refused("IllegalAddress")

ParseHoldingWrite(r) ==
    CASE Fits(r, 32, RelayCount) -> Checked(Batch("RelayCommands", r, 32), AllAtMost(r, 2))
      [] Fits(r, 48, 4) -> Checked(Batch("Indicator", r, 48), AllAtMost(r, 255))
      [] At(r, 56) -> Checked(Batch("Buzzer", r, 56), AllAtMost(r, 7))
      [] At(r, 128) -> Checked(Batch("UartSettings", r, 128), Decodable(r.values[1]))
      [] At(r, 130) -> Checked(Batch("UnitId", r, 130), r.values[1] \in UnitIds)
      [] OTHER -> Refused("IllegalAddress")

BatchKind == {"RelayCommands", "Indicator", "Buzzer", "UartSettings", "UnitId"}

----------------------------------------------------------------------------
(* The state. *)

Exception == {"IllegalDataAddress", "IllegalDataValue", "DeviceFailure"}

\* Of the lifecycle states, those that a gateway or a query tells apart.
LifecycleSeen == {"Operational", "Degraded", "Restarting"}

BatchRecord == [kind : BatchKind, first : 0 .. 7, values : Seq(BusValues)]

\* The request in service, its answer, the batch carried out if any, and what it found.
Served ==
    [request : Request, answer : {"Normal"} \cup Exception, done : SUBSET BatchRecord,
     queued : 0 .. QueueRoom, unit : UnitIds, uart : UartWords, lifecycle : LifecycleSeen]

Modbus ==
    [up : BOOLEAN,                    \* the device has booted
     initialized : BOOLEAN,           \* of the adapter
     available : BOOLEAN,             \* modbusAvailable_
     role : {"Server", "Client"},
     fault : BOOLEAN,                 \* ModbusTransportError is active
     lifecycle : LifecycleSeen,
     unit : UnitIds, uart : UartWords, \* of the active configuration
     queued : 0 .. QueueRoom,         \* batches in the relay queue
     locked : SUBSET (0 .. RelayCount - 1), \* safetyLockouts_ of CommandArbiter
     serving : Served \cup {NoAnswer}]

----------------------------------------------------------------------------
(* The gateways: what each outcome leaves, with the answer. *)

Outcome(m, answer, done) == [modbus |-> m, answer |-> answer, done |-> done]
Failed(m, answer) == Outcome(m, answer, {})

\* CommandArbiter::evaluate: a locked channel may be switched off, not on or over.
SwitchesLocked(m, batch) ==
    \E i \in DOMAIN batch.values : batch.values[i] # 0 /\ batch.first + i - 1 \in m.locked

\* ModbusApplicationGateway::submit and requestBatch: the commands take one place of the
\* queue together, or none is queued; every refusal ends in the same exception.
SubmitRelays(m, batch) ==
    IF m.lifecycle = "Restarting" \/ SwitchesLocked(m, batch) \/ m.queued >= QueueRoom
    THEN {Failed(m, "DeviceFailure")}
    ELSE {Outcome([m EXCEPT !.queued = @ + 1], "Normal", {batch})}

\* ModbusConfigurationGateway::commit: a change of the transport asks for a restart.
CommitModbus(m, unit, uart, batch) ==
    {Failed(m, "DeviceFailure"),     \* the configuration was not saved
     Outcome([m EXCEPT !.unit = unit, !.uart = uart,
                       !.lifecycle = IF unit # m.unit \/ uart # m.uart THEN "Restarting" ELSE @],
             "Normal", {batch})}

\* handleModbusNonRelayWrite; the indicator has been initialized and takes every value.
SubmitWrite(m, batch) ==
    CASE batch.kind = "RelayCommands" -> SubmitRelays(m, batch)
      [] batch.kind \in {"Indicator", "Buzzer"} -> {Outcome(m, "Normal", {batch})}
      [] batch.kind = "UartSettings" -> CommitModbus(m, m.unit, batch.values[1], batch)
      [] batch.kind = "UnitId" -> CommitModbus(m, batch.values[1], m.uart, batch)
      [] batch.kind = "IllegalAddress" -> {Failed(m, "IllegalDataAddress")}
      [] batch.kind = "IllegalValue" -> {Failed(m, "IllegalDataValue")}

\* writeMultipleRegisters: a broadcast does not reconfigure.
HoldingOutcomes(m, r) ==
    LET batch == ParseHoldingWrite(r)
    IN  IF r.broadcast /\ batch.kind \in {"UartSettings", "UnitId"}
        THEN {Failed(m, "IllegalDataAddress")} ELSE SubmitWrite(m, batch)

\* handle_read_write_registers of nanomodbus: the write is carried out, and then the
\* registers are read, which may refuse the request.
ReadAfterWrite(r, o) ==
    IF o.answer = "Normal" /\ ~r.broadcast /\ ~r.readable
    THEN [o EXCEPT !.answer = "IllegalDataAddress"] ELSE o

Outcomes(m, r) ==
    CASE r.op \in ReadOp -> {Failed(m, ReadAnswer(r))}
      [] r.op = "WriteCoils" -> SubmitWrite(m, ParseCoilWrite(r))
      [] r.op = "WriteHolding" -> HoldingOutcomes(m, r)
      [] r.op = "ReadWrite" -> {ReadAfterWrite(r, o) : o \in HoldingOutcomes(m, r)}

----------------------------------------------------------------------------
(* The steps. *)

BusReady == modbus.up /\ modbus.serving = NoAnswer

\* nmbs_server_poll hands the request to a callback.
ServeRequest(r) ==
    /\ BusReady /\ modbus.available /\ modbus.role = "Server" /\ WithinLimits(r)
    /\ \E o \in Outcomes(modbus, r) :
         modbus' = [o.modbus EXCEPT !.serving =
                      [request |-> r, answer |-> o.answer, done |-> o.done,
                       queued |-> modbus.queued, unit |-> modbus.unit,
                       uart |-> modbus.uart, lifecycle |-> modbus.lifecycle]]

\* Slip: the loop stops polling and tells nobody.
StoppedQuietly(m) == [m EXCEPT !.available = FALSE, !.fault = TRUE]

\* poll found a transport error, and update acts on it.
TransportStopped(m) ==
    [m EXCEPT !.available = FALSE, !.fault = TRUE,
              !.lifecycle = IF @ = "Operational" THEN "Degraded" ELSE @]

\* The answer is written, or the transport fails after the request was carried out.
AnswerRequest ==
    /\ modbus.serving # NoAnswer
    /\ \E m \in {[modbus EXCEPT !.serving = NoAnswer]} : modbus' = m \/ modbus' = TransportStopped(m)

\* poll, when the bus fails before a request is complete.
FailTransport ==
    /\ BusReady /\ modbus.available /\ modbus.role = "Server"
    /\ modbus' = TransportStopped(modbus)

\* The loop runs queued batches.
DrainQueue ==
    /\ BusReady /\ modbus.queued > 0
    /\ \E left \in 0 .. modbus.queued - 1 : modbus' = [modbus EXCEPT !.queued = left]

\* KNX, the web, the command line, a button or a timer queues a batch.
QueueElsewhere ==
    /\ BusReady /\ modbus.queued < QueueRoom
    /\ modbus' = [modbus EXCEPT !.queued = @ + 1]

\* performFactoryReset stops at the channel that cannot be switched off, or when the users
\* or the configuration are not erased, and leaves the lockouts behind; or it succeeds.
FactoryReset ==
    /\ BusReady
    /\ \E last \in 0 .. RelayCount - 1 :
       \E m \in {[modbus EXCEPT !.locked = @ \cup 0 .. last]} :
         \/ modbus' = m
         \/ /\ last = RelayCount - 1
            /\ \/ modbus' = [m EXCEPT !.queued = 0]
               \/ modbus' = [m EXCEPT !.queued = 0, !.unit = 10, !.uart = 4,
                                      !.lifecycle = "Restarting"]

\* setRole, from the command line; the server comes back with the unit of the boot.
SetModbusRole(role) ==
    /\ BusReady /\ modbus.initialized /\ role # modbus.role
    /\ modbus' = [modbus EXCEPT !.role = role]

\* readClientHoldingRegisters and writeClientRegister need the client's role.
ClientReady == BusReady /\ modbus.initialized /\ modbus.role = "Client"

\* clientResult: a fault of the transport, or no answer in time, is a fault of the device
\* that no later answer clears.
ClientResults(m) == {m, [m EXCEPT !.fault = TRUE]}

\* The commands modbus-read-holding and modbus-write-register.
RequestAsClient == ClientReady /\ modbus' \in ClientResults(modbus)

\* The transport and the adapter initialize, or the device runs without them, and it may
\* be degraded for other reasons.
BootModbus ==
    /\ ~modbus.up
    /\ \E works, degraded \in BOOLEAN :
         modbus' = [modbus EXCEPT
            !.up = TRUE, !.initialized = works, !.available = works, !.fault = ~works,
            !.role = "Server", !.queued = 0, !.locked = {},
            !.lifecycle = IF works /\ ~degraded THEN "Operational" ELSE "Degraded"]

\* The drain of a restart is over, or the supply fails.
StopModbus ==
    /\ BusReady
    /\ modbus' = [modbus EXCEPT !.up = FALSE]

ModbusInit ==
    modbus = [up |-> FALSE, initialized |-> FALSE, available |-> FALSE, role |-> "Server",
              fault |-> FALSE, lifecycle |-> "Degraded", unit |-> 10, uart |-> 4,
              queued |-> 0, locked |-> {}, serving |-> NoAnswer]

ModbusNext ==
    \/ BootModbus \/ StopModbus \/ DrainQueue \/ QueueElsewhere \/ FactoryReset
    \/ RequestAsClient \/ FailTransport \/ AnswerRequest
    \/ \E role \in {"Server", "Client"} : SetModbusRole(role)
    \/ \E r \in Request : ServeRequest(r)

----------------------------------------------------------------------------
ModbusTypeOK == modbus \in Modbus

\* docs/protocols/modbus.md: the blocks of registers that may be read, and be written.
ReadableBlocks(op) ==
    CASE op = "ReadCoils" -> {0 .. RelayCount - 1}
      [] op = "ReadHolding" -> {32 .. 31 + RelayCount, 48 .. 51, {128}, {130}, {132}}
      [] op = "ReadInput" -> {0 .. RelayCount - 1, {8}, 9 .. 10, 11 .. 12}

WritableBlocks(op, broadcast) ==
    IF op = "WriteCoils" THEN {0 .. RelayCount - 1}
    ELSE {32 .. 31 + RelayCount, 48 .. 51, {56}} \cup (IF broadcast THEN {} ELSE {{128}, {130}})

Registers(r) == r.address .. r.address + Quantity(r) - 1

LegalBlock(r) ==
    \E block \in IF r.op \in ReadOp THEN ReadableBlocks(r.op) ELSE WritableBlocks(r.op, r.broadcast) :
       Registers(r) \subseteq block

\* A ReadWrite has to be legal in both halves; a broadcast one is not read.
LegalRange(r) == LegalBlock(r) /\ (r.op = "ReadWrite" => r.readable \/ r.broadcast)

\* A write that was carried out although its request is refused, since nanomodbus looks
\* at the registers to be read only then.
WrittenThenRefused(s) ==
    /\ s.request.op = "ReadWrite" /\ ~s.request.readable /\ ~s.request.broadcast
    /\ s.answer = "IllegalDataAddress"

\* An answer tells what happened.  A request is refused for its address only if its
\* registers are not all in one documented block of its kind, and such a request is always
\* refused: for its address, but for a read of more coils than there are relays, and a
\* ReadWrite that is refused for its write.  A request that did nothing has left the
\* queue, the configuration and the lifecycle alone, whichever of its registers was wrong,
\* whichever channel is locked and however full the queue is; every refused one did
\* nothing, but for WrittenThenRefused.  A write that was carried out was so whole, value
\* by value, in one place of the queue; it switches no locked channel on, and a broadcast
\* has not reconfigured the bus.
ModbusAnswerExact ==
    modbus.serving # NoAnswer =>
      LET s == modbus.serving
          r == s.request
      IN  /\ s.answer = "IllegalDataAddress" => ~LegalRange(r)
          /\ ~LegalRange(r) => s.answer \in Exception
          /\ ~LegalBlock(r) /\ ~r.broadcast => s.answer = "IllegalDataAddress" \/ Overflowing(r)
          /\ s.done = {} => /\ modbus.queued = s.queued /\ modbus.unit = s.unit
                            /\ modbus.uart = s.uart /\ modbus.lifecycle = s.lifecycle
          /\ s.answer \in Exception => s.done = {} \/ WrittenThenRefused(s)
          /\ s.answer = "Normal" /\ r.op \in WriteOp => s.done # {}
          /\ \A b \in s.done :
               /\ b.values = r.values
               /\ b.kind = "RelayCommands" =>
                    /\ modbus.queued = s.queued + 1
                    /\ b.first + Quantity(r) <= RelayCount
                    /\ \A i \in 1 .. Quantity(r) : b.first + i - 1 \in modbus.locked => r.values[i] = 0
               /\ (modbus.unit # s.unit \/ modbus.uart # s.uart) =>
                    modbus.lifecycle = "Restarting" /\ ~r.broadcast

\* A device that does not serve the bus any more has the transport fault active and is
\* not operational, through role changes, client requests and restarts.
ModbusOutageShown ==
    modbus.up /\ ~modbus.available => modbus.fault /\ modbus.lifecycle # "Operational"
=============================================================================
