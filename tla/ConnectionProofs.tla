-------------------------- MODULE ConnectionProofs --------------------------
(***************************************************************************)
(* Proofs about the services that talk to the outside, for every number of *)
(* relays, channels and profiles and every timeout: Modbus answers tell    *)
(* what happened, its outages are shown, KNX has told the state of every   *)
(* relay, and the network goes on trying every profile in its turn.        *)
(***************************************************************************)
EXTENDS StorageProofs, FiniteSetTheorems

----------------------------------------------------------------------------
(* The registers of a request. *)

LEMMA RequestShape ==
    ASSUME NEW r \in Request
    PROVE  /\ r.address \in Nat
           /\ r.op \in ReadOp \cup WriteOp /\ r.broadcast \in BOOLEAN /\ r.readable \in BOOLEAN
           /\ Quantity(r) \in Nat \ {0} /\ DOMAIN r.values = 1 .. Quantity(r)
           /\ r.op \in WriteOp => r.values \in Seq(BusValues)
<1>1. r.address \in Nat
  <2>1. LastWord \in Nat
    BY DEF LastWord
  <2>2. r.address \in BusAddresses
    BY DEF Request
  <2>3. r.address \in 0 .. LastWord
    BY Zenon, <2>2, ModbusAssumption
  <2> QED BY ONLY <2>1, <2>3
<1>2. r.op \in ReadOp \cup WriteOp /\ r.broadcast \in BOOLEAN /\ r.readable \in BOOLEAN
  BY DEF Request, ReadOp, WriteOp
<1>3. \/ r.op \in ReadOp /\ r.values \in {[i \in 1 .. n |-> 0] : n \in 1 .. MaxRead}
      \/ r.op \in WriteOp /\ r.values \in WrittenValues
  BY DEF Request, WriteOp
<1>4. CASE r.op \in ReadOp /\ r.values \in {[i \in 1 .. n |-> 0] : n \in 1 .. MaxRead}
  <2>1. PICK n \in 1 .. MaxRead : r.values = [i \in 1 .. n |-> 0]
    BY <1>4
  <2>2. DOMAIN r.values = 1 .. n /\ n \in Nat /\ n # 0
    BY <2>1, ModbusAssumption
  <2>3. Len(r.values) = n
    BY <2>1, <2>2
  <2>4. r.op \notin WriteOp
    BY <1>4 DEF ReadOp, WriteOp
  <2> QED BY <1>1, <1>2, <2>2, <2>3, <2>4 DEF Quantity
<1>5. CASE r.op \in WriteOp /\ r.values \in WrittenValues
  <2>1. PICK n \in 1 .. MaxWritten : r.values \in [1 .. n -> BusValues]
    BY <1>5 DEF WrittenValues
  <2>2. DOMAIN r.values = 1 .. n /\ n \in Nat /\ n # 0
    BY <2>1, ModbusAssumption
  <2>3. Len(r.values) = n /\ r.values \in Seq(BusValues)
    BY <2>1, <2>2
  <2> QED BY <1>1, <1>2, <2>2, <2>3 DEF Quantity
<1> QED BY <1>3, <1>4, <1>5

\* A range check says whether all registers of a request are in a block.
LEMMA FitsExactly ==
    ASSUME NEW r \in Request, NEW base \in Nat, NEW count \in Nat \ {0}
    PROVE  Fits(r, base, count) <=>
             r.address .. r.address + Quantity(r) - 1 \subseteq base .. base + count - 1
<1> DEFINE q == Quantity(r)
           a == r.address
<1>1. a \in Nat /\ q \in Nat /\ q # 0
  BY RequestShape
<1> HIDE DEF a, q
<1>2. Fits(r, base, count) <=> a >= base /\ a - base <= count /\ q <= count - (a - base)
  BY <1>1 DEF Fits, RangeWithin, a, q
<1>3. a .. a + q - 1 \subseteq base .. base + count - 1 => a >= base /\ a + q <= base + count
  <2>1. a \in a .. a + q - 1 /\ a + q - 1 \in a .. a + q - 1
    BY <1>1
  <2> QED BY <1>1, <2>1
<1>4. a >= base /\ a + q <= base + count => a .. a + q - 1 \subseteq base .. base + count - 1
  BY <1>1
<1>5. a >= base /\ a + q <= base + count <=>
        a >= base /\ a - base <= count /\ q <= count - (a - base)
  BY <1>1
<1> QED BY <1>2, <1>3, <1>4, <1>5 DEF a, q

LEMMA AtExactly ==
    ASSUME NEW r \in Request, NEW address \in Nat
    PROVE  /\ At(r, address) <=> r.address .. r.address + Quantity(r) - 1 \subseteq {address}
           /\ At(r, address) <=> Fits(r, address, 1)
<1>1. {address} = address .. address + 1 - 1
  BY SMT
<1>2. r.address \in Nat /\ Quantity(r) \in Nat \ {0}
  BY RequestShape
<1>3. At(r, address) <=> Fits(r, address, 1)
  BY <1>2 DEF At, Fits, RangeWithin
<1> QED BY <1>1, <1>3, FitsExactly

\* The documented blocks are the ranges that the register map accepts.
LEMMA ReadsAreLegal ==
    ASSUME NEW r \in Request, r.op \in ReadOp
    PROVE  LegalBlock(r) <=> InReadableBlock(r)
<1> DEFINE registers == r.address .. r.address + Quantity(r) - 1
<1>0. RelayCount \in Nat \ {0} /\ 31 + RelayCount = 32 + RelayCount - 1
  BY ModbusAssumption
<1>1. LegalBlock(r) <=> \E block \in ReadableBlocks(r.op) : registers \subseteq block
  BY DEF LegalBlock, Registers
<1>2. /\ Fits(r, 0, RelayCount) <=> registers \subseteq 0 .. RelayCount - 1
      /\ Fits(r, 32, RelayCount) <=> registers \subseteq 32 .. 31 + RelayCount
      /\ Fits(r, 48, 4) <=> registers \subseteq 48 .. 51
      /\ Fits(r, 9, 2) <=> registers \subseteq 9 .. 10
      /\ Fits(r, 11, 2) <=> registers \subseteq 11 .. 12
  <2>1. /\ Fits(r, 0, RelayCount) <=> registers \subseteq 0 .. 0 + RelayCount - 1
        /\ Fits(r, 32, RelayCount) <=> registers \subseteq 32 .. 32 + RelayCount - 1
        /\ Fits(r, 48, 4) <=> registers \subseteq 48 .. 48 + 4 - 1
        /\ Fits(r, 9, 2) <=> registers \subseteq 9 .. 9 + 2 - 1
        /\ Fits(r, 11, 2) <=> registers \subseteq 11 .. 11 + 2 - 1
    <3>1. 0 \in Nat /\ 32 \in Nat /\ 48 \in Nat /\ 9 \in Nat /\ 11 \in Nat
          /\ 4 \in Nat \ {0} /\ 2 \in Nat \ {0}
      OBVIOUS
    <3>2. \A base \in Nat, count \in Nat \ {0} :
            Fits(r, base, count) <=> registers \subseteq base .. base + count - 1
      BY FitsExactly
    <3> HIDE DEF registers
    <3> QED BY <1>0, <3>1, <3>2
  <2>2. /\ 48 .. 48 + 4 - 1 = 48 .. 51 /\ 9 .. 9 + 2 - 1 = 9 .. 10
        /\ 11 .. 11 + 2 - 1 = 11 .. 12
    OBVIOUS
  <2>3. 0 + RelayCount - 1 = RelayCount - 1
    BY <1>0
  <2> HIDE DEF registers
  <2> QED BY <1>0, <2>1, <2>2, <2>3
<1>3. \A address \in Nat : At(r, address) <=> registers \subseteq {address}
  BY AtExactly
<1> HIDE DEF registers
<1>4. CASE r.op = "ReadCoils"
  BY <1>1, <1>2, <1>4 DEF ReadableBlocks, InReadableBlock
<1>5. CASE r.op = "ReadHolding"
  <2>1. LegalBlock(r) <=>
          \/ registers \subseteq 32 .. 31 + RelayCount \/ registers \subseteq 48 .. 51
          \/ registers \subseteq {128} \/ registers \subseteq {130} \/ registers \subseteq {132}
    <3>1. ReadableBlocks(r.op) = {32 .. 31 + RelayCount, 48 .. 51, {128}, {130}, {132}}
      BY <1>5 DEF ReadableBlocks
    <3> QED BY ONLY <1>1, <3>1
  <2>2. InReadableBlock(r) <=>
          \/ Fits(r, 32, RelayCount) \/ Fits(r, 48, 4)
          \/ At(r, 128) \/ At(r, 130) \/ At(r, 132)
    BY <1>5 DEF InReadableBlock
  <2>3. 128 \in Nat /\ 130 \in Nat /\ 132 \in Nat
    OBVIOUS
  <2> QED BY <1>2, <1>3, <2>1, <2>2, <2>3
<1>6. CASE r.op = "ReadInput"
  <2>1. LegalBlock(r) <=>
          \/ registers \subseteq 0 .. RelayCount - 1 \/ registers \subseteq {8}
          \/ registers \subseteq 9 .. 10 \/ registers \subseteq 11 .. 12
    <3>1. ReadableBlocks(r.op) = {0 .. RelayCount - 1, {8}, 9 .. 10, 11 .. 12}
      BY <1>6 DEF ReadableBlocks
    <3> QED BY ONLY <1>1, <3>1
  <2>2. InReadableBlock(r) <=>
          Fits(r, 0, RelayCount) \/ At(r, 8) \/ Fits(r, 9, 2) \/ Fits(r, 11, 2)
    BY <1>6 DEF InReadableBlock
  <2>3. 8 \in Nat
    OBVIOUS
  <2> QED BY <1>2, <1>3, <2>1, <2>2, <2>3
<1> QED BY <1>4, <1>5, <1>6 DEF ReadOp

\* A read that has no room in the callback is not legal either.
LEMMA OverflowIsIllegal ==
    ASSUME NEW r \in Request, Overflowing(r)
    PROVE  r.op \in ReadOp /\ ~LegalBlock(r)
<1>1. r.op \in ReadOp /\ r.op = "ReadCoils"
  BY DEF Overflowing, ReadOp
<1>2. r.address \in Nat /\ Quantity(r) \in Nat \ {0} /\ RelayCount \in Nat
  BY RequestShape, ModbusAssumption
<1>3. ~Fits(r, 0, RelayCount)
  BY <1>2 DEF Overflowing, Fits, RangeWithin
<1> QED BY <1>1, <1>3, ReadsAreLegal DEF InReadableBlock

LEMMA WritesAreLegal ==
    ASSUME NEW r \in Request
    PROVE  /\ r.op = "WriteCoils" => (LegalBlock(r) <=> Fits(r, 0, RelayCount))
           /\ r.op \in {"WriteHolding", "ReadWrite"} =>
                (LegalBlock(r) <=>
                   \/ Fits(r, 32, RelayCount) \/ Fits(r, 48, 4) \/ At(r, 56)
                   \/ ~r.broadcast /\ (At(r, 128) \/ At(r, 130)))
<1> DEFINE registers == r.address .. r.address + Quantity(r) - 1
<1>0. RelayCount \in Nat \ {0} /\ 31 + RelayCount = 32 + RelayCount - 1
  BY ModbusAssumption
<1>1. r.op \in WriteOp =>
        (LegalBlock(r) <=> \E block \in WritableBlocks(r.op, r.broadcast) : registers \subseteq block)
  BY DEF LegalBlock, Registers, ReadOp, WriteOp
<1>2. /\ Fits(r, 0, RelayCount) <=> registers \subseteq 0 .. RelayCount - 1
      /\ Fits(r, 32, RelayCount) <=> registers \subseteq 32 .. 31 + RelayCount
      /\ Fits(r, 48, 4) <=> registers \subseteq 48 .. 51
  <2>1. /\ Fits(r, 0, RelayCount) <=> registers \subseteq 0 .. 0 + RelayCount - 1
        /\ Fits(r, 32, RelayCount) <=> registers \subseteq 32 .. 32 + RelayCount - 1
        /\ Fits(r, 48, 4) <=> registers \subseteq 48 .. 48 + 4 - 1
    <3>1. 0 \in Nat /\ 32 \in Nat /\ 48 \in Nat /\ 4 \in Nat \ {0}
      OBVIOUS
    <3>2. \A base \in Nat, count \in Nat \ {0} :
            Fits(r, base, count) <=> registers \subseteq base .. base + count - 1
      BY FitsExactly
    <3> HIDE DEF registers
    <3> QED BY <1>0, <3>1, <3>2
  <2>2. 48 .. 48 + 4 - 1 = 48 .. 51
    OBVIOUS
  <2>3. 0 + RelayCount - 1 = RelayCount - 1
    BY <1>0
  <2> HIDE DEF registers
  <2> QED BY <1>0, <2>1, <2>2, <2>3
<1>3. \A address \in Nat : At(r, address) <=> registers \subseteq {address}
  BY AtExactly
<1> HIDE DEF registers
<1>4. CASE r.op = "WriteCoils"
  BY <1>1, <1>2, <1>4 DEF WritableBlocks, WriteOp
<1>5. CASE r.op \in {"WriteHolding", "ReadWrite"}
  <2>1. CASE r.broadcast
    <3>1. LegalBlock(r) <=>
            \/ registers \subseteq 32 .. 31 + RelayCount \/ registers \subseteq 48 .. 51
            \/ registers \subseteq {56}
      <4>1. WritableBlocks(r.op, r.broadcast) = {32 .. 31 + RelayCount, 48 .. 51, {56}}
        BY <1>5, <2>1 DEF WritableBlocks
      <4>2. r.op \in WriteOp
        BY <1>5 DEF WriteOp
      <4> QED BY ONLY <1>1, <4>1, <4>2
    <3>2. 56 \in Nat /\ 128 \in Nat /\ 130 \in Nat
      OBVIOUS
    <3> QED BY <1>2, <1>3, <1>5, <2>1, <3>1, <3>2
  <2>2. CASE ~r.broadcast
    <3>1. LegalBlock(r) <=>
            \/ registers \subseteq 32 .. 31 + RelayCount \/ registers \subseteq 48 .. 51
            \/ registers \subseteq {56} \/ registers \subseteq {128} \/ registers \subseteq {130}
      <4>1. WritableBlocks(r.op, r.broadcast) = {32 .. 31 + RelayCount, 48 .. 51, {56}, {128}, {130}}
        BY <1>5, <2>2 DEF WritableBlocks
      <4>2. r.op \in WriteOp
        BY <1>5 DEF WriteOp
      <4> QED BY ONLY <1>1, <4>1, <4>2
    <3>2. 56 \in Nat /\ 128 \in Nat /\ 130 \in Nat
      OBVIOUS
    <3> QED BY <1>2, <1>3, <1>5, <2>2, <3>1, <3>2
  <2> QED BY <2>1, <2>2
<1> QED BY <1>4, <1>5

----------------------------------------------------------------------------
(* The gateways. *)

\* A batch that a gateway may carry out for a request.
Legal(r, batch) ==
    /\ batch.kind \in BatchKind /\ batch.first \in 0 .. 7 /\ batch.values = r.values
    /\ batch.kind = "RelayCommands" => batch.first + Quantity(r) <= RelayCount
    /\ batch.kind = "UartSettings" => At(r, 128) /\ Decodable(r.values[1])
    /\ batch.kind = "UnitId" => At(r, 130) /\ r.values[1] \in UnitIds

LEMMA BatchIsLegal ==
    ASSUME NEW r \in Request, NEW kind \in BatchKind, NEW base \in Nat, NEW count \in 1 .. 8,
           Fits(r, base, count),
           kind = "RelayCommands" => count = RelayCount,
           kind = "UartSettings" => At(r, 128) /\ Decodable(r.values[1]),
           kind = "UnitId" => At(r, 130) /\ r.values[1] \in UnitIds
    PROVE  Legal(r, Batch(kind, r, base))
<1>1. r.address \in Nat /\ Quantity(r) \in Nat \ {0}
  BY RequestShape
<1> DEFINE first == r.address - base
<1>2. first >= 0 /\ first <= count /\ Quantity(r) <= count - first /\ first \in Int
  BY <1>1 DEF Fits, RangeWithin
<1>3. count \in Nat /\ count <= 8
  OBVIOUS
<1>4. first \in 0 .. 7 /\ first + Quantity(r) <= count
  BY ONLY <1>1, <1>2, <1>3
<1> QED BY <1>4 DEF Legal, Batch

LEMMA CoilParse ==
    ASSUME NEW r \in Request, NEW batch, batch = ParseCoilWrite(r)
    PROVE  IF Fits(r, 0, RelayCount) THEN Legal(r, batch) ELSE batch = Refused("IllegalAddress")
<1>1. RelayCount \in 1 .. 8 /\ "RelayCommands" \in BatchKind /\ 0 \in Nat
  BY ModbusAssumption DEF BatchKind
<1> QED BY <1>1, BatchIsLegal DEF ParseCoilWrite

\* Two blocks of different registers do not both take a request.
LEMMA BlocksApart ==
    ASSUME NEW r \in Request
    PROVE  /\ At(r, 128) => ~Fits(r, 32, RelayCount) /\ ~Fits(r, 48, 4) /\ ~At(r, 56) /\ ~At(r, 130)
           /\ At(r, 130) => ~Fits(r, 32, RelayCount) /\ ~Fits(r, 48, 4) /\ ~At(r, 56)
           /\ At(r, 56) => ~Fits(r, 32, RelayCount) /\ ~Fits(r, 48, 4)
           /\ Fits(r, 48, 4) => ~Fits(r, 32, RelayCount)
<1>1. r.address \in Nat /\ Quantity(r) \in Nat \ {0} /\ RelayCount \in 1 .. 8
  BY RequestShape, ModbusAssumption
<1> QED BY <1>1 DEF At, Fits, RangeWithin

LEMMA HoldingParse ==
    ASSUME NEW r \in Request, NEW batch, batch = ParseHoldingWrite(r)
    PROVE  \/ Legal(r, batch) /\ (Fits(r, 32, RelayCount) \/ Fits(r, 48, 4) \/ At(r, 56))
           \/ /\ Legal(r, batch) /\ batch.kind \in {"UartSettings", "UnitId"}
              /\ At(r, 128) \/ At(r, 130)
           \/ /\ batch = Refused("IllegalValue")
              /\ \/ Fits(r, 32, RelayCount) \/ Fits(r, 48, 4) \/ At(r, 56)
                 \/ At(r, 128) \/ At(r, 130)
           \/ /\ batch = Refused("IllegalAddress")
              /\ ~Fits(r, 32, RelayCount) /\ ~Fits(r, 48, 4) /\ ~At(r, 56)
              /\ ~At(r, 128) /\ ~At(r, 130)
<1>0. /\ RelayCount \in 1 .. 8 /\ 4 \in 1 .. 8 /\ 1 \in 1 .. 8
      /\ 32 \in Nat /\ 48 \in Nat /\ 56 \in Nat /\ 128 \in Nat /\ 130 \in Nat
      /\ "RelayCommands" \in BatchKind /\ "Indicator" \in BatchKind /\ "Buzzer" \in BatchKind
      /\ "UartSettings" \in BatchKind /\ "UnitId" \in BatchKind
  BY ModbusAssumption DEF BatchKind
<1>1. CASE Fits(r, 32, RelayCount)
  <2>1. batch = Checked(Batch("RelayCommands", r, 32), AllAtMost(r, 2))
    BY <1>1, BlocksApart DEF ParseHoldingWrite
  <2>2. Legal(r, Batch("RelayCommands", r, 32))
    BY <1>0, <1>1, BatchIsLegal
  <2> QED BY <1>1, <2>1, <2>2 DEF Checked
<1>2. CASE Fits(r, 48, 4)
  <2>1. batch = Checked(Batch("Indicator", r, 48), AllAtMost(r, 255))
    BY <1>2, BlocksApart DEF ParseHoldingWrite
  <2>2. Legal(r, Batch("Indicator", r, 48))
    BY <1>0, <1>2, BatchIsLegal
  <2> QED BY <1>2, <2>1, <2>2 DEF Checked
<1>3. CASE At(r, 56)
  <2>1. batch = Checked(Batch("Buzzer", r, 56), AllAtMost(r, 7))
    BY <1>3, BlocksApart DEF ParseHoldingWrite
  <2>2. Legal(r, Batch("Buzzer", r, 56))
    BY <1>0, <1>3, AtExactly, BatchIsLegal
  <2> QED BY <1>3, <2>1, <2>2 DEF Checked
<1>4. CASE At(r, 128)
  <2>1. batch = Checked(Batch("UartSettings", r, 128), Decodable(r.values[1]))
    BY <1>4, BlocksApart DEF ParseHoldingWrite
  <2>2. Decodable(r.values[1]) => Legal(r, Batch("UartSettings", r, 128))
    BY <1>0, <1>4, AtExactly, BatchIsLegal
  <2> QED BY <1>4, <2>1, <2>2 DEF Checked, Batch
<1>5. CASE At(r, 130)
  <2>1. batch = Checked(Batch("UnitId", r, 130), r.values[1] \in UnitIds)
    BY <1>5, BlocksApart DEF ParseHoldingWrite
  <2>2. r.values[1] \in UnitIds => Legal(r, Batch("UnitId", r, 130))
    BY <1>0, <1>5, AtExactly, BatchIsLegal
  <2> QED BY <1>5, <2>1, <2>2 DEF Checked, Batch
<1>6. CASE /\ ~Fits(r, 32, RelayCount) /\ ~Fits(r, 48, 4) /\ ~At(r, 56)
           /\ ~At(r, 128) /\ ~At(r, 130)
  BY <1>6 DEF ParseHoldingWrite
<1> QED BY <1>1, <1>2, <1>3, <1>4, <1>5, <1>6

\* What an outcome o of a request r found in m may be.
OutcomeRight(m, r, o) ==
    /\ o = Outcome(o.modbus, o.answer, o.done)
    /\ o.modbus \in Modbus /\ o.modbus.serving = m.serving /\ o.modbus.up = m.up
    /\ o.modbus.available = m.available /\ o.modbus.fault = m.fault
    /\ o.modbus.lifecycle \in {m.lifecycle, "Restarting"}
    /\ o.answer \in {"Normal"} \cup Exception /\ o.done \in SUBSET BatchRecord
    /\ o.done = {} => o.modbus = m
    /\ o.answer \in Exception =>
         \/ o.done = {}
         \/ r.op = "ReadWrite" /\ ~r.readable /\ ~r.broadcast /\ o.answer = "IllegalDataAddress"
    /\ o.answer = "Normal" /\ r.op \in WriteOp => o.done # {}
    /\ \A b \in o.done :
         /\ b.values = r.values
         /\ b.kind = "RelayCommands" =>
              /\ o.modbus.queued = m.queued + 1
              /\ b.first + Quantity(r) <= RelayCount
              /\ \A i \in 1 .. Quantity(r) : b.first + i - 1 \in o.modbus.locked => r.values[i] = 0
         /\ (o.modbus.unit # m.unit \/ o.modbus.uart # m.uart) =>
              o.modbus.lifecycle = "Restarting" /\ ~r.broadcast

LEMMA FailureRight ==
    ASSUME NEW m \in Modbus, NEW r, NEW answer \in Exception
    PROVE  OutcomeRight(m, r, Failed(m, answer)) /\ Failed(m, answer).answer = answer
<1>1. answer # "Normal" /\ answer \in {"Normal"} \cup Exception
  BY DEF Exception
<1> DEFINE o == Failed(m, answer)
<1>2. o = Outcome(o.modbus, o.answer, o.done) /\ o.modbus = m /\ o.answer = answer /\ o.done = {}
  BY DEF Failed, Outcome
<1> HIDE DEF o
<1> QED BY <1>1, <1>2 DEF OutcomeRight, o

LEMMA WriteRight ==
    ASSUME NEW m \in Modbus, NEW r \in Request, r.op \in WriteOp, NEW batch, Legal(r, batch),
           batch.kind \in {"UartSettings", "UnitId"} => ~r.broadcast,
           NEW o \in SubmitWrite(m, batch), batch \in BatchRecord
    PROVE  OutcomeRight(m, r, o) /\ o.answer \in {"Normal", "DeviceFailure"}
<1>0. /\ m.queued \in 0 .. QueueRoom /\ QueueRoom \in Nat /\ Quantity(r) \in Nat \ {0}
      /\ DOMAIN batch.values = 1 .. Quantity(r) /\ batch.values = r.values
      /\ batch.kind \in BatchKind /\ batch.first \in 0 .. 7 /\ {batch} \in SUBSET BatchRecord
      /\ "DeviceFailure" \in Exception /\ "Normal" \notin Exception
      /\ m.unit \in UnitIds /\ m.uart \in UartWords /\ {batch} # {}
  BY ModbusAssumption, RequestShape DEF Modbus, Legal, Exception
<1>1. CASE batch.kind = "RelayCommands"
  <2>1. o \in SubmitRelays(m, batch)
    BY <1>1 DEF SubmitWrite
  <2>2. CASE o = Failed(m, "DeviceFailure")
    BY <1>0, <2>2, FailureRight
  <2>3. CASE /\ m.queued < QueueRoom /\ ~SwitchesLocked(m, batch)
             /\ o = Outcome([m EXCEPT !.queued = m.queued + 1], "Normal", {batch})
    <3> DEFINE n == [m EXCEPT !.queued = m.queued + 1]
    <3>1. m.queued + 1 \in 0 .. QueueRoom
      BY <1>0, <2>3
    <3>2. /\ n \in Modbus /\ n.serving = m.serving /\ n.up = m.up /\ n.available = m.available
          /\ n.fault = m.fault /\ n.lifecycle = m.lifecycle /\ n.unit = m.unit /\ n.uart = m.uart
          /\ n.queued = m.queued + 1 /\ n.locked = m.locked
      BY <1>0, <3>1 DEF Modbus
    <3>3. o.modbus = n /\ o.answer = "Normal" /\ o.done = {batch}
          /\ o = Outcome(o.modbus, o.answer, o.done)
      BY <2>3 DEF Outcome
    <3> HIDE DEF n
    <3>4. \A i \in 1 .. Quantity(r) : batch.first + i - 1 \in n.locked => r.values[i] = 0
      BY <1>0, <2>3, <3>2 DEF SwitchesLocked
    <3>5. n # m
      BY <1>0, <3>2
    <3> QED BY <1>0, <1>1, <3>2, <3>3, <3>4 DEF OutcomeRight, Legal
  <2>4. m.queued >= QueueRoom \/ m.queued < QueueRoom
    BY <1>0
  <2> QED BY <2>1, <2>2, <2>3, <2>4 DEF SubmitRelays
<1>2. CASE batch.kind \in {"Indicator", "Buzzer"}
  <2>1. o = Outcome(m, "Normal", {batch})
    BY <1>2 DEF SubmitWrite
  <2>2. o.modbus = m /\ o.answer = "Normal" /\ o.done = {batch}
        /\ o = Outcome(o.modbus, o.answer, o.done)
    BY <2>1 DEF Outcome
  <2> QED BY <1>0, <1>2, <2>2 DEF OutcomeRight
<1>3. ASSUME NEW unit \in UnitIds, NEW uart \in UartWords, o \in CommitModbus(m, unit, uart, batch),
             ~r.broadcast, batch.kind # "RelayCommands"
      PROVE  OutcomeRight(m, r, o) /\ o.answer \in {"Normal", "DeviceFailure"}
  <2>1. CASE o = Failed(m, "DeviceFailure")
    BY <1>0, <2>1, FailureRight
  <2> DEFINE lifecycle == IF unit # m.unit \/ uart # m.uart THEN "Restarting" ELSE m.lifecycle
             n == [m EXCEPT !.unit = unit, !.uart = uart, !.lifecycle = lifecycle]
  <2>2. CASE o = Outcome(n, "Normal", {batch})
    <3>1. lifecycle \in LifecycleSeen
      BY DEF Modbus, LifecycleSeen
    <3>2. /\ lifecycle \in {m.lifecycle, "Restarting"}
          /\ (unit # m.unit \/ uart # m.uart) => lifecycle = "Restarting"
      OBVIOUS
    <3> HIDE DEF lifecycle
    <3>3. n \in Modbus
      BY <1>3, <3>1 DEF Modbus
    <3>5. /\ n.serving = m.serving /\ n.up = m.up /\ n.available = m.available
          /\ n.fault = m.fault /\ n.lifecycle = lifecycle /\ n.unit = unit /\ n.uart = uart
      BY DEF Modbus
    <3>4. o.modbus = n /\ o.answer = "Normal" /\ o.done = {batch}
          /\ o = Outcome(o.modbus, o.answer, o.done)
      BY <2>2 DEF Outcome
    <3> HIDE DEF n
    <3> QED BY <1>0, <1>3, <3>2, <3>3, <3>4, <3>5 DEF OutcomeRight
  <2>3. o \in {Failed(m, "DeviceFailure"), Outcome(n, "Normal", {batch})}
    BY <1>3 DEF CommitModbus, Modbus
  <2> QED BY <2>1, <2>2, <2>3
<1>4. CASE batch.kind = "UartSettings"
  <2>1. o \in CommitModbus(m, m.unit, batch.values[1], batch)
    BY <1>4 DEF SubmitWrite
  <2>2. batch.values[1] \in UartWords
    <3>1. Quantity(r) = 1 /\ Decodable(r.values[1])
      BY <1>4 DEF Legal, At
    <3>2. LastWord \in Nat
      BY DEF LastWord
    <3>3. r.values[1] \in BusValues
      BY <1>0, <3>1, RequestShape
    <3>4. r.values[1] \in 0 .. LastWord
      BY Zenon, <3>3, ModbusAssumption
    <3>5. r.values[1] \in Nat
      BY ONLY <3>2, <3>4
    <3>6. r.values[1] < 64
      BY Zenon, <3>1 DEF Decodable
    <3>7. r.values[1] \in UartWords
      BY ONLY <3>5, <3>6 DEF UartWords
    <3> QED BY <1>0, <3>7
  <2> QED BY <1>0, <1>3, <1>4, <2>1, <2>2
<1>5. CASE batch.kind = "UnitId"
  <2>1. o \in CommitModbus(m, batch.values[1], m.uart, batch)
    BY <1>5 DEF SubmitWrite
  <2>2. batch.values[1] \in UnitIds
    BY <1>0, <1>5 DEF Legal
  <2> QED BY <1>0, <1>3, <1>5, <2>1, <2>2
<1> QED BY <1>0, <1>1, <1>2, <1>4, <1>5 DEF BatchKind

\* The answer fits the registers of the request.
AnswerFits(legal, r, o) ==
    /\ ~legal => o.answer \in Exception
    /\ o.answer = "IllegalDataAddress" => ~legal

LEMMA BatchIsRecord ==
    ASSUME NEW r, NEW batch, Legal(r, batch), r.values \in Seq(BusValues),
           batch = [kind |-> batch.kind, first |-> batch.first, values |-> batch.values]
    PROVE  batch \in BatchRecord
BY DEF Legal, BatchRecord

LEMMA CoilsRight ==
    ASSUME NEW m \in Modbus, NEW r \in Request, r.op = "WriteCoils",
           NEW o \in SubmitWrite(m, ParseCoilWrite(r))
    PROVE  /\ OutcomeRight(m, r, o) /\ AnswerFits(LegalBlock(r), r, o)
           /\ ~LegalBlock(r) => o.answer = "IllegalDataAddress"
<1>0. /\ r.op \in WriteOp /\ r.values \in Seq(BusValues)
      /\ "IllegalDataAddress" \in Exception
  BY RequestShape DEF Exception, WriteOp
<1> DEFINE batch == ParseCoilWrite(r)
<1>1. IF Fits(r, 0, RelayCount) THEN Legal(r, batch) ELSE batch = Refused("IllegalAddress")
  BY CoilParse
<1>2. batch = [kind |-> batch.kind, first |-> batch.first, values |-> batch.values]
  BY DEF ParseCoilWrite, Batch, Refused
<1>3. Fits(r, 0, RelayCount) => batch.kind = "RelayCommands"
  BY DEF ParseCoilWrite, Batch
<1>4. LegalBlock(r) <=> Fits(r, 0, RelayCount)
  BY WritesAreLegal
<1>5. o \in SubmitWrite(m, batch)
  OBVIOUS
<1> HIDE DEF batch
<1>6. CASE Fits(r, 0, RelayCount)
  <2>1. batch \in BatchRecord
    BY <1>0, <1>1, <1>2, <1>6, BatchIsRecord
  <2>2. OutcomeRight(m, r, o) /\ o.answer \in {"Normal", "DeviceFailure"}
    BY <1>0, <1>1, <1>3, <1>5, <1>6, <2>1, WriteRight
  <2> QED BY <1>4, <1>6, <2>2 DEF AnswerFits
<1>7. CASE ~Fits(r, 0, RelayCount)
  <2>1. o = Failed(m, "IllegalDataAddress")
    BY <1>1, <1>5, <1>7 DEF SubmitWrite, Refused
  <2> QED BY <1>0, <1>4, <1>7, <2>1, FailureRight DEF AnswerFits
<1> QED BY <1>6, <1>7

LEMMA HoldingRight ==
    ASSUME NEW m \in Modbus, NEW r \in Request, r.op \in {"WriteHolding", "ReadWrite"},
           NEW o \in HoldingOutcomes(m, r)
    PROVE  /\ OutcomeRight(m, r, o) /\ AnswerFits(LegalBlock(r), r, o)
           /\ ~LegalBlock(r) /\ ~r.broadcast => o.answer = "IllegalDataAddress"
<1>0. /\ r.op \in WriteOp /\ r.values \in Seq(BusValues) /\ r.broadcast \in BOOLEAN
      /\ "IllegalDataAddress" \in Exception /\ "IllegalDataValue" \in Exception
  BY RequestShape DEF Exception, WriteOp
<1> DEFINE batch == ParseHoldingWrite(r)
           plain == Fits(r, 32, RelayCount) \/ Fits(r, 48, 4) \/ At(r, 56)
           transport == At(r, 128) \/ At(r, 130)
<1>2. \/ Legal(r, batch) /\ plain
      \/ Legal(r, batch) /\ batch.kind \in {"UartSettings", "UnitId"} /\ transport
      \/ batch = Refused("IllegalValue") /\ (plain \/ transport)
      \/ batch = Refused("IllegalAddress") /\ ~plain /\ ~transport
  BY HoldingParse
<1>3. batch = [kind |-> batch.kind, first |-> batch.first, values |-> batch.values]
  BY DEF ParseHoldingWrite, Batch, Refused, Checked
<1>4. LegalBlock(r) <=> plain \/ (~r.broadcast /\ transport)
  BY WritesAreLegal
<1>5. plain => ~transport
  BY BlocksApart
<1>6. o \in IF r.broadcast /\ batch.kind \in {"UartSettings", "UnitId"}
            THEN {Failed(m, "IllegalDataAddress")} ELSE SubmitWrite(m, batch)
  BY DEF HoldingOutcomes
<1>7. Legal(r, batch) /\ batch.kind \in {"UartSettings", "UnitId"} => transport
  BY DEF Legal
<1> HIDE DEF batch, plain, transport
<1>8. CASE Legal(r, batch) /\ r.broadcast /\ batch.kind \in {"UartSettings", "UnitId"}
  <2>1. o = Failed(m, "IllegalDataAddress") /\ ~LegalBlock(r)
    BY <1>4, <1>5, <1>6, <1>7, <1>8
  <2> QED BY <1>0, <1>8, <2>1, FailureRight DEF AnswerFits
<1>9. CASE Legal(r, batch) /\ ~(r.broadcast /\ batch.kind \in {"UartSettings", "UnitId"})
  <2>0. batch \in BatchRecord
    BY <1>0, <1>3, <1>9, BatchIsRecord
  <2>1. OutcomeRight(m, r, o) /\ o.answer \in {"Normal", "DeviceFailure"}
    BY <1>0, <1>6, <1>9, <2>0, WriteRight
  <2>2. LegalBlock(r)
    <3>1. ~(batch = Refused("IllegalValue")) /\ ~(batch = Refused("IllegalAddress"))
      BY <1>9 DEF Legal, Refused, BatchKind
    <3> QED BY <1>0, <1>2, <1>4, <1>9, <3>1
  <2> QED BY <2>1, <2>2 DEF AnswerFits
<1>10. CASE batch = Refused("IllegalValue")
  <2>1. o = Failed(m, "IllegalDataValue")
    BY <1>6, <1>10 DEF SubmitWrite, Refused
  <2>2. OutcomeRight(m, r, o) /\ o.answer = "IllegalDataValue"
    BY <1>0, <2>1, FailureRight
  <2>3. plain \/ transport
    <3>1. ~Legal(r, batch) /\ batch # Refused("IllegalAddress")
      BY <1>10 DEF Legal, Refused, BatchKind
    <3> QED BY <1>2, <3>1
  <2> QED BY <1>0, <1>4, <2>2, <2>3 DEF AnswerFits
<1>11. CASE batch = Refused("IllegalAddress")
  <2>1. o = Failed(m, "IllegalDataAddress")
    BY <1>6, <1>11 DEF SubmitWrite, Refused
  <2>2. ~plain /\ ~transport
    <3>1. ~Legal(r, batch) /\ batch # Refused("IllegalValue")
      BY <1>11 DEF Legal, Refused, BatchKind
    <3> QED BY <1>2, <3>1
  <2> QED BY <1>0, <1>4, <2>1, <2>2, FailureRight DEF AnswerFits
<1> QED BY <1>2, <1>8, <1>9, <1>10, <1>11

\* A request is answered by what it did, and refused for its address just if its
\* registers are not legal, but for the reads that overflow.
LEMMA OutcomesRight ==
    ASSUME NEW m \in Modbus, NEW r \in Request, NEW o \in Outcomes(m, r)
    PROVE  /\ OutcomeRight(m, r, o) /\ AnswerFits(LegalRange(r), r, o)
           /\ ~LegalBlock(r) /\ ~r.broadcast => o.answer = "IllegalDataAddress" \/ Overflowing(r)
<1>0. /\ r.op \in ReadOp \cup WriteOp /\ r.broadcast \in BOOLEAN /\ r.readable \in BOOLEAN
      /\ "IllegalDataAddress" \in Exception /\ "DeviceFailure" \in Exception
      /\ "Normal" \notin Exception
  BY RequestShape DEF Exception
<1>1. r.op # "ReadWrite" => (LegalRange(r) <=> LegalBlock(r))
  BY DEF LegalRange
<1>2. CASE r.op \in ReadOp
  <2>1. o = Failed(m, ReadAnswer(r))
    <3>1. r.op # "WriteCoils" /\ r.op # "WriteHolding" /\ r.op # "ReadWrite"
      BY <1>2 DEF ReadOp
    <3>2. Outcomes(m, r) = {Failed(m, ReadAnswer(r))}
      BY <1>2, <3>1 DEF Outcomes
    <3> QED BY <3>2
  <2>2. (LegalRange(r) <=> LegalBlock(r)) /\ r.op \notin WriteOp
    BY <1>1, <1>2 DEF ReadOp, WriteOp
  <2>3. LegalBlock(r) <=> InReadableBlock(r)
    BY <1>2, ReadsAreLegal
  <2>4. CASE Overflowing(r)
    <3>1. o = Failed(m, "DeviceFailure") /\ ~LegalBlock(r)
      BY <2>1, <2>4, OverflowIsIllegal DEF ReadAnswer
    <3>2. OutcomeRight(m, r, o) /\ o.answer = "DeviceFailure"
      BY <1>0, <3>1, FailureRight
    <3> QED BY <1>0, <2>2, <2>4, <3>1, <3>2 DEF AnswerFits
  <2>5. CASE ~Overflowing(r) /\ InReadableBlock(r)
    <3>1. o = Failed(m, "Normal")
      BY <2>1, <2>5 DEF ReadAnswer
    <3>2. /\ o = Outcome(o.modbus, o.answer, o.done)
          /\ o.modbus = m /\ o.answer = "Normal" /\ o.done = {}
      BY <3>1 DEF Failed, Outcome
    <3>3. OutcomeRight(m, r, o)
      BY <1>0, <2>2, <3>2 DEF OutcomeRight
    <3> QED BY <2>2, <2>3, <2>5, <3>2, <3>3 DEF AnswerFits
  <2>6. CASE ~Overflowing(r) /\ ~InReadableBlock(r)
    <3>1. o = Failed(m, "IllegalDataAddress")
      BY <2>1, <2>6 DEF ReadAnswer
    <3> QED BY <1>0, <2>2, <2>3, <2>6, <3>1, FailureRight DEF AnswerFits
  <2> QED BY <2>4, <2>5, <2>6
<1>3. CASE r.op = "WriteCoils"
  <2>1. o \in SubmitWrite(m, ParseCoilWrite(r))
    BY <1>3 DEF Outcomes, ReadOp
  <2> QED BY <1>1, <1>3, <2>1, CoilsRight DEF AnswerFits
<1>4. CASE r.op = "WriteHolding"
  <2>1. o \in HoldingOutcomes(m, r)
    BY <1>4 DEF Outcomes, ReadOp
  <2> QED BY <1>1, <1>4, <2>1, HoldingRight DEF AnswerFits
<1>5. CASE r.op = "ReadWrite"
  <2>1. PICK p \in HoldingOutcomes(m, r) : o = ReadAfterWrite(r, p)
    BY <1>5 DEF Outcomes, ReadOp
  <2>2. /\ OutcomeRight(m, r, p) /\ AnswerFits(LegalBlock(r), r, p)
        /\ ~LegalBlock(r) /\ ~r.broadcast => p.answer = "IllegalDataAddress"
    BY <1>5, HoldingRight
  <2>3. LegalRange(r) <=> LegalBlock(r) /\ (r.readable \/ r.broadcast)
    BY <1>5 DEF LegalRange
  <2>4. CASE p.answer = "Normal" /\ ~r.broadcast /\ ~r.readable
    <3>1. p = [modbus |-> p.modbus, answer |-> p.answer, done |-> p.done]
      BY <2>2 DEF OutcomeRight, Outcome
    <3>2. /\ o.modbus = p.modbus /\ o.answer = "IllegalDataAddress" /\ o.done = p.done
          /\ o = Outcome(o.modbus, o.answer, o.done)
      BY <2>1, <2>4, <3>1 DEF ReadAfterWrite, Outcome
    <3>3. OutcomeRight(m, r, o)
      BY <1>0, <1>5, <2>2, <2>4, <3>2 DEF OutcomeRight
    <3> QED BY <1>0, <2>3, <2>4, <3>2, <3>3 DEF AnswerFits
  <2>5. CASE ~(p.answer = "Normal" /\ ~r.broadcast /\ ~r.readable)
    <3>1. o = p
      BY <2>1, <2>5 DEF ReadAfterWrite
    <3>2. p.answer \in {"Normal"} \cup Exception
      BY <2>2 DEF OutcomeRight
    <3> QED BY <1>0, <2>2, <2>3, <2>5, <3>1, <3>2 DEF AnswerFits
  <2> QED BY <2>4, <2>5
<1> QED BY <1>0, <1>2, <1>3, <1>4, <1>5 DEF WriteOp

----------------------------------------------------------------------------
(* Modbus. *)

\* A request is served by a running device only, and everything else waits for its answer.
ModbusInv ==
    /\ modbus \in Modbus
    /\ modbus.serving # NoAnswer => modbus.up
    /\ ModbusOutageShown
    /\ ModbusAnswerExact

LEMMA ModbusStarts == ModbusInit => ModbusInv
<1> SUFFICES ASSUME ModbusInit PROVE ModbusInv
  OBVIOUS
<1>1. 10 \in UnitIds /\ 4 \in UartWords /\ 0 \in 0 .. QueueRoom
  BY ModbusAssumption DEF UnitIds, UartWords
<1>2. modbus \in Modbus
  BY <1>1 DEF ModbusInit, Modbus, LifecycleSeen
<1> QED BY <1>2 DEF ModbusInit, ModbusInv, ModbusOutageShown, ModbusAnswerExact

LEMMA ModbusStep == ASSUME ModbusInv, ModbusNext PROVE ModbusInv'
<1>0. /\ modbus \in Modbus
      /\ modbus = [up |-> modbus.up, initialized |-> modbus.initialized,
                   available |-> modbus.available, role |-> modbus.role, fault |-> modbus.fault,
                   lifecycle |-> modbus.lifecycle, unit |-> modbus.unit, uart |-> modbus.uart,
                   queued |-> modbus.queued, locked |-> modbus.locked,
                   serving |-> modbus.serving]
      /\ modbus.queued \in 0 .. QueueRoom /\ modbus.locked \in SUBSET (0 .. RelayCount - 1)
  BY DEF ModbusInv, Modbus
<1>1. CASE BootModbus
  <2>1. PICK works \in BOOLEAN, degraded \in BOOLEAN :
         modbus' = [modbus EXCEPT
            !.up = TRUE, !.initialized = works, !.available = works, !.fault = ~works,
            !.role = "Server", !.queued = 0, !.locked = {},
            !.lifecycle = IF works /\ ~degraded THEN "Operational" ELSE "Degraded"]
    BY <1>1 DEF BootModbus
  <2>2. 0 \in 0 .. QueueRoom /\ modbus.serving = NoAnswer
    BY <1>1, ModbusAssumption DEF BootModbus, ModbusInv
  <2>3. modbus' \in Modbus
    BY <1>0, <2>1, <2>2 DEF Modbus, LifecycleSeen
  <2>4. modbus'.serving = NoAnswer /\ modbus'.up
    BY <1>0, <2>1, <2>2
  <2>5. ModbusOutageShown'
    <3>1. CASE works
      BY <1>0, <2>1, <3>1 DEF ModbusOutageShown
    <3>2. CASE ~works
      BY <1>0, <2>1, <3>2 DEF ModbusOutageShown
    <3> QED BY <3>1, <3>2
  <2> QED BY <2>3, <2>4, <2>5 DEF ModbusInv, ModbusAnswerExact
<1>2. ASSUME modbus' \in Modbus, modbus'.serving = NoAnswer,
             modbus'.up => modbus.up,
             modbus'.available = modbus.available,
             modbus'.lifecycle \in {modbus.lifecycle, "Restarting"},
             modbus.fault => modbus'.fault
      PROVE  ModbusInv'
  <2>1. ModbusOutageShown'
    BY <1>2 DEF ModbusInv, ModbusOutageShown
  <2> QED BY <1>2, <2>1 DEF ModbusInv, ModbusAnswerExact
<1>3. CASE StopModbus
  <2>1. modbus' = [modbus EXCEPT !.up = FALSE] /\ modbus.serving = NoAnswer
    BY <1>3 DEF StopModbus, BusReady
  <2>2. modbus' \in Modbus
    BY <1>0, <2>1 DEF Modbus
  <2>3. /\ modbus'.serving = NoAnswer /\ ~modbus'.up /\ modbus'.available = modbus.available
        /\ modbus'.lifecycle = modbus.lifecycle /\ modbus'.fault = modbus.fault
    BY <1>0, <2>1
  <2> QED BY <1>2, <2>2, <2>3
<1>4. CASE DrainQueue
  <2>1. PICK left \in 0 .. modbus.queued - 1 : modbus' = [modbus EXCEPT !.queued = left]
    BY <1>4 DEF DrainQueue
  <2>2. left \in 0 .. QueueRoom
    BY <1>0, <2>1, ModbusAssumption
  <2>3. modbus' \in Modbus
    BY <1>0, <2>1, <2>2 DEF Modbus
  <2>4. /\ modbus'.serving = NoAnswer /\ modbus'.up = modbus.up
        /\ modbus'.available = modbus.available
        /\ modbus'.lifecycle = modbus.lifecycle /\ modbus'.fault = modbus.fault
    BY <1>0, <1>4, <2>1 DEF DrainQueue, BusReady
  <2> QED BY <1>2, <2>3, <2>4
<1>11. CASE QueueElsewhere
  <2>1. modbus' = [modbus EXCEPT !.queued = modbus.queued + 1] /\ modbus.serving = NoAnswer
    BY <1>11 DEF QueueElsewhere, BusReady
  <2>2. modbus.queued + 1 \in 0 .. QueueRoom
    BY <1>0, <1>11, ModbusAssumption DEF QueueElsewhere
  <2>3. modbus' \in Modbus
    BY <1>0, <2>1, <2>2 DEF Modbus
  <2>4. /\ modbus'.serving = NoAnswer /\ modbus'.up = modbus.up
        /\ modbus'.available = modbus.available
        /\ modbus'.lifecycle = modbus.lifecycle /\ modbus'.fault = modbus.fault
    BY <1>0, <2>1
  <2> QED BY <1>2, <2>3, <2>4
<1>12. CASE FactoryReset
  <2>1. PICK last \in 0 .. RelayCount - 1 :
       \E m \in {[modbus EXCEPT !.locked = @ \cup 0 .. last]} :
         \/ modbus' = m \/ modbus' = [m EXCEPT !.queued = 0]
         \/ modbus' = [m EXCEPT !.queued = 0, !.unit = 10, !.uart = 4, !.lifecycle = "Restarting"]
    BY <1>12 DEF FactoryReset
  <2>2. modbus.serving = NoAnswer
    BY <1>12 DEF FactoryReset, BusReady
  <2> DEFINE locked == modbus.locked \cup 0 .. last
             m == [modbus EXCEPT !.locked = locked]
  <2>3. \/ modbus' = m \/ modbus' = [m EXCEPT !.queued = 0]
        \/ modbus' = [m EXCEPT !.queued = 0, !.unit = 10, !.uart = 4, !.lifecycle = "Restarting"]
    BY <2>1
  <2>4. locked \in SUBSET (0 .. RelayCount - 1)
    <3>1. RelayCount \in Nat
      BY ModbusAssumption
    <3>2. 0 .. last \subseteq 0 .. RelayCount - 1
      BY <3>1
    <3> QED BY <1>0, <3>2
  <2> HIDE DEF locked
  <2>5. /\ m \in Modbus /\ m.serving = NoAnswer /\ m.up = modbus.up
        /\ m.available = modbus.available /\ m.lifecycle = modbus.lifecycle
        /\ m.fault = modbus.fault
    BY <1>0, <2>2, <2>4 DEF Modbus
  <2> HIDE DEF m
  <2>6. 0 \in 0 .. QueueRoom /\ 10 \in UnitIds /\ 4 \in UartWords /\ "Restarting" \in LifecycleSeen
    BY ModbusAssumption DEF UnitIds, UartWords, LifecycleSeen
  <2>7. modbus' \in Modbus
    <3>1. [m EXCEPT !.queued = 0] \in Modbus
      BY <2>5, <2>6 DEF Modbus
    <3>2. [m EXCEPT !.queued = 0, !.unit = 10, !.uart = 4, !.lifecycle = "Restarting"] \in Modbus
      BY <2>5, <2>6 DEF Modbus
    <3> QED BY <2>3, <2>5, <3>1, <3>2
  <2>8. /\ modbus'.serving = NoAnswer /\ modbus'.up = modbus.up
        /\ modbus'.available = modbus.available
        /\ modbus'.lifecycle \in {modbus.lifecycle, "Restarting"}
        /\ modbus'.fault = modbus.fault
    <3>1. CASE modbus' = m
      BY <2>5, <3>1
    <3>2. CASE modbus' = [m EXCEPT !.queued = 0]
      BY <2>5, <3>2 DEF Modbus
    <3>3. CASE modbus' = [m EXCEPT !.queued = 0, !.unit = 10, !.uart = 4,
                                   !.lifecycle = "Restarting"]
      BY <2>5, <3>3 DEF Modbus
    <3> QED BY ONLY <2>3, <3>1, <3>2, <3>3
  <2> QED BY <1>2, <2>7, <2>8
<1>5. ASSUME NEW role \in {"Server", "Client"}, SetModbusRole(role) PROVE ModbusInv'
  <2>1. modbus' = [modbus EXCEPT !.role = role] /\ modbus.serving = NoAnswer
    BY <1>5 DEF SetModbusRole, BusReady
  <2>2. modbus' \in Modbus
    BY <1>0, <2>1 DEF Modbus
  <2>3. /\ modbus'.serving = NoAnswer /\ modbus'.up = modbus.up
        /\ modbus'.available = modbus.available
        /\ modbus'.lifecycle = modbus.lifecycle /\ modbus'.fault = modbus.fault
    BY <1>0, <2>1
  <2> QED BY <1>2, <2>2, <2>3
<1>6. CASE RequestAsClient
  <2>1. modbus.serving = NoAnswer /\ (modbus' = modbus \/ modbus' = [modbus EXCEPT !.fault = TRUE])
    BY <1>6 DEF RequestAsClient, ClientReady, BusReady, ClientResults
  <2>2. modbus' \in Modbus
    BY <1>0, <2>1 DEF Modbus
  <2>3. /\ modbus'.serving = NoAnswer /\ modbus'.up = modbus.up
        /\ modbus'.available = modbus.available
        /\ modbus'.lifecycle = modbus.lifecycle /\ (modbus.fault => modbus'.fault)
    BY <1>0, <2>1
  <2> QED BY <1>2, <2>2, <2>3
<1>7. ASSUME NEW m \in Modbus, m.serving = NoAnswer, modbus' = TransportStopped(m) PROVE ModbusInv'
  <2> DEFINE lifecycle == IF m.lifecycle = "Operational" THEN "Degraded" ELSE m.lifecycle
  <2>1. lifecycle \in LifecycleSeen /\ lifecycle # "Operational"
    BY DEF Modbus, LifecycleSeen
  <2>2. modbus' = [m EXCEPT !.available = FALSE, !.fault = TRUE, !.lifecycle = lifecycle]
    BY <1>7 DEF TransportStopped, Modbus
  <2> HIDE DEF lifecycle
  <2>3. modbus' \in Modbus
    BY <2>1, <2>2 DEF Modbus
  <2>4. modbus'.serving = NoAnswer /\ modbus'.fault /\ modbus'.lifecycle = lifecycle
    BY <1>7, <2>2 DEF Modbus
  <2> QED BY <2>1, <2>3, <2>4 DEF ModbusInv, ModbusOutageShown, ModbusAnswerExact
<1>8. CASE FailTransport
  BY <1>0, <1>7, <1>8 DEF FailTransport, BusReady
<1>9. CASE AnswerRequest
  <2> DEFINE m == [modbus EXCEPT !.serving = NoAnswer]
  <2>1. modbus' = m \/ modbus' = TransportStopped(m)
    BY <1>9 DEF AnswerRequest
  <2>2. /\ m \in Modbus /\ m.serving = NoAnswer /\ m.up = modbus.up
        /\ m.available = modbus.available
        /\ m.lifecycle = modbus.lifecycle /\ m.fault = modbus.fault
    BY <1>0 DEF Modbus
  <2> HIDE DEF m
  <2>3. CASE modbus' = m
    BY <1>2, <2>2, <2>3
  <2> QED BY <1>7, <2>1, <2>2, <2>3
<1>10. ASSUME NEW r \in Request, ServeRequest(r) PROVE ModbusInv'
  <2>1. PICK o \in Outcomes(modbus, r) :
         modbus' = [o.modbus EXCEPT !.serving =
                      [request |-> r, answer |-> o.answer, done |-> o.done,
                       queued |-> modbus.queued, unit |-> modbus.unit,
                       uart |-> modbus.uart, lifecycle |-> modbus.lifecycle]]
    BY <1>10 DEF ServeRequest
  <2> DEFINE n == o.modbus
             s == [request |-> r, answer |-> o.answer, done |-> o.done,
                   queued |-> modbus.queued, unit |-> modbus.unit,
                   uart |-> modbus.uart, lifecycle |-> modbus.lifecycle]
  <2>2. /\ OutcomeRight(modbus, r, o) /\ AnswerFits(LegalRange(r), r, o)
        /\ ~LegalBlock(r) /\ ~r.broadcast => o.answer = "IllegalDataAddress" \/ Overflowing(r)
    BY <1>0, OutcomesRight
  <2>3. /\ modbus.up /\ modbus.available
    BY <1>10 DEF ServeRequest, BusReady
  <2>4. /\ n \in Modbus /\ n.up /\ n.available
    BY <2>2, <2>3 DEF OutcomeRight
  <2>5. s \in Served
    <3>1. /\ o.answer \in {"Normal"} \cup Exception
          /\ o.done \in SUBSET BatchRecord
      BY <2>2 DEF OutcomeRight
    <3>2. /\ modbus.unit \in UnitIds /\ modbus.uart \in UartWords
          /\ modbus.lifecycle \in LifecycleSeen
      BY <1>0 DEF Modbus
    <3> QED BY <1>0, <3>1, <3>2 DEF Served
  <2>6. s.request = r /\ s.answer = o.answer /\ s.done = o.done /\ s.queued = modbus.queued
        /\ s.unit = modbus.unit /\ s.uart = modbus.uart /\ s.lifecycle = modbus.lifecycle
    OBVIOUS
  <2> HIDE DEF s, n
  <2>7. modbus' = [n EXCEPT !.serving = s]
    BY <2>1 DEF s, n
  <2>8. modbus' \in Modbus
    BY <2>4, <2>5, <2>7 DEF Modbus
  <2>9. /\ modbus'.serving = s /\ modbus'.up = n.up /\ modbus'.available = n.available
        /\ modbus'.queued = n.queued /\ modbus'.unit = n.unit /\ modbus'.uart = n.uart
        /\ modbus'.lifecycle = n.lifecycle /\ modbus'.locked = n.locked
    BY <2>4, <2>7 DEF Modbus
  <2>10. ModbusOutageShown'
    BY <2>4, <2>9 DEF ModbusOutageShown
  <2>11. /\ o.done = {} => n = modbus
         /\ o.answer \in Exception => o.done = {} \/ WrittenThenRefused(s)
         /\ o.answer = "Normal" /\ r.op \in WriteOp => o.done # {}
    BY <2>2, <2>6 DEF OutcomeRight, WrittenThenRefused, n
  <2>13. \A b \in o.done :
           /\ b.values = r.values
           /\ b.kind = "RelayCommands" =>
                /\ n.queued = modbus.queued + 1
                /\ b.first + Quantity(r) <= RelayCount
                /\ \A i \in 1 .. Quantity(r) : b.first + i - 1 \in n.locked => r.values[i] = 0
           /\ (n.unit # modbus.unit \/ n.uart # modbus.uart) =>
                n.lifecycle = "Restarting" /\ ~r.broadcast
    BY <2>2 DEF OutcomeRight, n
  <2>14. modbus'.serving.request = r /\ modbus'.serving.answer = o.answer
         /\ modbus'.serving.done = o.done
    BY <2>6, <2>9
  <2>12. ModbusAnswerExact'
    <3>1. /\ o.answer = "IllegalDataAddress" => ~LegalRange(r)
          /\ ~LegalRange(r) => o.answer \in Exception
      BY <2>2 DEF AnswerFits
    <3>2. s.done = {} =>
            /\ modbus'.queued = s.queued /\ modbus'.unit = s.unit
            /\ modbus'.uart = s.uart /\ modbus'.lifecycle = s.lifecycle
      BY <2>6, <2>9, <2>11
    <3> QED BY <2>2, <2>6, <2>9, <2>11, <2>13, <3>1, <3>2 DEF ModbusAnswerExact
  <2> QED BY <2>4, <2>8, <2>9, <2>10, <2>12 DEF ModbusInv
<1> QED BY <1>1, <1>3, <1>4, <1>5, <1>6, <1>8, <1>9, <1>10, <1>11, <1>12 DEF ModbusNext

----------------------------------------------------------------------------
(* KNX. *)

\* The bus knows the state of the relay, or will be told, or is not to be told yet.
ChannelTold(channel, c) ==
    \/ StatusPending(channel)
    \/ c \notin KnxTellsAtStart /\ ~channel.moved
    \/ channel.told = Bit(channel.on, c)

KnxInv(k) == k \in Knx /\ \A c \in KnxChannels : ChannelTold(k.channels[c], c)

\* The transport does not run just while a fault of the link is active.
LinkFaults == {"KnxUnavailable", "KnxBusOff"}
LinkShown(k) == k.started <=> k.faults \cap LinkFaults = {}

LEMMA StartedChannelTold ==
    ASSUME NEW channel \in KnxChannel, NEW c
    PROVE  StartedChannel(channel, c) \in KnxChannel /\ ChannelTold(StartedChannel(channel, c), c)
<1> DEFINE d == StartedChannel(channel, c)
<1>1. d \in KnxChannel
  <2>1. (c \notin KnxTellsAtStart) \in BOOLEAN /\ (c \notin KnxFaultObjects) \in BOOLEAN
    OBVIOUS
  <2> QED BY <2>1 DEF StartedChannel, KnxChannel
<1>2. d.moved = FALSE /\ d.statusPublished = (c \notin KnxTellsAtStart)
  BY DEF StartedChannel, KnxChannel
<1> HIDE DEF d
<1>3. CASE c \in KnxTellsAtStart
  <2>1. d.statusPublished = FALSE
    BY <1>2, <1>3
  <2> QED BY <1>1, <2>1 DEF ChannelTold, StatusPending, d
<1>4. CASE c \notin KnxTellsAtStart
  BY <1>1, <1>2, <1>4 DEF ChannelTold, d
<1> QED BY <1>3, <1>4

LEMMA MovedChannelTold ==
    ASSUME NEW channel \in KnxChannel, NEW c, ChannelTold(channel, c),
           NEW on \in BOOLEAN, NEW faulted \in BOOLEAN
    PROVE  Moved(channel, on, faulted) \in KnxChannel /\ ChannelTold(Moved(channel, on, faulted), c)
<1> DEFINE d == Moved(channel, on, faulted)
<1>0. channel.on \in BOOLEAN /\ channel.changed \in BOOLEAN /\ channel.moved \in BOOLEAN
  BY DEF KnxChannel
<1>1. CASE on = channel.on
  <2>1. (channel.changed \/ on # channel.on) = channel.changed
        /\ (channel.moved \/ on # channel.on) = channel.moved
    BY <1>0, <1>1
  <2>2. d = [channel EXCEPT !.on = on, !.faulted = faulted, !.changed = channel.changed,
                            !.moved = channel.moved]
    BY <2>1 DEF Moved, KnxChannel
  <2>3. /\ d \in KnxChannel /\ d.on = channel.on /\ d.changed = channel.changed
        /\ d.moved = channel.moved /\ d.told = channel.told
        /\ d.statusPublished = channel.statusPublished
    BY <1>0, <1>1, <2>2 DEF KnxChannel
  <2> HIDE DEF d
  <2>4. d.moved <=> channel.moved
    BY <2>3
  <2>5. StatusPending(d) <=> StatusPending(channel)
    BY <2>3 DEF StatusPending
  <2>6. Bit(d.on, c) = Bit(channel.on, c)
    BY <2>3
  <2> QED BY <2>3, <2>4, <2>5, <2>6 DEF ChannelTold, d
<1>2. CASE on # channel.on
  <2>1. (channel.changed \/ on # channel.on) = TRUE /\ (channel.moved \/ on # channel.on) = TRUE
    BY <1>2
  <2>2. d = [channel EXCEPT !.on = on, !.faulted = faulted, !.changed = TRUE, !.moved = TRUE]
    BY <2>1 DEF Moved, KnxChannel
  <2>3. d \in KnxChannel /\ d.changed = TRUE
    BY <2>2 DEF KnxChannel
  <2> QED BY <2>3 DEF ChannelTold, StatusPending
<1> QED BY <1>1, <1>2

\* A change of one channel.
LEMMA ChannelReplaced ==
    ASSUME NEW k, KnxInv(k), NEW c \in KnxChannels, NEW d \in KnxChannel, ChannelTold(d, c)
    PROVE  KnxInv([k EXCEPT !.channels = [k.channels EXCEPT ![c] = d]])
<1> DEFINE n == [k EXCEPT !.channels = [k.channels EXCEPT ![c] = d]]
<1>1. k \in Knx /\ k.channels \in [KnxChannels -> KnxChannel]
  BY DEF KnxInv, Knx
<1>2. n \in Knx /\ n.channels = [k.channels EXCEPT ![c] = d]
  BY <1>1 DEF Knx
<1> HIDE DEF n
<1>3. \A b \in KnxChannels : n.channels[b] = IF b = c THEN d ELSE k.channels[b]
  BY <1>1, <1>2
<1>4. KnxInv(n)
  BY <1>2, <1>3 DEF KnxInv
<1> QED BY <1>4 DEF n

\* A change of all channels.
LEMMA ChannelsReplaced ==
    ASSUME NEW n \in Knx, \A c \in KnxChannels : ChannelTold(n.channels[c], c)
    PROVE  KnxInv(n)
BY DEF KnxInv

LEMMA TransportStartTold ==
    ASSUME NEW k, KnxInv(k) PROVE KnxInv(StartTransport(k))
<1>1. k \in Knx /\ k.channels \in [KnxChannels -> KnxChannel] /\ k.faults \in SUBSET KnxFaults
  BY DEF KnxInv, Knx
<1>2. CASE ~k.online
  <2> DEFINE n == [k EXCEPT !.faults = k.faults \cup {"KnxBusOff"}]
  <2>1. StartTransport(k) = n
    BY <1>2 DEF StartTransport
  <2>2. n \in Knx /\ n.channels = k.channels
    BY <1>1 DEF Knx, KnxFaults
  <2> QED BY <2>1, <2>2 DEF KnxInv
<1>3. CASE k.online
  <2> DEFINE channels == [c \in KnxChannels |-> StartedChannel(k.channels[c], c)]
             n == [k EXCEPT !.started = TRUE, !.channels = channels,
                            !.faults = k.faults \ {"KnxUnavailable", "KnxBusOff"}]
  <2>1. StartTransport(k) = n
    BY <1>3 DEF StartTransport
  <2>2. channels \in [KnxChannels -> KnxChannel]
    BY <1>1, StartedChannelTold
  <2>3. \A c \in KnxChannels : ChannelTold(channels[c], c)
    BY <1>1, StartedChannelTold
  <2> HIDE DEF channels
  <2>4. n \in Knx /\ n.channels = channels
    BY <1>1, <2>2 DEF Knx
  <2> QED BY <2>1, <2>3, <2>4 DEF KnxInv
<1> QED BY <1>2, <1>3

LEMMA ExecutedTold ==
    ASSUME NEW k, KnxInv(k), NEW commands PROVE KnxInv(Executed(k, commands))
<1>1. k \in Knx /\ k.channels \in [KnxChannels -> KnxChannel]
  BY DEF KnxInv, Knx
<1> DEFINE channel(c) == IF \E d \in commands : d.channel = c
                         THEN Moved(k.channels[c], \E d \in commands : d.channel = c /\ d.on,
                                    k.channels[c].faulted)
                         ELSE k.channels[c]
           channels == [c \in KnxChannels |-> channel(c)]
<1>2. ASSUME NEW c \in KnxChannels PROVE channel(c) \in KnxChannel /\ ChannelTold(channel(c), c)
  <2>1. k.channels[c] \in KnxChannel /\ k.channels[c].faulted \in BOOLEAN
        /\ ChannelTold(k.channels[c], c)
    BY <1>1 DEF KnxChannel, KnxInv
  <2>2. (\E d \in commands : d.channel = c /\ d.on) \in BOOLEAN
    OBVIOUS
  <2>3. CASE \E d \in commands : d.channel = c
    BY <2>1, <2>2, <2>3, MovedChannelTold
  <2>4. CASE ~\E d \in commands : d.channel = c
    BY <2>1, <2>4
  <2> QED BY <2>3, <2>4
<1>3. Executed(k, commands) = [k EXCEPT !.channels = channels]
  BY DEF Executed
<1> HIDE DEF channel
<1>4. channels \in [KnxChannels -> KnxChannel] /\ \A c \in KnxChannels : ChannelTold(channels[c], c)
  BY <1>2
<1> HIDE DEF channels
<1>5. [k EXCEPT !.channels = channels] \in Knx /\ [k EXCEPT !.channels = channels].channels = channels
  BY <1>1, <1>4 DEF Knx
<1> QED BY <1>3, <1>4, <1>5 DEF KnxInv

LEMMA ReceivedTold ==
    ASSUME NEW k, KnxInv(k), NEW commands, NEW full PROVE KnxInv(Received(k, commands, full))
<1> DEFINE n == [k EXCEPT !.faults = k.faults \cup {"CommandQueueOverflow"}]
<1>1. n \in Knx /\ n.channels = k.channels
  BY DEF Knx, KnxInv, KnxFaults
<1> QED BY <1>1 DEF KnxInv, Received

LEMMA PublishedTold ==
    ASSUME NEW k, KnxInv(k), NEW due, NEW n \in Published(k, due) PROVE KnxInv(n)
<1>1. k \in Knx /\ k.channels \in [KnxChannels -> KnxChannel]
  BY DEF KnxInv, Knx
<1>2. ASSUME NEW c \in KnxChannels, n = PublishState(k, c) PROVE KnxInv(n)
  <2> DEFINE channel == k.channels[c]
             told == Bit(channel.on, c)
             d == [channel EXCEPT !.told = told, !.changed = FALSE, !.statusPublished = TRUE]
  <2>1. n = [k EXCEPT !.channels = [k.channels EXCEPT ![c] = d]]
    BY <1>1, <1>2 DEF PublishState, Knx
  <2>2. channel \in KnxChannel /\ told \in {"0", "1", "Nothing"}
    BY <1>1 DEF Bit
  <2> HIDE DEF told, channel
  <2>3. d \in KnxChannel /\ d.told = told /\ d.on = channel.on
    BY <2>2 DEF KnxChannel
  <2>4. ChannelTold(d, c)
    BY <2>3 DEF ChannelTold, told
  <2> HIDE DEF d
  <2> QED BY <2>1, <2>3, <2>4, ChannelReplaced
<1>3. ASSUME NEW c \in KnxChannels, n = PublishFault(k, c) PROVE KnxInv(n)
  <2> DEFINE channel == k.channels[c]
             d == [channel EXCEPT !.publishedFault = channel.faulted, !.faultPublished = TRUE]
  <2>1. n = [k EXCEPT !.channels = [k.channels EXCEPT ![c] = d]]
    BY <1>1, <1>3 DEF PublishFault, Knx
  <2>2. channel \in KnxChannel /\ ChannelTold(channel, c)
    BY <1>1 DEF KnxInv
  <2> HIDE DEF channel
  <2>3. /\ d \in KnxChannel /\ d.told = channel.told /\ d.on = channel.on
        /\ d.changed = channel.changed /\ d.statusPublished = channel.statusPublished
        /\ d.moved = channel.moved
    BY <2>2 DEF KnxChannel
  <2> HIDE DEF d
  <2>4. ChannelTold(d, c)
    BY <2>2, <2>3 DEF ChannelTold, StatusPending
  <2> QED BY <2>1, <2>3, <2>4, ChannelReplaced
<1>4. ASSUME n = PublishDeviceFault(k) PROVE KnxInv(n)
  <2>1. n = [k EXCEPT !.devicePublished = TRUE, !.publishedDevice = (k.faults # {})]
    BY <1>4 DEF PublishDeviceFault
  <2>2. n \in Knx /\ n.channels = k.channels
    BY <1>1, <2>1 DEF Knx
  <2> QED BY <2>2 DEF KnxInv
<1>5. \/ \E c \in KnxChannels : n = PublishState(k, c)
      \/ \E c \in KnxChannels : n = PublishFault(k, c)
      \/ n = PublishDeviceFault(k) \/ n = k
  <2> DEFINE states == {c \in KnxChannels : StatusPending(k.channels[c]) \/ c \in due}
             faulty == {c \in KnxChannels : FaultPending(k.channels[c], c)}
  <2>1. CASE states # {}
    <3>1. n \in {PublishState(k, c) : c \in First(states)}
      BY <2>1 DEF Published
    <3>2. First(states) \subseteq KnxChannels
      BY DEF First
    <3> HIDE DEF states
    <3> QED BY <3>1, <3>2
  <2>2. CASE states = {} /\ faulty # {}
    <3>1. n \in {PublishFault(k, c) : c \in First(faulty)}
      BY <2>2 DEF Published
    <3>2. First(faulty) \subseteq KnxChannels
      BY DEF First
    <3> HIDE DEF faulty
    <3> QED BY <3>1, <3>2
  <2>3. CASE states = {} /\ faulty = {}
    BY <2>3 DEF Published
  <2> QED BY <2>1, <2>2, <2>3
<1> QED BY <1>2, <1>3, <1>4, <1>5

LEMMA KnxStarts == KnxInit => KnxInv(knx)
BY DEF KnxInit, KnxInv, Knx, KnxChannel, ChannelTold, StatusPending

LEMMA KnxStep == ASSUME KnxInv(knx), KnxNext PROVE KnxInv(knx')
<1>0. /\ knx \in Knx /\ knx.channels \in [KnxChannels -> KnxChannel]
      /\ knx.faults \in SUBSET KnxFaults
  BY DEF KnxInv, Knx
<1>1. CASE BootKnx
  <2>1. PICK registered \in BOOLEAN, on \in [KnxChannels -> BOOLEAN] :
       \E k \in {[knx EXCEPT
            !.up = TRUE, !.initialized = registered, !.started = FALSE, !.online = FALSE,
            !.faults = {}, !.devicePublished = FALSE, !.publishedDevice = FALSE,
            !.channels = [c \in KnxChannels |->
                [on |-> on[c], changed |-> FALSE, statusPublished |-> FALSE,
                 told |-> knx.channels[c].told, moved |-> FALSE, faulted |-> FALSE,
                 faultPublished |-> FALSE, publishedFault |-> FALSE]]]} :
         knx' = IF registered THEN StartTransport(k)
                ELSE [k EXCEPT !.faults = {"KnxUnavailable"}]
    BY <1>1 DEF BootKnx
  <2> DEFINE channels == [c \in KnxChannels |->
                [on |-> on[c], changed |-> FALSE, statusPublished |-> FALSE,
                 told |-> knx.channels[c].told, moved |-> FALSE, faulted |-> FALSE,
                 faultPublished |-> FALSE, publishedFault |-> FALSE]]
             k == [knx EXCEPT
            !.up = TRUE, !.initialized = registered, !.started = FALSE, !.online = FALSE,
            !.faults = {}, !.devicePublished = FALSE, !.publishedDevice = FALSE,
            !.channels = channels]
  <2>2. knx' = IF registered THEN StartTransport(k) ELSE [k EXCEPT !.faults = {"KnxUnavailable"}]
    BY <2>1
  <2>3. /\ channels \in [KnxChannels -> KnxChannel]
        /\ \A c \in KnxChannels : ChannelTold(channels[c], c)
    BY <1>0 DEF KnxChannel, ChannelTold, StatusPending
  <2> HIDE DEF channels
  <2>4. k \in Knx /\ k.channels = channels
    BY <1>0, <2>3 DEF Knx
  <2> HIDE DEF k
  <2>5. KnxInv(k)
    BY <2>3, <2>4 DEF KnxInv
  <2>6. /\ [k EXCEPT !.faults = {"KnxUnavailable"}] \in Knx
        /\ [k EXCEPT !.faults = {"KnxUnavailable"}].channels = k.channels
    BY <2>4 DEF Knx, KnxFaults
  <2>7. KnxInv([k EXCEPT !.faults = {"KnxUnavailable"}])
    BY <2>5, <2>6 DEF KnxInv
  <2>8. KnxInv(StartTransport(k))
    BY <2>5, TransportStartTold
  <2>9. CASE registered = TRUE
    <3>1. knx' = StartTransport(k)
      BY ONLY <2>2, <2>9
    <3> QED BY ONLY <2>8, <3>1
  <2>10. CASE registered = FALSE
    <3>1. knx' = [k EXCEPT !.faults = {"KnxUnavailable"}]
      BY ONLY <2>2, <2>10
    <3> QED BY ONLY <2>7, <3>1
  <2> QED BY <2>9, <2>10
<1>2. CASE PollKnx
  <2>1. CASE /\ ~knx.online
             /\ knx' = [knx EXCEPT !.started = FALSE,
                          !.faults = IF knx.started THEN @ \cup {"KnxBusOff"} ELSE @]
    <3>1. knx' \in Knx /\ knx'.channels = knx.channels
      <4> DEFINE faults == IF knx.started THEN knx.faults \cup {"KnxBusOff"} ELSE knx.faults
      <4>1. faults \in SUBSET KnxFaults /\ knx' = [knx EXCEPT !.started = FALSE, !.faults = faults]
        BY <1>0, <2>1 DEF KnxFaults, Knx
      <4> HIDE DEF faults
      <4> QED BY <1>0, <4>1 DEF Knx
    <3> QED BY <3>1 DEF KnxInv
  <2>2. CASE knx.online
    <3>1. PICK commands \in Telegrams, due \in SUBSET KnxChannels, full \in BOOLEAN :
             \E k \in {Received(IF knx.started THEN knx ELSE StartTransport(knx), commands, full)} :
             \E published \in {k} \cup Published(k, due),
                run \in IF full THEN {{}} ELSE SUBSET commands :
                knx' = Executed(published, run)
      BY <1>2, <2>2 DEF PollKnx
    <3> DEFINE k == Received(IF knx.started THEN knx ELSE StartTransport(knx), commands, full)
    <3>2. PICK published \in {k} \cup Published(k, due) :
            \E run \in IF full THEN {{}} ELSE SUBSET commands : knx' = Executed(published, run)
      BY <3>1
    <3>3. PICK run : knx' = Executed(published, run)
      BY <3>2
    <3>4. KnxInv(k)
      BY TransportStartTold, ReceivedTold
    <3> HIDE DEF k
    <3>5. KnxInv(published)
      BY <3>2, <3>4, PublishedTold
    <3> QED BY <3>3, <3>5, ExecutedTold
  <2> QED BY <1>2, <2>1, <2>2 DEF PollKnx
<1>3. ASSUME NEW c \in KnxChannels, MoveRelay(c) PROVE KnxInv(knx')
  <2>1. PICK on \in BOOLEAN, faulted \in BOOLEAN :
          knx' = [knx EXCEPT !.channels[c] = Moved(knx.channels[c], on, faulted)]
    BY <1>3 DEF MoveRelay
  <2> DEFINE d == Moved(knx.channels[c], on, faulted)
  <2>2. d \in KnxChannel /\ ChannelTold(d, c)
    BY <1>0, MovedChannelTold DEF KnxInv
  <2>3. knx' = [knx EXCEPT !.channels = [knx.channels EXCEPT ![c] = d]]
    BY <1>0, <2>1 DEF Knx
  <2> HIDE DEF d
  <2> QED BY <2>2, <2>3, ChannelReplaced
<1>4. CASE ChangeLink \/ StopKnx
  <2>1. knx' \in Knx /\ knx'.channels = knx.channels
    BY <1>0, <1>4 DEF ChangeLink, StopKnx, Knx
  <2> QED BY <2>1 DEF KnxInv
<1> QED BY <1>1, <1>2, <1>3, <1>4 DEF KnxNext

\* Steps that leave the transport and its faults alone.
LEMMA LinkKept ==
    ASSUME NEW k, NEW n, LinkShown(k), n.started = k.started, n.faults = k.faults
    PROVE  LinkShown(n)
BY DEF LinkShown

LEMMA StartShown ==
    ASSUME NEW k \in Knx, k.online \/ ~k.started
    PROVE  LinkShown(StartTransport(k))
<1>1. k.faults \in SUBSET KnxFaults
  BY DEF Knx
<1>2. CASE ~k.online
  <2> DEFINE n == [k EXCEPT !.faults = k.faults \cup {"KnxBusOff"}]
  <2>1. StartTransport(k) = n
    BY <1>2 DEF StartTransport
  <2>2. n.started = k.started /\ n.faults = k.faults \cup {"KnxBusOff"}
    BY DEF Knx
  <2>3. n.faults \cap LinkFaults # {} /\ ~n.started
    BY <1>2, <2>2 DEF LinkFaults
  <2> HIDE DEF n
  <2> QED BY <2>1, <2>3 DEF LinkShown
<1>3. CASE k.online
  <2> DEFINE channels == [c \in KnxChannels |-> StartedChannel(k.channels[c], c)]
             n == [k EXCEPT !.started = TRUE, !.channels = channels,
                            !.faults = k.faults \ {"KnxUnavailable", "KnxBusOff"}]
  <2>1. StartTransport(k) = n
    BY <1>3 DEF StartTransport
  <2> HIDE DEF channels
  <2>2. n.started = TRUE /\ n.faults = k.faults \ {"KnxUnavailable", "KnxBusOff"}
    BY DEF Knx
  <2> HIDE DEF n
  <2>3. n.faults \cap LinkFaults = {}
    BY <2>2 DEF LinkFaults
  <2> QED BY <2>1, <2>2, <2>3 DEF LinkShown
<1> QED BY <1>2, <1>3

LEMMA ReceivedShown ==
    ASSUME NEW k \in Knx, LinkShown(k), NEW commands, NEW full
    PROVE  LinkShown(Received(k, commands, full))
<1> DEFINE n == [k EXCEPT !.faults = k.faults \cup {"CommandQueueOverflow"}]
<1>1. n.started = k.started /\ n.faults = k.faults \cup {"CommandQueueOverflow"}
  BY DEF Knx
<1>2. n.faults \cap LinkFaults = k.faults \cap LinkFaults
  BY <1>1 DEF LinkFaults
<1>3. Received(k, commands, full) = n \/ Received(k, commands, full) = k
  BY DEF Received
<1> HIDE DEF n
<1>4. LinkShown(n)
  BY <1>1, <1>2 DEF LinkShown
<1> QED BY <1>3, <1>4

LEMMA PublishedShown ==
    ASSUME NEW k \in Knx, LinkShown(k), NEW due, NEW n \in Published(k, due)
    PROVE  LinkShown(n)
<1>1. n.started = k.started /\ n.faults = k.faults
  <2>1. \A c : PublishState(k, c).started = k.started /\ PublishState(k, c).faults = k.faults
    BY DEF PublishState, Knx
  <2>2. \A c : PublishFault(k, c).started = k.started /\ PublishFault(k, c).faults = k.faults
    BY DEF PublishFault, Knx
  <2>3. PublishDeviceFault(k).started = k.started /\ PublishDeviceFault(k).faults = k.faults
    BY DEF PublishDeviceFault, Knx
  <2>4. (\E c : n = PublishState(k, c) \/ n = PublishFault(k, c)) \/ n = PublishDeviceFault(k) \/ n = k
    BY DEF Published
  <2> QED BY <2>1, <2>2, <2>3, <2>4
<1> QED BY <1>1, LinkKept

LEMMA LinkStep ==
    ASSUME KnxInv(knx), knx.up => LinkShown(knx), KnxNext
    PROVE  knx'.up => LinkShown(knx')
<1>0. knx \in Knx /\ knx.faults \in SUBSET KnxFaults /\ knx.channels \in [KnxChannels -> KnxChannel]
  BY DEF KnxInv, Knx
<1>1. CASE BootKnx
  <2> DEFINE channels(on) == [c \in KnxChannels |->
                [on |-> on[c], changed |-> FALSE, statusPublished |-> FALSE,
                 told |-> knx.channels[c].told, moved |-> FALSE, faulted |-> FALSE,
                 faultPublished |-> FALSE, publishedFault |-> FALSE]]
             k(registered, on) == [knx EXCEPT
            !.up = TRUE, !.initialized = registered, !.started = FALSE, !.online = FALSE,
            !.faults = {}, !.devicePublished = FALSE, !.publishedDevice = FALSE,
            !.channels = channels(on)]
  <2>1. PICK registered \in BOOLEAN, on \in [KnxChannels -> BOOLEAN] :
          knx' = IF registered THEN StartTransport(k(registered, on))
                 ELSE [k(registered, on) EXCEPT !.faults = {"KnxUnavailable"}]
    BY <1>1 DEF BootKnx
  <2>2. channels(on) \in [KnxChannels -> KnxChannel]
    BY <1>0 DEF KnxChannel
  <2> HIDE DEF channels
  <2>3. k(registered, on) \in Knx /\ ~k(registered, on).started
    BY <1>0, <2>2 DEF Knx
  <2> HIDE DEF k
  <2> DEFINE n == [k(registered, on) EXCEPT !.faults = {"KnxUnavailable"}]
  <2>4. n.started = k(registered, on).started /\ n.faults = {"KnxUnavailable"}
    BY <2>3 DEF Knx
  <2> HIDE DEF n
  <2>5. LinkShown(StartTransport(k(registered, on)))
    BY <2>3, StartShown
  <2>6. n.faults \cap LinkFaults # {} /\ ~n.started
    BY <2>3, <2>4 DEF LinkFaults
  <2>7. LinkShown(n)
    BY <2>6 DEF LinkShown
  <2>8. knx' = StartTransport(k(registered, on)) \/ knx' = n
    BY <2>1 DEF n
  <2> QED BY <2>5, <2>7, <2>8
<1>2. CASE PollKnx
  <2>0. LinkShown(knx)
    BY <1>2 DEF PollKnx
  <2>1. CASE /\ ~knx.online
             /\ knx' = [knx EXCEPT !.started = FALSE,
                          !.faults = IF knx.started THEN @ \cup {"KnxBusOff"} ELSE @]
    <3>1. CASE knx.started
      <4>1. knx'.started = FALSE /\ knx'.faults = knx.faults \cup {"KnxBusOff"}
        BY <1>0, <2>1, <3>1 DEF Knx
      <4> QED BY <4>1 DEF LinkShown, LinkFaults
    <3>2. CASE ~knx.started
      <4>1. knx'.started = FALSE /\ knx'.faults = knx.faults
        BY <1>0, <2>1, <3>2 DEF Knx
      <4> QED BY <2>0, <3>2, <4>1 DEF LinkShown
    <3> QED BY <3>1, <3>2
  <2>2. CASE knx.online
    <3>1. PICK commands \in Telegrams, due \in SUBSET KnxChannels, full \in BOOLEAN :
             \E k \in {Received(IF knx.started THEN knx ELSE StartTransport(knx), commands, full)} :
             \E published \in {k} \cup Published(k, due),
                run \in IF full THEN {{}} ELSE SUBSET commands :
                knx' = Executed(published, run)
      BY <1>2, <2>2 DEF PollKnx
    <3> DEFINE j == IF knx.started THEN knx ELSE StartTransport(knx)
               k == Received(j, commands, full)
    <3>2. PICK published \in {k} \cup Published(k, due) :
            \E run \in IF full THEN {{}} ELSE SUBSET commands : knx' = Executed(published, run)
      BY <3>1
    <3>3. PICK run : knx' = Executed(published, run)
      BY <3>2
    <3>4. KnxInv(j) /\ LinkShown(j)
      BY <1>0, <2>0, <2>2, StartShown, TransportStartTold
    <3> HIDE DEF j
    <3>5. KnxInv(k) /\ LinkShown(k)
      BY <3>4, ReceivedTold, ReceivedShown DEF KnxInv
    <3> HIDE DEF k
    <3>6. published \in Knx /\ LinkShown(published)
      BY <3>2, <3>5, PublishedTold, PublishedShown DEF KnxInv
    <3>7. knx'.started = published.started /\ knx'.faults = published.faults
      BY <3>3, <3>6 DEF Executed, Knx
    <3> QED BY <3>6, <3>7, LinkKept
  <2> QED BY <1>2, <2>1, <2>2 DEF PollKnx
<1>3. ASSUME NEW c \in KnxChannels, MoveRelay(c) PROVE knx'.up => LinkShown(knx')
  <2>1. LinkShown(knx) /\ knx'.started = knx.started /\ knx'.faults = knx.faults
    BY <1>0, <1>3 DEF MoveRelay, Knx
  <2> QED BY <2>1, LinkKept
<1>4. CASE ChangeLink \/ StopKnx
  <2>1. LinkShown(knx) /\ knx'.started = knx.started /\ knx'.faults = knx.faults
    BY <1>0, <1>4 DEF ChangeLink, StopKnx, Knx
  <2> QED BY <2>1, LinkKept
<1> QED BY <1>1, <1>2, <1>3, <1>4 DEF KnxNext

LEMMA KnxHasTold == KnxInv(knx) /\ (knx.up => LinkShown(knx)) => KnxToldState
BY DEF KnxInv, KnxToldState, ChannelTold, LinkShown, LinkFaults

----------------------------------------------------------------------------
(* The network: turns. *)

\* The distance of a profile from the next one on the circle of profiles.
LEMMA DistanceIs ==
    ASSUME NEW n, n.next \in Profiles, NEW i \in Profiles
    PROVE  /\ Distance(n, i) = IF i >= n.next THEN i - n.next ELSE i + ProfileCount - n.next
           /\ Distance(n, i) \in 0 .. ProfileCount - 1
<1> DEFINE p == n.next
<1>0. ProfileCount \in Nat \ {0} /\ p \in 0 .. ProfileCount - 1 /\ i \in 0 .. ProfileCount - 1
  BY NetworkAssumption DEF Profiles
<1>1. Distance(n, i) = (i + ProfileCount - p) % ProfileCount
  BY DEF Distance
<1> HIDE DEF p
<1>2. CASE i >= p
  <2>1. i + ProfileCount - p = 1 * ProfileCount + (i - p) /\ i - p \in 0 .. ProfileCount - 1
    BY <1>0, <1>2
  <2>2. Distance(n, i) = i - p
    BY <1>0, <1>1, <2>1
  <2> QED BY <1>0, <1>2, <2>1, <2>2 DEF p
<1>3. CASE i < p
  <2>1. i + ProfileCount - p \in 0 .. ProfileCount - 1
    BY <1>0, <1>3
  <2>2. Distance(n, i) = i + ProfileCount - p
    BY <1>0, <1>1, <2>1
  <2> QED BY <1>0, <1>3, <2>1, <2>2 DEF p
<1> QED BY <1>0, <1>2, <1>3

LEMMA SuccessorIs ==
    ASSUME NEW i \in Profiles
    PROVE  /\ (i + 1) % ProfileCount = IF i + 1 = ProfileCount THEN 0 ELSE i + 1
           /\ (i + 1) % ProfileCount \in Profiles
<1>0. ProfileCount \in Nat \ {0} /\ i \in 0 .. ProfileCount - 1
  BY NetworkAssumption DEF Profiles
<1>1. CASE i + 1 = ProfileCount
  BY <1>0, <1>1 DEF Profiles
<1>2. CASE i + 1 # ProfileCount
  BY <1>0, <1>2 DEF Profiles
<1> QED BY <1>1, <1>2

\* Some profile is the first in turn.
LEMMA FirstInTurnIs ==
    ASSUME NEW n, n.next \in Profiles, n.config.profiles \in SUBSET Profiles,
           n.config.profiles # {}
    PROVE  /\ FirstInTurn(n) \in n.config.profiles
           /\ \A j \in n.config.profiles : Distance(n, FirstInTurn(n)) <= Distance(n, j)
<1> DEFINE S == n.config.profiles
           nearer(i) == {j \in S : Distance(n, j) < Distance(n, i)}
           T == {nearer(i) : i \in S}
<1>1. IsFiniteSet(S)
  <2>1. IsFiniteSet(0 .. ProfileCount - 1)
    BY FS_Interval, NetworkAssumption
  <2> QED BY <2>1, FS_Subset DEF Profiles
<1>2. T \subseteq SUBSET S /\ T # {} /\ FiniteSubsetsOf(S) = SUBSET S
  <2>1. T \subseteq SUBSET S
    OBVIOUS
  <2>2. PICK i \in S : TRUE
    OBVIOUS
  <2>3. nearer(i) \in T
    OBVIOUS
  <2>4. FiniteSubsetsOf(S) = SUBSET S
    <3> HIDE DEF S
    <3> QED BY <1>1, FS_FiniteSubsetsOfFinite
  <2> QED BY <2>1, <2>3, <2>4
<1>3. IsWellFoundedOn(StrictSubsetOrdering(S), SUBSET S)
  BY <1>2, FS_StrictSubsetOrderingWellFounded
<1>4. PICK least \in T : \A other \in T : <<other, least>> \notin StrictSubsetOrdering(S)
  <2> HIDE DEF T
  <2> QED BY <1>2, <1>3, WFMin
<1>5. PICK i \in S : least = nearer(i)
  BY <1>4
<1>6. \A j \in S : Distance(n, j) \in Nat
  BY DistanceIs, NetworkAssumption
<1>7. ASSUME NEW j \in S PROVE Distance(n, i) <= Distance(n, j)
  <2> SUFFICES ASSUME Distance(n, j) < Distance(n, i) PROVE FALSE
    BY <1>6
  <2>1. j \in nearer(i) /\ j \notin nearer(j) /\ nearer(j) \subseteq nearer(i)
    BY <1>6
  <2>2. nearer(j) \in T /\ nearer(j) \subseteq S /\ nearer(i) \subseteq S
    OBVIOUS
  <2> HIDE DEF nearer, T
  <2>3. nearer(j) # nearer(i)
    BY <2>1
  <2>4. <<nearer(j), nearer(i)>> \in StrictSubsetOrdering(S)
    BY <2>1, <2>2, <2>3 DEF StrictSubsetOrdering
  <2> QED BY <1>4, <1>5, <2>2, <2>4
<1>8. \E k \in S : \A j \in S : Distance(n, k) <= Distance(n, j)
  BY <1>7
<1> HIDE DEF T, nearer
<1> QED BY <1>8 DEF FirstInTurn

\* A profile was passed over no more often than the rotation has had profiles to try
\* before it comes to this one.
InTurn(n) ==
    \A j \in Profiles : n.passed[j] = 0 \/ n.passed[j] + Distance(n, j) < ProfileCount

\* After a try of the first in turn, the others are nearer than before.
LEMMA TurnGoesOn ==
    ASSUME NEW n, n.next \in Profiles, NEW i \in Profiles, NEW j \in Profiles, j # i,
           Distance(n, i) <= Distance(n, j),
           NEW m, m.next = (i + 1) % ProfileCount
    PROVE  Distance(m, j) < Distance(n, j)
<1>0. /\ ProfileCount \in Nat \ {0} /\ i \in 0 .. ProfileCount - 1 /\ j \in 0 .. ProfileCount - 1
      /\ n.next \in 0 .. ProfileCount - 1 /\ m.next \in 0 .. ProfileCount - 1 /\ m.next \in Profiles
  BY NetworkAssumption, SuccessorIs DEF Profiles
<1>1. m.next = IF i + 1 = ProfileCount THEN 0 ELSE i + 1
  BY SuccessorIs
<1>2. /\ Distance(n, i) = IF i >= n.next THEN i - n.next ELSE i + ProfileCount - n.next
      /\ Distance(n, j) = IF j >= n.next THEN j - n.next ELSE j + ProfileCount - n.next
  BY DistanceIs
<1>3. Distance(m, j) = IF j >= m.next THEN j - m.next ELSE j + ProfileCount - m.next
  BY <1>0, DistanceIs
<1>4. i < j \/ j < i
  BY <1>0
<1> QED BY <1>0, <1>1, <1>2, <1>3, <1>4

----------------------------------------------------------------------------
(* The network: the time without a try is bounded by the age of the attempt, or by *)
(* what is left until the retry of the recovery access point.                      *)

\* What holds in the midst of an update: time has passed, the retry may be due.
WaitInv(n) ==
    /\ Resting(n) => n.idle = 0
    /\ n.idle <= n.age \/ n.age = AttemptTimeout
    /\ n.state = "RecoveryAp" =>
          /\ n.retry
          /\ n.idle + n.retryIn <= MaxRetryDelay \/ n.retryIn = 0
    /\ n.state = "OnlineWifi" => n.online
    /\ n.state \in {"OnlineWifi", "Disabled"} => ~n.apActive

\* And between the updates.
NetInv(n) ==
    /\ n \in Network /\ InTurn(n) /\ WaitInv(n)
    /\ n.state = "RecoveryAp" => n.idle + n.retryIn <= MaxRetryDelay
    /\ n.idle <= RetryBound

LEMMA NetworkFields ==
    ASSUME NEW n \in Network
    PROVE  /\ n.up \in BOOLEAN /\ n.online \in BOOLEAN /\ n.apActive \in BOOLEAN
           /\ n.begun \in BOOLEAN /\ n.retry \in BOOLEAN
           /\ n.config \in NetworkConfig
           /\ n.state \in {"Disabled", "ConnectingWifi", "OnlineWifi", "RecoveryAp"}
           /\ n.next \in Profiles
           /\ n.apAge \in 0 .. ApTimeout /\ n.age \in 0 .. AttemptTimeout
           /\ n.retryIn \in 0 .. MaxRetryDelay /\ n.retryDelay \in 1 .. MaxRetryDelay
           /\ n.scan \in {"Idle", "Scanning", "Complete", "Failed"}
           /\ n.idle \in 0 .. RetryBound + 1 /\ n.passed \in [Profiles -> 0 .. ProfileCount]
           /\ n.config.enabled \in BOOLEAN /\ n.config.profiles \in SUBSET Profiles
           /\ n.config.ap \in {"Off", "Stays", "TimesOut"}
  BY DEF Network, NetworkConfig

LEMMA RetryBoundIs ==
    /\ RetryBound \in Nat \ {0} /\ RetryBound >= AttemptTimeout /\ RetryBound >= MaxRetryDelay
    /\ ProfileCount \in Nat \ {0} /\ AttemptTimeout \in Nat \ {0}
    /\ MaxRetryDelay \in Nat \ {0} /\ ApTimeout \in Nat \ {0} /\ 0 \in Profiles
  BY NetworkAssumption DEF RetryBound, Profiles

\* What a try makes of the network.
LEMMA TriedEffect ==
    ASSUME NEW n \in Network, NEW i \in Profiles
    PROVE  /\ Tried(n, i) \in Network
           /\ Tried(n, i).state = "ConnectingWifi" /\ Tried(n, i).idle = 0
           /\ Tried(n, i).next = n.next /\ Tried(n, i).age = 0
           /\ Tried(n, i).config = n.config
           /\ \A j \in Profiles :
                 \/ Tried(n, i).passed[j] = 0
                 \/ /\ j # i
                    /\ Tried(n, i).passed[j] = IF n.passed[j] < ProfileCount THEN n.passed[j] + 1
                                               ELSE ProfileCount
<1> DEFINE passed == [j \in Profiles |->
                  IF j = i \/ j \notin n.config.profiles THEN 0
                  ELSE IF n.passed[j] < ProfileCount THEN n.passed[j] + 1 ELSE ProfileCount]
<1>1. passed \in [Profiles -> 0 .. ProfileCount]
  <2>1. \A j \in Profiles : n.passed[j] \in 0 .. ProfileCount
    BY NetworkFields
  <2> QED BY <2>1, RetryBoundIs
<1>2. \A j \in Profiles : \/ passed[j] = 0
                          \/ /\ j # i
                             /\ passed[j] = IF n.passed[j] < ProfileCount THEN n.passed[j] + 1
                                            ELSE ProfileCount
  OBVIOUS
<1>3. Tried(n, i) = [n EXCEPT !.begun = TRUE, !.age = 0, !.state = "ConnectingWifi", !.idle = 0,
                              !.passed = passed]
  BY DEF Tried
<1> HIDE DEF passed
<1>4. 0 \in 0 .. AttemptTimeout /\ 0 \in 0 .. RetryBound + 1
  BY RetryBoundIs
<1>5. Tried(n, i) \in Network
  BY <1>1, <1>3, <1>4 DEF Network
<1>6. /\ Tried(n, i).state = "ConnectingWifi" /\ Tried(n, i).idle = 0
      /\ Tried(n, i).next = n.next /\ Tried(n, i).age = 0
      /\ Tried(n, i).config = n.config /\ Tried(n, i).passed = passed
  BY <1>3 DEF Network
<1> QED BY <1>2, <1>5, <1>6

\* Without a profile to try, the recovery access point waits for the retry.
LEMMA ApStartedKeepsInv ==
    ASSUME NEW n \in Network, InTurn(n), n.idle = 0, NEW m \in RecoveryApStarted(n)
    PROVE  NetInv(m)
<1>1. /\ m \in Network /\ m.idle = 0 /\ m.retryIn <= MaxRetryDelay /\ m.retryIn \in Nat
      /\ m.retry /\ m.state \in {"ConnectingWifi", "RecoveryAp"} /\ m.next = n.next
      /\ m.passed = n.passed /\ m.age = n.age
  <2> DEFINE scheduled == [n EXCEPT !.retry = TRUE, !.retryIn = n.retryDelay]
  <2>1. n.retryDelay \in 0 .. MaxRetryDelay /\ 0 \in 0 .. ApTimeout
    BY NetworkFields, RetryBoundIs
  <2>2. \/ m = [scheduled EXCEPT !.state = "ConnectingWifi"]
        \/ m = [scheduled EXCEPT !.state = "RecoveryAp"]
        \/ \E opened \in BOOLEAN :
              m = [scheduled EXCEPT !.state = "RecoveryAp", !.apActive = opened, !.apAge = 0]
    BY DEF RecoveryApStarted
  <2>3. /\ scheduled \in Network /\ scheduled.idle = n.idle /\ scheduled.next = n.next
        /\ scheduled.retryIn = n.retryDelay /\ scheduled.passed = n.passed
        /\ scheduled.age = n.age /\ scheduled.retry = TRUE
    BY <2>1 DEF Network
  <2> HIDE DEF scheduled
  <2>4. /\ m \in Network /\ m.state \in {"ConnectingWifi", "RecoveryAp"}
        /\ m.idle = scheduled.idle /\ m.next = scheduled.next
        /\ m.retryIn = scheduled.retryIn /\ m.passed = scheduled.passed
        /\ m.age = scheduled.age /\ m.retry = scheduled.retry
    <3>1. CASE m = [scheduled EXCEPT !.state = "ConnectingWifi"]
      BY <2>3, <3>1 DEF Network
    <3>2. CASE m = [scheduled EXCEPT !.state = "RecoveryAp"]
      BY <2>3, <3>2 DEF Network
    <3>3. ASSUME NEW opened \in BOOLEAN,
                 m = [scheduled EXCEPT !.state = "RecoveryAp", !.apActive = opened, !.apAge = 0]
          PROVE  /\ m \in Network /\ m.state \in {"ConnectingWifi", "RecoveryAp"}
                 /\ m.idle = scheduled.idle /\ m.next = scheduled.next
                 /\ m.retryIn = scheduled.retryIn /\ m.passed = scheduled.passed
                 /\ m.age = scheduled.age /\ m.retry = scheduled.retry
      <4>1. m \in Network
        <5> DEFINE v == [scheduled EXCEPT !.state = "RecoveryAp"]
                   w == [v EXCEPT !.apAge = 0]
        <5>1. v \in Network
          BY <2>3 DEF Network
        <5>2. m = [w EXCEPT !.apActive = opened]
          BY <2>3, <3>3 DEF Network
        <5> HIDE DEF v
        <5>3. w \in Network
          BY <2>1, <5>1 DEF Network
        <5> HIDE DEF w
        <5> QED BY <5>2, <5>3 DEF Network
      <4> QED BY <2>3, <3>3, <4>1 DEF Network
    <3> QED BY <2>2, <3>1, <3>2, <3>3
  <2> QED BY <2>1, <2>3, <2>4, RetryBoundIs
<1>2. InTurn(m)
  BY <1>1 DEF InTurn, Distance
<1>3. m.age \in Nat /\ m.idle \in Nat
  BY <1>1, NetworkFields
<1>4. m.idle <= m.age /\ m.idle + m.retryIn <= MaxRetryDelay /\ m.idle <= RetryBound
  BY <1>1, <1>3, RetryBoundIs
<1> QED BY <1>1, <1>2, <1>4 DEF NetInv, WaitInv

\* Going on in the rotation.
LEMMA BeginKeepsInv ==
    ASSUME NEW n \in Network, InTurn(n), n.config.profiles = {} => n.idle = 0,
           NEW m \in BeginNextProfile(n)
    PROVE  NetInv(m)
<1>1. CASE n.config.profiles = {}
  BY <1>1, ApStartedKeepsInv DEF BeginNextProfile
<1>2. CASE n.config.profiles # {}
  <2> DEFINE i == FirstInTurn(n)
             t == Tried(n, i)
             k == (i + 1) % ProfileCount
  <2>1. n.next \in Profiles /\ n.config.profiles \in SUBSET Profiles
    BY NetworkFields
  <2>2. i \in Profiles /\ \A j \in n.config.profiles : Distance(n, i) <= Distance(n, j)
    BY <1>2, <2>1, FirstInTurnIs
  <2>3. m = [t EXCEPT !.next = k]
    BY <1>2 DEF BeginNextProfile
  <2>4. k \in Profiles
    BY <2>2, SuccessorIs
  <2>5. /\ t \in Network /\ t.state = "ConnectingWifi" /\ t.idle = 0 /\ t.age = 0
        /\ \A j \in Profiles :
                 \/ t.passed[j] = 0
                 \/ /\ j # i
                    /\ t.passed[j] = IF n.passed[j] < ProfileCount THEN n.passed[j] + 1
                                     ELSE ProfileCount
    <3> HIDE DEF i
    <3> QED BY <2>2, TriedEffect
  <2>6. \A j \in Profiles : j \in n.config.profiles \/ t.passed[j] = 0
    <3> HIDE DEF i
    <3> QED BY DEF Tried, Network
  <2> HIDE DEF t
  <2>7. /\ m \in Network /\ m.next = k /\ m.state = "ConnectingWifi"
        /\ m.idle = 0 /\ m.age = 0 /\ m.passed = t.passed
    BY <2>3, <2>4, <2>5 DEF Network
  <2>8. ASSUME NEW j \in Profiles, t.passed[j] # 0
        PROVE  t.passed[j] + Distance(m, j) < ProfileCount
    <3>1. /\ j # i /\ j \in n.config.profiles
          /\ t.passed[j] = IF n.passed[j] < ProfileCount THEN n.passed[j] + 1 ELSE ProfileCount
      BY <2>5, <2>6, <2>8
    <3>2. Distance(m, j) < Distance(n, j)
      <4> HIDE DEF i
      <4> QED BY <2>1, <2>2, <2>7, <3>1, TurnGoesOn
    <3>3. Distance(m, j) \in 0 .. ProfileCount - 1 /\ Distance(n, j) \in 0 .. ProfileCount - 1
      BY <2>1, <2>4, <2>7, DistanceIs
    <3>4. n.passed[j] \in 0 .. ProfileCount
      BY NetworkFields
    <3>5. n.passed[j] = 0 \/ n.passed[j] + Distance(n, j) < ProfileCount
      BY DEF InTurn
    <3> HIDE DEF i
    <3> QED BY <3>1, <3>2, <3>3, <3>4, <3>5, RetryBoundIs
  <2>9. InTurn(m)
    BY <2>7, <2>8 DEF InTurn
  <2>10. m.idle <= m.age /\ m.idle <= RetryBound
    BY <2>7, RetryBoundIs
  <2> QED BY <2>7, <2>9, <2>10 DEF NetInv, WaitInv
<1> QED BY <1>1, <1>2

----------------------------------------------------------------------------
(* An update of the network. *)

\* Time passes; a retry that is due is left to the update.
LEMMA AgedKeepsWait ==
    ASSUME NEW n, NetInv(n), NEW elapsed \in {0, 1}
    PROVE  LET a == Aged(n, elapsed)
           IN  a \in Network /\ InTurn(a) /\ WaitInv(a) /\ a.config = n.config
<1> DEFINE a == Aged(n, elapsed)
           age == Upto(n.age + elapsed, AttemptTimeout)
           apAge == Upto(n.apAge + elapsed, ApTimeout)
           retryIn == IF n.retryIn >= elapsed THEN n.retryIn - elapsed ELSE 0
           idle == IF Resting(n) THEN 0 ELSE Upto(n.idle + elapsed, RetryBound + 1)
<1>1. n \in Network /\ InTurn(n) /\ WaitInv(n) /\ (Resting(n) => n.idle = 0)
      /\ (n.state = "RecoveryAp" => n.idle + n.retryIn <= MaxRetryDelay)
  BY DEF NetInv, WaitInv
<1>2. /\ n.age \in 0 .. AttemptTimeout /\ n.apAge \in 0 .. ApTimeout
      /\ n.retryIn \in 0 .. MaxRetryDelay /\ n.idle \in 0 .. RetryBound + 1
  BY <1>1, NetworkFields
<1>3. age \in 0 .. AttemptTimeout /\ apAge \in 0 .. ApTimeout
  BY <1>2, RetryBoundIs DEF Upto
<1>4. retryIn \in 0 .. MaxRetryDelay /\ idle \in 0 .. RetryBound + 1
  BY <1>2, RetryBoundIs DEF Upto
<1>5. idle <= age \/ age = AttemptTimeout
  <2>1. n.idle <= n.age \/ n.age = AttemptTimeout
    BY <1>1 DEF WaitInv
  <2> QED BY <1>2, <2>1, RetryBoundIs DEF Upto
<1>6. n.state = "RecoveryAp" => idle + retryIn <= MaxRetryDelay \/ retryIn = 0
  BY <1>1, <1>2, RetryBoundIs DEF Upto
<1>7. a = [n EXCEPT !.age = age, !.apAge = apAge, !.retryIn = retryIn, !.idle = idle]
  BY <1>1 DEF Aged, Network
<1>8. Resting(n) => idle = 0
  OBVIOUS
<1> HIDE DEF a, age, apAge, retryIn, idle
<1>9. a \in Network
  BY <1>1, <1>3, <1>4, <1>7 DEF Network
<1>10. /\ a.age = age /\ a.retryIn = retryIn /\ a.idle = idle
       /\ a.config = n.config /\ a.state = n.state /\ a.online = n.online
       /\ a.retry = n.retry /\ a.apActive = n.apActive /\ a.next = n.next
       /\ a.passed = n.passed
  BY <1>1, <1>7 DEF Network
<1>11. Resting(a) <=> Resting(n)
  BY <1>10 DEF Resting
<1>12. InTurn(a)
  BY <1>1, <1>10 DEF InTurn, Distance
<1>13. WaitInv(a)
  BY <1>1, <1>5, <1>6, <1>8, <1>10, <1>11 DEF WaitInv
<1> QED BY <1>9, <1>10, <1>12, <1>13 DEF a

\* The scan is not looked at by the rest.
LEMMA ScannedKeepsWait ==
    ASSUME NEW n \in Network, InTurn(n), WaitInv(n), NEW m \in Scanned(n)
    PROVE  m \in Network /\ InTurn(m) /\ WaitInv(m) /\ m.config = n.config
<1>1. CASE m = n
  BY <1>1
<1>2. ASSUME NEW scan \in {"Scanning", "Complete", "Failed"}, m = [n EXCEPT !.scan = scan]
      PROVE  m \in Network /\ InTurn(m) /\ WaitInv(m) /\ m.config = n.config
  <2>1. m \in Network
    BY <1>2 DEF Network
  <2>2. /\ m.age = n.age /\ m.retryIn = n.retryIn /\ m.idle = n.idle
        /\ m.config = n.config /\ m.state = n.state /\ m.online = n.online
        /\ m.retry = n.retry /\ m.apActive = n.apActive /\ m.next = n.next
        /\ m.passed = n.passed
    BY <1>2 DEF Network
  <2>3. Resting(m) <=> Resting(n)
    BY <2>2 DEF Resting
  <2> QED BY <2>1, <2>2, <2>3 DEF WaitInv, InTurn, Distance
<1> QED BY <1>1, <1>2 DEF Scanned

LEMMA DoubledIs ==
    ASSUME NEW d \in 1 .. MaxRetryDelay PROVE Doubled(d) \in 1 .. MaxRetryDelay
<1>1. d < MaxRetryDelay \div 2 => d * 2 <= MaxRetryDelay
  BY RetryBoundIs
<1> QED BY <1>1, RetryBoundIs DEF Doubled

LEMMA ConnectionLostKeepsWait ==
    ASSUME NEW n \in Network, InTurn(n), WaitInv(n)
    PROVE  LET l == ConnectionLost(n)
           IN  l \in Network /\ InTurn(l) /\ WaitInv(l) /\ l.state # "OnlineWifi"
<1> DEFINE l == ConnectionLost(n)
<1>1. n.retryDelay \in 0 .. MaxRetryDelay /\ Doubled(n.retryDelay) \in 1 .. MaxRetryDelay
  BY NetworkFields, DoubledIs, RetryBoundIs
<1>2. n.idle = 0 \/ ~n.online
  BY DEF WaitInv, Resting
<1>3. CASE n.state = "OnlineWifi"
  <2> DEFINE doubled == Doubled(n.retryDelay)
  <2>1. l = [n EXCEPT !.online = FALSE, !.state = "ConnectingWifi", !.retry = TRUE,
                      !.retryIn = n.retryDelay, !.retryDelay = doubled]
    BY <1>3 DEF ConnectionLost, Network
  <2>2. doubled \in 1 .. MaxRetryDelay
    BY <1>1
  <2> HIDE DEF l, doubled
  <2>3. l \in Network
    BY <1>1, <2>1, <2>2 DEF Network
  <2>4. /\ l.state = "ConnectingWifi" /\ l.idle = n.idle /\ l.age = n.age
        /\ l.next = n.next /\ l.passed = n.passed
    BY <2>1 DEF Network
  <2>5. n.idle = 0
    BY <1>2, <1>3 DEF WaitInv
  <2>6. WaitInv(l)
    BY <2>4, <2>5 DEF WaitInv
  <2>7. InTurn(l)
    BY <2>4 DEF InTurn, Distance
  <2> QED BY <2>3, <2>4, <2>6, <2>7 DEF l
<1>4. CASE n.state # "OnlineWifi"
  <2>1. l = [n EXCEPT !.online = FALSE]
    BY <1>4 DEF ConnectionLost
  <2> HIDE DEF l
  <2>2. l \in Network
    BY <2>1 DEF Network
  <2>3. /\ l.age = n.age /\ l.retryIn = n.retryIn /\ l.idle = n.idle
        /\ l.config = n.config /\ l.state = n.state
        /\ l.retry = n.retry /\ l.apActive = n.apActive /\ l.next = n.next
        /\ l.passed = n.passed
    BY <2>1 DEF Network
  <2>4. l.online = FALSE
    BY <2>1 DEF Network
  <2>5. Resting(l) => Resting(n)
    BY <2>3, <2>4 DEF Resting
  <2>6. WaitInv(l)
    BY <1>4, <2>3, <2>5 DEF WaitInv
  <2>7. InTurn(l)
    BY <2>3 DEF InTurn, Distance
  <2> QED BY <1>4, <2>2, <2>3, <2>6, <2>7 DEF l
<1> QED BY <1>3, <1>4

\* An attempt that took too long is followed by the next: after this, only a due retry
\* may be late.
LEMMA AttemptKeepsWait ==
    ASSUME NEW n \in Network, InTurn(n), WaitInv(n), n.state # "OnlineWifi",
           NEW m \in AttemptTimedOut(n)
    PROVE  m \in Network /\ InTurn(m) /\ WaitInv(m)
           /\ ((m.state = "RecoveryAp" /\ m.retryIn = 0) \/ NetInv(m))
<1>1. CASE n.state = "ConnectingWifi" /\ n.age >= AttemptTimeout
  <2>1. m \in BeginNextProfile(n) /\ (n.config.profiles = {} => n.idle = 0)
    BY <1>1 DEF AttemptTimedOut, WaitInv, Resting
  <2>2. NetInv(m)
    BY <2>1, BeginKeepsInv
  <2> QED BY <2>2 DEF NetInv
<1>2. CASE ~(n.state = "ConnectingWifi" /\ n.age >= AttemptTimeout)
  <2>1. m = n
    BY <1>2 DEF AttemptTimedOut
  <2>2. /\ n.age \in 0 .. AttemptTimeout /\ n.retryIn \in 0 .. MaxRetryDelay
        /\ n.idle \in 0 .. RetryBound + 1
        /\ n.state \in {"Disabled", "ConnectingWifi", "RecoveryAp"}
    BY NetworkFields
  <2>3. CASE n.state = "ConnectingWifi"
    <3>1. n.idle <= RetryBound
      BY <1>2, <2>2, <2>3, RetryBoundIs DEF WaitInv
    <3> QED BY <2>1, <2>3, <3>1 DEF NetInv
  <2>4. CASE n.state = "Disabled"
    <3>1. n.idle = 0
      BY <2>4 DEF WaitInv, Resting
    <3> QED BY <2>1, <2>4, <3>1, RetryBoundIs DEF NetInv
  <2>5. CASE n.state = "RecoveryAp" /\ n.retryIn # 0
    <3>1. n.idle + n.retryIn <= MaxRetryDelay
      BY <2>5 DEF WaitInv
    <3>2. n.idle <= RetryBound
      BY <2>2, <3>1, RetryBoundIs
    <3> QED BY <2>1, <2>5, <3>1, <3>2 DEF NetInv
  <2>6. CASE n.state = "RecoveryAp" /\ n.retryIn = 0
    BY <2>1, <2>6
  <2> QED BY <2>2, <2>3, <2>4, <2>5, <2>6
<1> QED BY <1>1, <1>2

LEMMA RetryKeepsInv ==
    ASSUME NEW n \in Network, InTurn(n), WaitInv(n),
           (n.state = "RecoveryAp" /\ n.retryIn = 0) \/ NetInv(n),
           NEW m \in RetryDue(n)
    PROVE  NetInv(m)
<1>1. CASE n.state = "RecoveryAp" /\ n.retry /\ n.retryIn = 0
  <2> DEFINE r == [n EXCEPT !.retry = FALSE]
  <2>1. m \in BeginNextProfile(r)
    BY <1>1 DEF RetryDue
  <2>2. /\ r \in Network /\ r.next = n.next /\ r.passed = n.passed
        /\ r.idle = n.idle /\ r.config = n.config
    BY DEF Network
  <2>3. n.config.profiles = {} => n.idle = 0
    BY DEF WaitInv, Resting
  <2> HIDE DEF r
  <2>4. InTurn(r)
    BY <2>2 DEF InTurn, Distance
  <2> QED BY <2>1, <2>2, <2>3, <2>4, BeginKeepsInv
<1>2. CASE ~(n.state = "RecoveryAp" /\ n.retry /\ n.retryIn = 0)
  <2>1. m = n
    BY <1>2 DEF RetryDue
  <2>2. n.state = "RecoveryAp" => n.retry
    BY DEF WaitInv
  <2> QED BY <1>2, <2>1, <2>2
<1> QED BY <1>1, <1>2

LEMMA ApStoppedKeepsInv ==
    ASSUME NEW n, NetInv(n) PROVE NetInv(ApTimedOut(n))
<1> DEFINE m == ApTimedOut(n)
<1>1. CASE m = n
  BY <1>1
<1>2. CASE m = [RecoveryApStopped(n) EXCEPT !.state = "ConnectingWifi"] /\ n.apActive
  <2>1. n \in Network
    BY DEF NetInv
  <2>2. m = [n EXCEPT !.apActive = FALSE, !.state = "ConnectingWifi"]
    BY <1>2, <2>1 DEF RecoveryApStopped, Network
  <2> HIDE DEF m
  <2>3. m \in Network
    BY <2>1, <2>2 DEF Network
  <2>4. /\ m.age = n.age /\ m.idle = n.idle
        /\ m.config = n.config /\ m.state = "ConnectingWifi" /\ m.next = n.next
        /\ m.passed = n.passed
    BY <2>1, <2>2 DEF Network
  <2>5. m.online = n.online
    BY <2>1, <2>2 DEF Network
  <2>6. Resting(m) => Resting(n)
    BY <2>4, <2>5 DEF Resting
  <2>7. InTurn(m)
    BY <2>4 DEF InTurn, Distance, NetInv
  <2> QED BY <2>3, <2>4, <2>6, <2>7 DEF NetInv, WaitInv, m
<1> QED BY <1>1, <1>2 DEF ApTimedOut

LEMMA OfflineKeepsInv ==
    ASSUME NEW n \in Network, InTurn(n), WaitInv(n), NEW m \in Offline(n)
    PROVE  NetInv(m)
<1> DEFINE l == ConnectionLost(n)
<1>1. PICK k \in UNION {RetryDue(j) : j \in AttemptTimedOut(l)} : m = ApTimedOut(k)
  BY DEF Offline
<1>2. PICK j \in AttemptTimedOut(l) : k \in RetryDue(j)
  BY <1>1
<1>3. l \in Network /\ InTurn(l) /\ WaitInv(l) /\ l.state # "OnlineWifi"
  BY ConnectionLostKeepsWait
<1> HIDE DEF l
<1>4. j \in Network /\ InTurn(j) /\ WaitInv(j)
      /\ ((j.state = "RecoveryAp" /\ j.retryIn = 0) \/ NetInv(j))
  BY <1>2, <1>3, AttemptKeepsWait
<1>5. NetInv(k)
  BY <1>2, <1>4, RetryKeepsInv
<1> QED BY <1>1, <1>5, ApStoppedKeepsInv

LEMMA OnlineKeepsInv ==
    ASSUME NEW n \in Network, InTurn(n), WaitInv(n) PROVE NetInv(Online(n))
<1> DEFINE m == Online(n)
<1>0. 0 \in 0 .. RetryBound + 1 /\ 1 \in 1 .. MaxRetryDelay
  BY RetryBoundIs
<1>1. CASE n.state = "OnlineWifi"
  <2>1. m = [n EXCEPT !.online = TRUE, !.idle = 0]
    BY <1>1 DEF Online
  <2> HIDE DEF m
  <2>2. m \in Network
    BY <1>0, <2>1 DEF Network
  <2>3. /\ m.age = n.age /\ m.idle = 0 /\ m.state = "OnlineWifi" /\ m.next = n.next
        /\ m.passed = n.passed
    BY <1>1, <2>1 DEF Network
  <2>4. m.online /\ (m.apActive <=> n.apActive)
    BY <2>1 DEF Network
  <2>5. InTurn(m)
    BY <2>3 DEF InTurn, Distance
  <2>6. m.idle <= m.age /\ m.idle <= RetryBound
    BY <2>2, <2>3, NetworkFields, RetryBoundIs
  <2>7. ~m.apActive
    BY <1>1, <2>4 DEF WaitInv
  <2> QED BY <2>2, <2>3, <2>4, <2>5, <2>6, <2>7 DEF NetInv, WaitInv, m
<1>2. CASE n.state # "OnlineWifi"
  <2>1. m = [n EXCEPT !.apActive = FALSE, !.online = TRUE, !.idle = 0, !.retry = FALSE,
                      !.retryDelay = 1, !.state = "OnlineWifi"]
    BY <1>2 DEF Online, RecoveryApStopped, Network
  <2> HIDE DEF m
  <2>2. m \in Network
    BY <1>0, <2>1 DEF Network
  <2>3. /\ m.age = n.age /\ m.idle = 0 /\ m.state = "OnlineWifi" /\ m.next = n.next
        /\ m.passed = n.passed
    BY <2>1 DEF Network
  <2>4. m.online /\ ~m.apActive
    BY <2>1 DEF Network
  <2>5. InTurn(m)
    BY <2>3 DEF InTurn, Distance
  <2>6. m.idle <= m.age /\ m.idle <= RetryBound
    BY <2>2, <2>3, NetworkFields, RetryBoundIs
  <2> QED BY <2>2, <2>3, <2>4, <2>5, <2>6 DEF NetInv, WaitInv, m
<1> QED BY <1>1, <1>2

LEMMA UpdateStep ==
    ASSUME NetInv(network), NEW elapsed \in {0, 1}, UpdateNetwork(elapsed)
    PROVE  NetInv(network')
<1> DEFINE a == Aged(network, elapsed)
<1>1. PICK n \in Scanned(a) :
         IF ~n.config.enabled
         THEN network' = [RecoveryApStopped(n) EXCEPT !.state = "Disabled"]
         ELSE \/ n.begun /\ network' = Online(n)
              \/ network' \in Offline(n)
  BY DEF UpdateNetwork
<1>2. a \in Network /\ InTurn(a) /\ WaitInv(a)
  BY AgedKeepsWait
<1> HIDE DEF a
<1>3. n \in Network /\ InTurn(n) /\ WaitInv(n)
  BY <1>2, ScannedKeepsWait
<1>4. CASE ~n.config.enabled
  <2> DEFINE m == [RecoveryApStopped(n) EXCEPT !.state = "Disabled"]
  <2>1. m = [n EXCEPT !.apActive = FALSE, !.state = "Disabled"]
    BY <1>3 DEF RecoveryApStopped, Network
  <2>2. network' = m
    BY <1>1, <1>4
  <2> HIDE DEF m
  <2>3. m \in Network
    BY <1>3, <2>1 DEF Network
  <2>4. /\ m.age = n.age /\ m.idle = n.idle /\ m.state = "Disabled" /\ m.next = n.next
        /\ m.passed = n.passed
    BY <1>3, <2>1 DEF Network
  <2>5. ~m.apActive
    BY <1>3, <2>1 DEF Network
  <2>6. InTurn(m)
    BY <1>3, <2>4 DEF InTurn, Distance
  <2>7. m.idle = 0
    BY <1>3, <1>4, <2>4 DEF WaitInv, Resting
  <2>8. m.idle <= m.age /\ m.idle <= RetryBound
    BY <2>3, <2>7, NetworkFields, RetryBoundIs
  <2>9. NetInv(m)
    BY <2>3, <2>4, <2>5, <2>6, <2>7, <2>8 DEF NetInv, WaitInv
  <2> QED BY <2>2, <2>9
<1>5. CASE n.config.enabled
  <2>1. CASE network' = Online(n)
    BY <1>3, <2>1, OnlineKeepsInv
  <2>2. CASE network' \in Offline(n)
    BY <1>3, <2>2, OfflineKeepsInv
  <2> QED BY <1>1, <1>5, <2>1, <2>2
<1> QED BY <1>4, <1>5

----------------------------------------------------------------------------
(* The requests of an operator. *)

LEMMA RestartedIs ==
    ASSUME NEW n \in Network
    PROVE  /\ Restarted(n) \in Network /\ InTurn(Restarted(n))
           /\ Resting(Restarted(n)) => Restarted(n).idle = 0
           /\ Restarted(n).config = n.config
<1> DEFINE m == Restarted(n)
           none == [j \in Profiles |-> 0]
           idle == IF Resting(n) THEN 0 ELSE n.idle
<1>1. m = [n EXCEPT !.passed = none, !.idle = idle]
  BY DEF Restarted, Network
<1>2. none \in [Profiles -> 0 .. ProfileCount] /\ idle \in 0 .. RetryBound + 1
  BY NetworkFields, RetryBoundIs
<1>3. (Resting(n) => idle = 0) /\ \A j \in Profiles : none[j] = 0
  OBVIOUS
<1> HIDE DEF m, none, idle
<1>4. m \in Network
  BY <1>1, <1>2 DEF Network
<1>5. m.passed = none /\ m.idle = idle /\ m.state = n.state /\ m.config = n.config
  BY <1>1 DEF Network
<1>6. m.online = n.online
  BY <1>1 DEF Network
<1>7. Resting(m) <=> Resting(n)
  BY <1>5, <1>6 DEF Resting
<1>8. InTurn(m)
  BY <1>3, <1>5 DEF InTurn
<1> QED BY <1>3, <1>4, <1>5, <1>7, <1>8 DEF m

\* A saved profile is enabled or not, and the others stay what they are.
LEMMA SavedIs ==
    ASSUME NEW c \in NetworkConfig, NEW i \in Profiles, NEW on \in BOOLEAN
    PROVE  ProfilesSaved(c, i, on) \in NetworkConfig
<1> DEFINE p == IF on THEN c.profiles \cup {i} ELSE c.profiles \ {i}
<1>1. ProfilesSaved(c, i, on) = [c EXCEPT !.profiles = p]
  BY DEF ProfilesSaved, NetworkConfig
<1>2. p \in SUBSET Profiles
  BY DEF NetworkConfig
<1> HIDE DEF p
<1> QED BY <1>1, <1>2 DEF NetworkConfig

\* A configuration request leaves the profiles in their places.
LEMMA ManagedIs ==
    ASSUME NEW c \in NetworkConfig, NEW d \in ManagedConfigs(c)
    PROVE  d \in NetworkConfig
<1>0. c.profiles \in SUBSET Profiles
  BY DEF NetworkConfig
<1>1. ASSUME NEW i \in Profiles, NEW on \in BOOLEAN, d = ProfilesSaved(c, i, on)
      PROVE  d \in NetworkConfig
  BY <1>1, SavedIs
<1>2. ASSUME NEW i \in Profiles, d = ProfilesWithout(c, i)
      PROVE  d \in NetworkConfig
  <2> DEFINE p == {j \in c.profiles : j < i} \cup {j - 1 : j \in {k \in c.profiles : k > i}}
  <2>1. d = [c EXCEPT !.profiles = p]
    BY <1>2 DEF ProfilesWithout, NetworkConfig
  <2>2. ASSUME NEW j \in Profiles, j > i PROVE j - 1 \in Profiles
    BY <2>2, RetryBoundIs DEF Profiles
  <2>3. p \in SUBSET Profiles
    BY <1>0, <2>2
  <2> HIDE DEF p
  <2> QED BY <2>1, <2>3 DEF NetworkConfig
<1>3. ASSUME NEW from \in Profiles, NEW to \in Profiles, d = ProfilesMoved(c, from, to)
      PROVE  d \in NetworkConfig
  <2> DEFINE p == {PlaceAfterMove(j, from, to) : j \in c.profiles}
  <2>1. d = [c EXCEPT !.profiles = p]
    BY <1>3 DEF ProfilesMoved, NetworkConfig
  <2>2. ASSUME NEW j \in Profiles PROVE PlaceAfterMove(j, from, to) \in Profiles
    BY RetryBoundIs DEF Profiles, PlaceAfterMove
  <2>3. p \in SUBSET Profiles
    BY <1>0, <2>2
  <2> HIDE DEF p
  <2> QED BY <2>1, <2>3 DEF NetworkConfig
<1>4. ASSUME NEW ap \in {"Off", "Stays", "TimesOut"}, d = [c EXCEPT !.ap = ap]
      PROVE  d \in NetworkConfig
  BY <1>4 DEF NetworkConfig
<1> QED BY <1>1, <1>2, <1>3, <1>4 DEF ManagedConfigs

LEMMA StoppedIs ==
    ASSUME NEW n \in Network
    PROVE  /\ RecoveryApStopped(n) \in Network
           /\ RecoveryApStopped(n).config = n.config
           /\ RecoveryApStopped(n).next = n.next
  BY DEF RecoveryApStopped, Network

LEMMA ManageWifiStep == ASSUME NetInv(network), ManageWifi PROVE NetInv(network')
<1>1. network \in Network
  BY DEF NetInv
<1>2. PICK config \in ManagedConfigs(network.config) :
         network' \in BeginNextProfile(Restarted(
            [RecoveryApStopped(network) EXCEPT !.config = config, !.next = 0]))
  BY DEF ManageWifi
<1> DEFINE s == RecoveryApStopped(network)
           n == [s EXCEPT !.config = config, !.next = 0]
<1>3. config \in NetworkConfig
  BY <1>1, ManagedIs, NetworkFields
<1>4. s \in Network
  BY <1>1, StoppedIs
<1> HIDE DEF s
<1>5. n \in Network
  BY <1>3, <1>4, RetryBoundIs DEF Network
<1>6. network' \in BeginNextProfile(Restarted(n))
  BY <1>2 DEF s
<1> HIDE DEF n
<1>7. /\ Restarted(n) \in Network /\ InTurn(Restarted(n))
      /\ Restarted(n).config.profiles = {} => Restarted(n).idle = 0
  BY <1>5, RestartedIs DEF Resting
<1> QED BY <1>6, <1>7, BeginKeepsInv

LEMMA ConnectedKeepsInv ==
    ASSUME NEW n \in Network, NEW i \in Profiles PROVE NetInv(Connected(n, i))
<1> DEFINE s == RecoveryApStopped(n)
           t == Tried(s, i)
           none == [j \in Profiles |-> 0]
           m == Connected(n, i)
<1>1. m = [t EXCEPT !.next = i, !.passed = none]
  BY DEF Connected
<1>2. s \in Network
  BY StoppedIs
<1> HIDE DEF s, m
<1>3. t \in Network /\ t.state = "ConnectingWifi" /\ t.idle = 0 /\ t.age = 0
  BY <1>2, TriedEffect
<1>4. none \in [Profiles -> 0 .. ProfileCount] /\ \A j \in Profiles : none[j] = 0
  BY RetryBoundIs
<1> HIDE DEF t, none
<1>5. m \in Network
  BY <1>1, <1>3, <1>4 DEF Network
<1>6. m.state = "ConnectingWifi" /\ m.idle = 0 /\ m.age = 0 /\ m.passed = none
  BY <1>1, <1>3 DEF Network
<1>7. InTurn(m)
  BY <1>4, <1>6 DEF InTurn
<1>8. m.idle <= m.age /\ m.idle <= RetryBound
  BY <1>6, RetryBoundIs
<1> QED BY <1>5, <1>6, <1>7, <1>8 DEF NetInv, WaitInv, m

LEMMA ProvisionStep ==
    ASSUME NetInv(network), NEW i \in Profiles, ProvisionWifiProfile(i)
    PROVE  NetInv(network')
<1>1. network \in Network
  BY DEF NetInv
<1> DEFINE config == ProfilesSaved(network.config, i, TRUE)
           n == [network EXCEPT !.config = config]
<1>2. config \in NetworkConfig
  BY <1>1, SavedIs, NetworkFields
<1>3. network' = Connected(n, i)
  BY <1>1 DEF ProvisionWifiProfile, Network
<1> HIDE DEF config
<1>4. n \in Network
  BY <1>1, <1>2 DEF Network
<1> HIDE DEF n
<1> QED BY <1>3, <1>4, ConnectedKeepsInv

LEMMA LoadNetworkStep == ASSUME NetInv(network), LoadNetwork PROVE NetInv(network')
<1>1. PICK config \in NetworkConfig :
         network' = [network EXCEPT
            !.config = config,
            !.idle = IF Resting([network EXCEPT !.config = config]) THEN 0 ELSE @,
            !.passed = [j \in Profiles |-> IF j \in config.profiles \cap network.config.profiles
                                           THEN network.passed[j] ELSE 0]]
  BY DEF LoadNetwork
<1> DEFINE c == [network EXCEPT !.config = config]
           passed == [j \in Profiles |-> IF j \in config.profiles \cap network.config.profiles
                                         THEN network.passed[j] ELSE 0]
           idle == IF Resting(c) THEN 0 ELSE network.idle
           m == network'
<1>2. network \in Network /\ InTurn(network) /\ WaitInv(network)
      /\ (network.state = "RecoveryAp" => network.idle + network.retryIn <= MaxRetryDelay)
      /\ network.idle <= RetryBound
  BY DEF NetInv
<1>3. m = [network EXCEPT !.config = config, !.idle = idle, !.passed = passed]
  BY <1>1, <1>2 DEF Network
<1>4. /\ network.idle \in 0 .. RetryBound + 1 /\ network.age \in 0 .. AttemptTimeout
      /\ network.retryIn \in 0 .. MaxRetryDelay
      /\ \A j \in Profiles : network.passed[j] \in 0 .. ProfileCount
  BY <1>2, NetworkFields
<1>5. /\ passed \in [Profiles -> 0 .. ProfileCount]
      /\ \A j \in Profiles : passed[j] = 0 \/ passed[j] = network.passed[j]
  BY <1>4, RetryBoundIs
<1>6. idle \in 0 .. RetryBound + 1 /\ (Resting(c) => idle = 0) /\ idle <= network.idle
  BY <1>4, RetryBoundIs
<1>7. c.config = config /\ c.state = network.state /\ c.online = network.online
  BY <1>2 DEF Network
<1> HIDE DEF c, passed, idle, m
<1>8. m \in Network
  BY <1>2, <1>3, <1>5, <1>6 DEF Network
<1>9. /\ m.config = config /\ m.idle = idle /\ m.passed = passed /\ m.age = network.age
      /\ m.retryIn = network.retryIn /\ m.state = network.state /\ m.next = network.next
  BY <1>2, <1>3 DEF Network
<1>10. m.online = network.online /\ m.retry = network.retry /\ m.apActive = network.apActive
  BY <1>2, <1>3 DEF Network
<1>11. Resting(m) => idle = 0
  BY <1>6, <1>7, <1>9, <1>10 DEF Resting
<1>12. m.idle <= m.age \/ m.age = AttemptTimeout
  <2>1. network.idle <= network.age \/ network.age = AttemptTimeout
    BY <1>2 DEF WaitInv
  <2> QED BY <1>4, <1>6, <1>9, <2>1
<1>13. m.state = "RecoveryAp" => m.retry /\ m.idle + m.retryIn <= MaxRetryDelay
  <2>1. network.state = "RecoveryAp" => network.retry
    BY <1>2 DEF WaitInv
  <2>2. network.state = "RecoveryAp" => idle + network.retryIn <= MaxRetryDelay
    BY <1>2, <1>4, <1>6, RetryBoundIs
  <2> QED BY <1>9, <1>10, <2>1, <2>2
<1>14. m.idle <= RetryBound
  BY <1>2, <1>4, <1>6, <1>9, RetryBoundIs
<1>15. InTurn(m)
  <2>1. \A j \in Profiles : Distance(m, j) = Distance(network, j)
    BY <1>9 DEF Distance
  <2> QED BY <1>2, <1>5, <1>9, <2>1 DEF InTurn
<1>16. WaitInv(m)
  <2>1. /\ m.state = "OnlineWifi" => m.online
        /\ m.state \in {"OnlineWifi", "Disabled"} => ~m.apActive
    BY <1>2, <1>9, <1>10 DEF WaitInv
  <2> QED BY <1>9, <1>11, <1>12, <1>13, <2>1 DEF WaitInv
<1> QED BY <1>8, <1>13, <1>14, <1>15, <1>16 DEF NetInv, m

LEMMA StartScanStep == ASSUME NetInv(network), StartScan PROVE NetInv(network')
<1>1. PICK scan \in {"Scanning", "Failed"} : network' = [network EXCEPT !.scan = scan]
  BY DEF StartScan
<1> DEFINE m == network'
<1>2. network \in Network
  BY DEF NetInv
<1>3. m \in Network
  BY <1>1, <1>2 DEF Network
<1>4. /\ m.config = network.config /\ m.idle = network.idle /\ m.passed = network.passed
      /\ m.age = network.age /\ m.retryIn = network.retryIn /\ m.state = network.state
      /\ m.next = network.next
  BY <1>1, <1>2 DEF Network
<1>5. m.online = network.online /\ m.retry = network.retry /\ m.apActive = network.apActive
  BY <1>1, <1>2 DEF Network
<1> HIDE DEF m
<1>6. Resting(m) <=> Resting(network)
  BY <1>4, <1>5 DEF Resting
<1>7. InTurn(m)
  BY <1>4 DEF NetInv, InTurn, Distance
<1> QED BY <1>3, <1>4, <1>5, <1>6, <1>7 DEF NetInv, WaitInv, m

----------------------------------------------------------------------------
(* Starting and stopping. *)

LEMMA OffKeepsInv ==
    ASSUME NEW config \in NetworkConfig PROVE NetInv(NetworkOff(config))
<1> DEFINE m == NetworkOff(config)
           none == [j \in Profiles |-> 0]
<1>1. none \in [Profiles -> 0 .. ProfileCount] /\ \A j \in Profiles : none[j] = 0
  BY RetryBoundIs
<1>2. m = [up |-> FALSE, config |-> config, state |-> "Disabled",
           online |-> FALSE, apActive |-> FALSE, apAge |-> 0, begun |-> FALSE,
           next |-> 0, age |-> 0, retry |-> FALSE, retryIn |-> 0, retryDelay |-> 1,
           scan |-> "Idle", idle |-> 0, passed |-> none]
  BY DEF NetworkOff
<1> HIDE DEF none
<1>3. m \in Network
  BY <1>1, <1>2, RetryBoundIs DEF Network
<1>4. /\ m.idle = 0 /\ m.age = 0 /\ m.state = "Disabled" /\ m.apActive = FALSE
      /\ m.passed = none
  BY <1>2
<1> HIDE DEF m
<1>5. InTurn(m)
  BY <1>1, <1>4 DEF InTurn
<1>6. m.idle <= m.age /\ m.idle <= RetryBound
  BY <1>4, RetryBoundIs
<1> QED BY <1>3, <1>4, <1>5, <1>6 DEF NetInv, WaitInv, m

LEMMA BootNetworkStep == ASSUME NetInv(network), BootNetwork PROVE NetInv(network')
<1> DEFINE b == [network EXCEPT !.up = TRUE]
           n == Restarted(b)
<1>0. network \in Network /\ WaitInv(network)
      /\ (network.state = "RecoveryAp" => network.idle + network.retryIn <= MaxRetryDelay)
      /\ network.idle <= RetryBound
  BY DEF NetInv
<1>1. network' \in IF n.config.enabled THEN BeginNextProfile(n) ELSE {n}
  BY DEF BootNetwork
<1>2. b \in Network
  BY <1>0 DEF Network
<1>3. /\ b.config = network.config /\ b.idle = network.idle
      /\ b.age = network.age /\ b.retryIn = network.retryIn /\ b.state = network.state
  BY <1>0 DEF Network
<1>4. b.online = network.online /\ b.retry = network.retry /\ b.apActive = network.apActive
  BY <1>0 DEF Network
<1> HIDE DEF b
<1>5. /\ n \in Network /\ InTurn(n) /\ (Resting(n) => n.idle = 0) /\ n.config = b.config
  BY <1>2, RestartedIs
<1>6. /\ n.age = b.age /\ n.retryIn = b.retryIn /\ n.state = b.state
  BY <1>2 DEF Restarted, Network
<1>7. n.online = b.online /\ n.retry = b.retry /\ n.apActive = b.apActive
  BY <1>2 DEF Restarted, Network
<1> HIDE DEF n
<1>8. CASE n.config.enabled
  <2>1. n.config.profiles = {} => n.idle = 0
    BY <1>5 DEF Resting
  <2> QED BY <1>1, <1>5, <1>8, <2>1, BeginKeepsInv
<1>9. CASE ~n.config.enabled
  <2>1. network' = n /\ n.idle = 0
    BY <1>1, <1>5, <1>9 DEF Resting
  <2>2. n.age \in Nat /\ n.retryIn \in 0 .. MaxRetryDelay
    BY <1>5, NetworkFields
  <2>3. n.idle <= n.age /\ n.idle <= RetryBound /\ n.idle + n.retryIn <= MaxRetryDelay
    BY <2>1, <2>2, RetryBoundIs
  <2>4. /\ n.state = "RecoveryAp" => n.retry
        /\ n.state = "OnlineWifi" => n.online
        /\ n.state \in {"OnlineWifi", "Disabled"} => ~n.apActive
    BY <1>0, <1>3, <1>4, <1>6, <1>7 DEF WaitInv
  <2>5. NetInv(n)
    BY <1>5, <2>1, <2>3, <2>4 DEF NetInv, WaitInv
  <2> QED BY <2>1, <2>5
<1> QED BY <1>8, <1>9

LEMMA NetworkStep == ASSUME NetInv(network), NetworkNext PROVE NetInv(network')
<1>0. network \in Network /\ network.config \in NetworkConfig /\ 0 \in Profiles
  BY NetworkFields, RetryBoundIs DEF NetInv
<1>1. CASE BootNetwork
  BY <1>1, BootNetworkStep
<1>2. CASE StopNetwork
  BY <1>0, <1>2, OffKeepsInv DEF StopNetwork
<1>3. CASE ManageWifi
  BY <1>3, ManageWifiStep
<1>4. CASE LoadNetwork
  BY <1>4, LoadNetworkStep
<1>5. CASE StartScan
  BY <1>5, StartScanStep
<1>6. CASE \E elapsed \in {0, 1} : UpdateNetwork(elapsed)
  BY <1>6, UpdateStep
<1>7. CASE HandleSetWifi \/ IngestProvisioning
  BY <1>0, <1>7, ProvisionStep DEF HandleSetWifi, IngestProvisioning
<1>8. CASE \E i \in Profiles : ConnectWifiProfile(i)
  <2>1. PICK i \in Profiles : network' = Connected(network, i)
    BY <1>8 DEF ConnectWifiProfile
  <2> QED BY <1>0, <2>1, ConnectedKeepsInv
<1> QED BY <1>1, <1>2, <1>3, <1>4, <1>5, <1>6, <1>7, <1>8 DEF NetworkNext

LEMMA RetryIsBounded == NetInv(network) => RetryBounded
<1> SUFFICES ASSUME NetInv(network) PROVE RetryBounded
  OBVIOUS
<1>1. /\ network \in Network /\ InTurn(network) /\ network.idle <= RetryBound
      /\ network.state \in {"OnlineWifi", "Disabled"} => ~network.apActive
  BY DEF NetInv, WaitInv
<1>2. ASSUME NEW j \in Profiles PROVE network.passed[j] < ProfileCount
  <2>1. network.next \in Profiles /\ network.passed[j] \in 0 .. ProfileCount
    BY <1>1, NetworkFields
  <2>2. Distance(network, j) \in 0 .. ProfileCount - 1
    BY <2>1, DistanceIs
  <2>3. network.passed[j] = 0 \/ network.passed[j] + Distance(network, j) < ProfileCount
    BY <1>1 DEF InTurn
  <2> QED BY <2>1, <2>2, <2>3, RetryBoundIs
<1> QED BY <1>1, <1>2 DEF RetryBounded

----------------------------------------------------------------------------
(* The services are stopped or started one by one, and share nothing. *)

ConnectionInv == ModbusInv /\ KnxInv(knx) /\ (knx.up => LinkShown(knx)) /\ NetInv(network)

\* The inductive invariant of the connections: it holds at the start, every step of the
\* services keeps it, and the properties below follow from it.
THEOREM ConnectionInvariance == Spec => []ConnectionInv
<1>1. Init => ConnectionInv
  <2> SUFFICES ASSUME Init PROVE ConnectionInv
    OBVIOUS
  <2>1. ModbusInv /\ KnxInv(knx) /\ ~knx.up
    BY ModbusStarts, KnxStarts DEF Init, KnxInit
  <2>2. PICK config \in NetworkConfig : network = NetworkOff(config)
    <3>1. [enabled |-> FALSE, profiles |-> {}, ap |-> "Off"] \in NetworkConfig
      BY DEF NetworkConfig
    <3> QED BY <3>1 DEF Init, NetworkInit
  <2>3. NetInv(network)
    BY <2>2, OffKeepsInv
  <2> QED BY <2>1, <2>3 DEF ConnectionInv
<1>2. ConnectionInv /\ [Next]_vars => ConnectionInv'
  <2> SUFFICES ASSUME ConnectionInv, [Next]_vars PROVE ConnectionInv'
    OBVIOUS
  <2>1. ModbusNext \/ modbus' = modbus
    BY DEF Next, vars
  <2>2. KnxNext \/ knx' = knx
    BY DEF Next, vars
  <2>3. NetworkNext \/ network' = network
    BY DEF Next, vars
  <2>4. ModbusInv'
    <3>1. CASE modbus' = modbus
      BY <3>1 DEF ConnectionInv, ModbusInv, ModbusOutageShown, ModbusAnswerExact
    <3> QED BY <2>1, <3>1, ModbusStep DEF ConnectionInv
  <2>5. KnxInv(knx') /\ (knx'.up => LinkShown(knx'))
    <3>1. CASE knx' = knx
      BY <3>1 DEF ConnectionInv
    <3> QED BY <2>2, <3>1, KnxStep, LinkStep DEF ConnectionInv
  <2>6. NetInv(network')
    BY <2>3, NetworkStep DEF ConnectionInv
  <2> QED BY <2>4, <2>5, <2>6 DEF ConnectionInv
<1> QED BY <1>1, <1>2, PTL DEF Spec

\* Every state of the services is of their types, for all of them at once.
THEOREM ServicesTypeCorrect == Spec => []TypeOK
<1>1. StorageInv /\ ConnectionInv => TypeOK
  BY DEF StorageInv, StreamInv, CountInv, FilesInv, ConnectionInv, ModbusInv, KnxInv, NetInv,
         TypeOK, StreamTypeOK, CountingTypeOK, FilesTypeOK, ModbusTypeOK, KnxTypeOK, NetworkTypeOK
<1> QED BY <1>1, StorageInvariance, ConnectionInvariance, PTL

\* A Modbus client is answered with what happened to its request: success only for a
\* legal one that was carried out whole, in one place of the queue and over no lockout; an
\* exception for a request that changed nothing, but for a ReadWrite whose registers to
\* be read are wrong; and the address is blamed for every illegal range but for a read of
\* more coils than there are, for every number of relays and every room of the queue (the
\* callbacks of ModbusRtuAdapter, ModbusRegisterMap, ModbusApplicationGateway::submit).
THEOREM ModbusAnswersTellWhatHappened == Spec => []ModbusAnswerExact
<1>1. ConnectionInv => ModbusAnswerExact
  BY DEF ConnectionInv, ModbusInv
<1> QED BY <1>1, ConnectionInvariance, PTL

\* A device that does not serve the bus any more has the transport fault active and is
\* not operational (Application::update, CliAdapter::handleSetModbusRole).
THEOREM ModbusOutagesAreShown == Spec => []ModbusOutageShown
<1>1. ConnectionInv => ModbusOutageShown
  BY DEF ConnectionInv, ModbusInv
<1> QED BY <1>1, ConnectionInvariance, PTL

\* A running KNX transport with nothing to publish has told the bus the state of every
\* relay, and the transport runs just while no fault of the link is active, for every set
\* of channels and of faults (KnxAdapter::poll, startTransport and publishChangedState).
THEOREM KnxIsTold == Spec => []KnxToldState
<1>1. ConnectionInv => KnxToldState
  BY KnxHasTold DEF ConnectionInv
<1> QED BY <1>1, ConnectionInvariance, PTL

\* A device that should have a network tries for one within the attempt timeout or the
\* greatest retry delay, passes no profile over twice, and closes the access point when
\* it is online, for every number of profiles and every timeout
\* (NetworkManager::update and beginNextProfile).
THEOREM EveryProfileIsTried == Spec => []RetryBounded
<1>1. ConnectionInv => RetryBounded
  BY RetryIsBounded DEF ConnectionInv
<1> QED BY <1>1, ConnectionInvariance, PTL
=============================================================================
