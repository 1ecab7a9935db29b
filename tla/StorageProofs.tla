--------------------------- MODULE StorageProofs ---------------------------
(***************************************************************************)
(* Proofs about the services that keep data, for every capacity, counter   *)
(* limit and number of sections: a client of the event stream misses no    *)
(* event unawares, reported counts are never lost, and a stored            *)
(* configuration bundle survives.                                          *)
(***************************************************************************)
EXTENDS Services, TLAPS

----------------------------------------------------------------------------
(* The event stream. *)

\* A client that the loop is sending to will go on where its message leaves it.
ClientInv(s, k) ==
    LET client == s.clients[k]
        sending == s.sending # NoClient /\ s.sending.slot = k
    IN  client # NoClient =>
          /\ client.next <= s.latest + 2
          /\ sending /\ s.sending.result = "Available" => client.next <= s.latest + 1
          /\ ~client.displaced /\ ~sending => client.next = client.due
          /\ ~client.displaced /\ sending =>
               client.due = IF s.sending.result = "Gap" THEN s.latest + 1 ELSE client.next + 1

\* A session has one authorization or one stream.
SessionsApart(s) ==
    /\ \A j, k \in ClientSlots : j # k =>
         /\ s.clients[j] # NoClient /\ s.clients[k] # NoClient =>
              s.clients[j].session # s.clients[k].session
         /\ s.pending[j] # NoClient => s.pending[j] # s.pending[k]
    /\ \A j, k \in ClientSlots :
         s.clients[j] # NoClient /\ s.pending[k] # NoClient =>
             s.clients[j].session # s.pending[k]

StreamInv ==
    /\ stream \in Stream
    /\ \A k \in ClientSlots : ClientInv(stream, k)
    /\ SessionsApart(stream)

LEMMA StreamStarts == StreamInit => StreamInv
<1> SUFFICES ASSUME StreamInit PROVE StreamInv
  OBVIOUS
<1>1. stream \in Stream
  BY EventStreamAssumption DEF StreamInit, Stream
<1> QED BY <1>1 DEF StreamInv, StreamInit, ClientInv, SessionsApart

\* An event read as available is the one that was asked for.
LEMMA ReadsExactly ==
    ASSUME NEW sequence \in Nat, stream \in Stream,
           ReadResult(stream, sequence) = "Available"
    PROVE  sequence \in 1 .. stream.latest /\ stream.events[SlotOf(sequence)] = sequence
<1>1. stream.latest \in Nat
  BY EventStreamAssumption DEF Stream
<1> QED BY <1>1 DEF ReadResult

LEMMA StreamKeepsType ==
    ASSUME stream \in Stream, \A k \in ClientSlots : ClientInv(stream, k), StreamNext
    PROVE  stream' \in Stream
<1>0. /\ stream.latest \in 0 .. MaxEvents /\ MaxEvents \in Nat /\ JournalCapacity \in Nat \ {0}
      /\ stream.events \in [0 .. JournalCapacity - 1 -> 0 .. MaxEvents]
      /\ stream.clients \in [ClientSlots -> Client \cup {NoClient}]
      /\ stream.pending \in [ClientSlots -> StreamSessions \cup {NoClient}]
      /\ stream.sending \in [slot : ClientSlots, result : {"Gap", "Available"}] \cup {NoClient}
      /\ stream = [latest |-> stream.latest, events |-> stream.events,
                   clients |-> stream.clients, pending |-> stream.pending,
                   sending |-> stream.sending]
  BY EventStreamAssumption DEF Stream
<1>1. CASE PublishEvent
  <2> DEFINE slot == SlotOf(stream.latest + 1)
  <2>1. stream' = [stream EXCEPT !.latest = stream.latest + 1,
                                 !.events = [stream.events EXCEPT ![slot] = stream.latest + 1]]
    BY <1>0, <1>1 DEF PublishEvent
  <2>2. stream.latest + 1 \in 0 .. MaxEvents
    BY <1>0, <1>1 DEF PublishEvent
  <2> HIDE DEF slot
  <2>3. [stream.events EXCEPT ![slot] = stream.latest + 1] \in [0 .. JournalCapacity - 1 -> 0 .. MaxEvents]
    BY <1>0, <2>2
  <2> QED BY <1>0, <2>1, <2>2, <2>3 DEF Stream
<1>2. ASSUME NEW session \in StreamSessions, AuthorizeStream(session) PROVE stream' \in Stream
  BY <1>0, <1>2 DEF AuthorizeStream, Stream
<1>3. ASSUME NEW p \in ClientSlots, OpenStream(p) PROVE stream' \in Stream
  <2>1. stream.pending[p] \in StreamSessions
    BY <1>0, <1>3 DEF OpenStream
  <2>2. \A displaced \in BOOLEAN :
          [session |-> stream.pending[p], next |-> stream.latest + 1,
           due |-> stream.latest + 1, displaced |-> displaced] \in Client
    BY <1>0, <2>1 DEF Client
  <2>3. \A k \in ClientSlots : SendingFrom(k) \in BOOLEAN
    BY DEF SendingFrom
  <2>4. CASE stream' = [stream EXCEPT !.pending[p] = NoClient]
    BY <1>0, <2>4 DEF Stream
  <2>5. ASSUME NEW k \in ClientSlots, NEW opened \in Client,
               stream' = [stream EXCEPT !.pending[p] = NoClient, !.clients[k] = opened]
        PROVE  stream' \in Stream
    BY <1>0, <2>5 DEF Stream
  <2> QED BY <1>3, <2>2, <2>3, <2>4, <2>5 DEF OpenStream
<1>4. ASSUME NEW k \in ClientSlots, CloseStream(k) PROVE stream' \in Stream
  BY <1>0, <1>4 DEF CloseStream, Stream
<1>5. ASSUME NEW p \in ClientSlots, ExpireAuthorization(p) PROVE stream' \in Stream
  BY <1>0, <1>5 DEF ExpireAuthorization, Stream
<1>6. ASSUME NEW k \in ClientSlots, StartSending(k) PROVE stream' \in Stream
  <2> DEFINE client == stream.clients[k]
  <2>1. client \in Client /\ client.next \in 0 .. MaxEvents + 2
    BY <1>0, <1>6 DEF StartSending, Client
  <2>2. PICK result \in {"Gap", "Available"} :
          /\ result = ReadResult(stream, client.next)
          /\ stream' = [stream EXCEPT
                !.sending = [slot |-> k, result |-> result],
                !.clients[k].due = IF result = "Gap" THEN stream.latest + 1
                                   ELSE stream.events[SlotOf(stream.clients[k].next)] + 1]
    BY <1>6 DEF StartSending, ReadResult
  <2> DEFINE due == IF result = "Gap" THEN stream.latest + 1
                    ELSE stream.events[SlotOf(client.next)] + 1
  <2>3. due \in 1 .. MaxEvents + 1
    <3>1. CASE result = "Gap"
      BY <1>0, <3>1
    <3>2. CASE result = "Available"
      <4>1. /\ client.next \in 1 .. stream.latest
            /\ stream.events[SlotOf(client.next)] = client.next
        BY <2>1, <2>2, <3>2, ReadsExactly, client.next \in Nat
      <4> QED BY <1>0, <3>2, <4>1
    <3> QED BY <3>1, <3>2
  <2>4. [client EXCEPT !.due = due] \in Client
    BY <2>1, <2>3 DEF Client
  <2>5. stream' = [stream EXCEPT !.sending = [slot |-> k, result |-> result],
                                 !.clients = [stream.clients EXCEPT ![k] = [client EXCEPT !.due = due]]]
    BY <1>0, <2>2
  <2> HIDE DEF due, client
  <2> QED BY <1>0, <2>4, <2>5 DEF Stream
<1>7. CASE EndSending
  <2> DEFINE k == stream.sending.slot
             client == stream.clients[k]
  <2>1. k \in ClientSlots /\ stream.sending.result \in {"Gap", "Available"}
    BY <1>0, <1>7 DEF EndSending
  <2>2. CASE stream' = [stream EXCEPT !.sending = NoClient]
    BY <1>0, <2>2 DEF Stream
  <2>3. CASE stream' = [stream EXCEPT !.sending = NoClient, !.clients[k] = NoClient]
    BY <1>0, <2>1, <2>3 DEF Stream
  <2>4. CASE /\ client # NoClient
             /\ stream' = [stream EXCEPT !.sending = NoClient, !.clients[k].next = ResumeAt(client)]
    <3>1. client \in Client /\ client.next \in 0 .. MaxEvents + 2
      BY <1>0, <2>1, <2>4 DEF Client
    <3>2. ClientInv(stream, k)
      BY <2>1
    <3>3. ResumeAt(client) \in 0 .. MaxEvents + 2
      BY <1>0, <1>7, <2>1, <2>4, <3>1, <3>2 DEF ResumeAt, ClientInv, EndSending
    <3>4. [client EXCEPT !.next = ResumeAt(client)] \in Client
      BY <3>1, <3>3 DEF Client
    <3>5. stream' = [stream EXCEPT !.sending = NoClient,
            !.clients = [stream.clients EXCEPT ![k] = [client EXCEPT !.next = ResumeAt(client)]]]
      BY <1>0, <2>4
    <3> HIDE DEF client, k
    <3> QED BY <1>0, <2>1, <3>4, <3>5 DEF Stream
  <2> QED BY <1>7, <2>2, <2>3, <2>4 DEF EndSending
<1> QED BY <1>1, <1>2, <1>3, <1>4, <1>5, <1>6, <1>7 DEF StreamNext, CloseIdle

LEMMA StreamStep == ASSUME StreamInv, StreamNext PROVE StreamInv'
<1>0. /\ stream \in Stream
      /\ stream.latest \in Nat /\ MaxEvents \in Nat
      /\ stream.clients \in [ClientSlots -> Client \cup {NoClient}]
      /\ stream.pending \in [ClientSlots -> StreamSessions \cup {NoClient}]
      /\ stream.sending \in [slot : ClientSlots, result : {"Gap", "Available"}] \cup {NoClient}
      /\ \A c \in Client : c.next \in Nat /\ c.due \in Nat /\ c.displaced \in BOOLEAN
      /\ \A k \in ClientSlots : ClientInv(stream, k)
      /\ SessionsApart(stream)
  BY EventStreamAssumption DEF Stream, Client, StreamInv
<1>1. stream' \in Stream
  BY StreamKeepsType DEF StreamInv
<1>2. CASE PublishEvent
  <2>1. /\ stream.sending = NoClient /\ stream'.latest = stream.latest + 1
        /\ stream'.clients = stream.clients /\ stream'.pending = stream.pending
        /\ stream'.sending = stream.sending
    BY <1>0, <1>2 DEF PublishEvent, Stream
  <2>2. ASSUME NEW k \in ClientSlots PROVE ClientInv(stream', k)
    BY <1>0, <2>1 DEF ClientInv
  <2> QED BY <1>0, <1>1, <2>1, <2>2 DEF StreamInv, SessionsApart
<1>3. ASSUME NEW session \in StreamSessions, AuthorizeStream(session) PROVE StreamInv'
  <2>1. PICK p \in ClientSlots :
          /\ stream.pending[p] = NoClient
          /\ stream' = [stream EXCEPT !.pending[p] = session]
    BY <1>3 DEF AuthorizeStream
  <2>2. /\ stream'.latest = stream.latest /\ stream'.clients = stream.clients
        /\ stream'.sending = stream.sending
        /\ stream'.pending = [stream.pending EXCEPT ![p] = session]
    BY <1>0, <2>1 DEF Stream
  <2>3. \A k \in ClientSlots : ClientInv(stream', k)
    BY <1>0, <2>2 DEF ClientInv
  <2>4. SessionsApart(stream')
    BY <1>0, <1>3, <2>2 DEF AuthorizeStream, SessionsApart
  <2> QED BY <1>1, <2>3, <2>4 DEF StreamInv
<1>4. ASSUME NEW p \in ClientSlots, stream.pending[p] # NoClient,
             stream' = [stream EXCEPT !.pending[p] = NoClient]
      PROVE  StreamInv'
  <2>2. /\ stream'.latest = stream.latest /\ stream'.clients = stream.clients
        /\ stream'.sending = stream.sending
        /\ stream'.pending = [stream.pending EXCEPT ![p] = NoClient]
    BY <1>0, <1>4 DEF Stream
  <2>3. \A k \in ClientSlots : ClientInv(stream', k)
    BY <1>0, <2>2 DEF ClientInv
  <2>4. SessionsApart(stream')
    BY <1>0, <2>2 DEF SessionsApart
  <2> QED BY <1>1, <2>3, <2>4 DEF StreamInv
<1>5. ASSUME NEW p \in ClientSlots, OpenStream(p) PROVE StreamInv'
  <2>1. CASE stream' = [stream EXCEPT !.pending[p] = NoClient]
    BY <1>4, <1>5, <2>1 DEF OpenStream
  <2>2. CASE \E k \in ClientSlots :
               /\ stream.clients[k] = NoClient
               /\ stream' = [stream EXCEPT
                    !.pending[p] = NoClient,
                    !.clients[k] = [session |-> stream.pending[p], next |-> stream.latest + 1,
                                    due |-> stream.latest + 1, displaced |-> SendingFrom(k)]]
    <3>1. PICK k \in ClientSlots :
               /\ stream.clients[k] = NoClient
               /\ stream' = [stream EXCEPT
                    !.pending[p] = NoClient,
                    !.clients[k] = [session |-> stream.pending[p], next |-> stream.latest + 1,
                                    due |-> stream.latest + 1, displaced |-> SendingFrom(k)]]
      BY <2>2
    <3> DEFINE opened == [session |-> stream.pending[p], next |-> stream.latest + 1,
                          due |-> stream.latest + 1, displaced |-> SendingFrom(k)]
    <3>2. /\ stream'.latest = stream.latest /\ stream'.sending = stream.sending
          /\ stream'.pending = [stream.pending EXCEPT ![p] = NoClient]
          /\ stream'.clients = [stream.clients EXCEPT ![k] = opened]
      BY <1>0, <3>1 DEF Stream
    <3>3. stream.pending[p] # NoClient
      BY <1>5 DEF OpenStream
    <3>4. ASSUME NEW j \in ClientSlots PROVE ClientInv(stream', j)
      <4>1. CASE j = k
        <5>1. /\ opened.next = stream.latest + 1 /\ opened.due = stream.latest + 1
              /\ opened.displaced = SendingFrom(k)
          OBVIOUS
        <5>2. SendingFrom(k) => opened.displaced
          BY Zenon, <5>1
        <5>3. SendingFrom(k) <=> stream'.sending # NoClient /\ stream'.sending.slot = k
          BY <3>2 DEF SendingFrom
        <5>4. stream'.clients[j] = opened
          BY <1>0, <3>2, <4>1
        <5> HIDE DEF opened
        <5> QED BY <1>0, <3>2, <4>1, <5>1, <5>2, <5>3, <5>4 DEF ClientInv
      <4>2. CASE j # k
        BY <1>0, <3>2, <4>2 DEF ClientInv
      <4> QED BY <4>1, <4>2
    <3>5. SessionsApart(stream')
      <4>1. opened.session = stream.pending[p]
        OBVIOUS
      <4> HIDE DEF opened
      <4> QED BY <1>0, <3>2, <3>3, <4>1 DEF SessionsApart
    <3> QED BY <1>1, <3>4, <3>5 DEF StreamInv
  <2> QED BY <1>5, <2>1, <2>2 DEF OpenStream
<1>6. ASSUME NEW k \in ClientSlots, CloseStream(k) PROVE StreamInv'
  <2>1. /\ stream'.latest = stream.latest /\ stream'.sending = stream.sending
        /\ stream'.pending = stream.pending
        /\ stream'.clients = [stream.clients EXCEPT ![k] = NoClient]
    BY <1>0, <1>6 DEF Stream, CloseStream
  <2>2. \A j \in ClientSlots : ClientInv(stream', j)
    BY <1>0, <2>1 DEF ClientInv
  <2>3. SessionsApart(stream')
    BY <1>0, <2>1 DEF SessionsApart
  <2> QED BY <1>1, <2>2, <2>3 DEF StreamInv
<1>7. ASSUME NEW k \in ClientSlots, StartSending(k) PROVE StreamInv'
  <2> DEFINE client == stream.clients[k]
  <2>1. PICK result \in {"Gap", "Available"} :
          /\ result = ReadResult(stream, client.next)
          /\ stream' = [stream EXCEPT
                !.sending = [slot |-> k, result |-> result],
                !.clients[k].due = IF result = "Gap" THEN stream.latest + 1
                                   ELSE stream.events[SlotOf(stream.clients[k].next)] + 1]
    BY <1>7 DEF StartSending, ReadResult
  <2> DEFINE due == IF result = "Gap" THEN stream.latest + 1
                    ELSE stream.events[SlotOf(client.next)] + 1
             message == [slot |-> k, result |-> result]
             told == [client EXCEPT !.due = due]
  <2>2. /\ client \in Client /\ client # NoClient /\ stream.sending = NoClient
        /\ client.next \in Nat /\ ClientInv(stream, k)
    BY <1>0, <1>7 DEF StartSending
  <2>3. result = "Available" => due = client.next + 1 /\ client.next <= stream.latest
    <3>1. result = "Available" =>
            /\ client.next \in 1 .. stream.latest
            /\ stream.events[SlotOf(client.next)] = client.next
      BY <1>0, <2>1, <2>2, ReadsExactly
    <3> QED BY <1>0, <3>1
  <2>4. result = "Gap" => due = stream.latest + 1
    OBVIOUS
  <2>5. /\ stream'.latest = stream.latest /\ stream'.pending = stream.pending
        /\ stream'.sending = message
        /\ stream'.clients = [stream.clients EXCEPT ![k] = told]
    BY <1>0, <2>1 DEF Stream
  <2>6. message # NoClient /\ message.slot = k /\ message.result = result
    BY NoClientIsNoMessage
  <2>7. /\ told.session = client.session /\ told.next = client.next /\ told.due = due
        /\ told.displaced = client.displaced
    BY <2>2 DEF Client
  <2> HIDE DEF due, message, told
  <2>8. ASSUME NEW j \in ClientSlots PROVE ClientInv(stream', j)
    <3>1. CASE j = k
      BY <1>0, <2>2, <2>3, <2>4, <2>5, <2>6, <2>7, <3>1 DEF ClientInv
    <3>2. CASE j # k
      BY <1>0, <2>2, <2>5, <2>6, <3>2 DEF ClientInv
    <3> QED BY <3>1, <3>2
  <2>9. SessionsApart(stream')
    <3>1. \A j \in ClientSlots : stream'.clients[j] # NoClient =>
            stream.clients[j] # NoClient /\ stream'.clients[j].session = stream.clients[j].session
      BY <1>0, <2>2, <2>5, <2>7
    <3> HIDE DEF client
    <3> QED BY <1>0, <2>5, <3>1 DEF SessionsApart
  <2> QED BY <1>1, <2>8, <2>9 DEF StreamInv
<1>8. CASE EndSending
  <2> DEFINE k == stream.sending.slot
             client == stream.clients[k]
  <2>1. /\ k \in ClientSlots /\ stream.sending.result \in {"Gap", "Available"}
        /\ stream.sending # NoClient /\ ClientInv(stream, k)
    BY <1>0, <1>8 DEF EndSending
  <2>2. CASE stream.clients[k] = NoClient /\ stream' = [stream EXCEPT !.sending = NoClient]
    <3>1. /\ stream'.latest = stream.latest /\ stream'.pending = stream.pending
          /\ stream'.sending = NoClient /\ stream'.clients = stream.clients
      BY <1>0, <2>2 DEF Stream
    <3>2. ASSUME NEW j \in ClientSlots PROVE ClientInv(stream', j)
      BY <1>0, <2>2, <3>1 DEF ClientInv
    <3> QED BY <1>0, <1>1, <3>1, <3>2 DEF StreamInv, SessionsApart
  <2>3. CASE stream' = [stream EXCEPT !.sending = NoClient, !.clients[k] = NoClient]
    <3>1. /\ stream'.latest = stream.latest /\ stream'.pending = stream.pending
          /\ stream'.sending = NoClient
          /\ stream'.clients = [stream.clients EXCEPT ![k] = NoClient]
      BY <1>0, <2>3 DEF Stream
    <3>2. ASSUME NEW j \in ClientSlots PROVE ClientInv(stream', j)
      BY <1>0, <2>1, <3>1 DEF ClientInv
    <3>3. SessionsApart(stream')
      BY <1>0, <2>1, <3>1 DEF SessionsApart
    <3> QED BY <1>1, <3>2, <3>3 DEF StreamInv
  <2>4. CASE /\ client # NoClient
             /\ stream' = [stream EXCEPT !.sending = NoClient, !.clients[k].next = ResumeAt(client)]
    <3> DEFINE resumed == [client EXCEPT !.next = ResumeAt(client)]
    <3>1. client \in Client /\ client.next \in Nat
      BY <1>0, <2>1, <2>4
    <3>2. /\ stream'.latest = stream.latest /\ stream'.pending = stream.pending
          /\ stream'.sending = NoClient
          /\ stream'.clients = [stream.clients EXCEPT ![k] = resumed]
      BY <1>0, <2>4 DEF Stream
    <3>3. /\ resumed.session = client.session /\ resumed.next = ResumeAt(client)
          /\ resumed.due = client.due /\ resumed.displaced = client.displaced
      BY <3>1 DEF Client
    <3>4. /\ resumed.next <= stream.latest + 2
          /\ ~client.displaced => resumed.next = client.due
      BY <1>0, <2>1, <2>4, <3>1, <3>3 DEF ClientInv, ResumeAt
    <3> HIDE DEF resumed
    <3>5. ASSUME NEW j \in ClientSlots PROVE ClientInv(stream', j)
      <4>1. CASE j = k
        BY <1>0, <2>1, <3>2, <3>3, <3>4, <4>1 DEF ClientInv
      <4>2. CASE j # k
        BY <1>0, <2>1, <3>2, <4>2 DEF ClientInv
      <4> QED BY <4>1, <4>2
    <3>6. SessionsApart(stream')
      <4>1. \A j \in ClientSlots : stream'.clients[j] # NoClient =>
              stream.clients[j] # NoClient /\ stream'.clients[j].session = stream.clients[j].session
        BY <1>0, <2>1, <2>4, <3>2, <3>3
      <4> HIDE DEF client, k
      <4> QED BY <1>0, <3>2, <4>1 DEF SessionsApart
    <3> QED BY <1>1, <3>5, <3>6 DEF StreamInv
  <2> QED BY <1>8, <2>2, <2>3, <2>4 DEF EndSending
<1> QED BY <1>2, <1>3, <1>4, <1>5, <1>6, <1>7, <1>8 DEF StreamNext, ExpireAuthorization, CloseIdle

LEMMA StreamIsFaithful == StreamInv => StreamFaithful
BY DEF StreamInv, StreamFaithful, ClientInv, SessionsApart, SendingFrom

----------------------------------------------------------------------------
(* The diagnostic counters. *)

CounterNames == {"boot", "watchdog", "storage"}

\* No counter of a is ahead of that of b.
Covered(a, b) == \A counter \in CounterNames : a[counter] <= b[counter]

CountInv(c) ==
    /\ c \in Counting
    /\ Covered(c.reported, Found(c))
    /\ c.running /\ c.opened => Covered(c.reported, c.counters)
    /\ c.running /\ ~c.dirty => c.counters.storage = MaxCount \/ Found(c) = c.counters

\* The newest record is the active one, and the marker decides between two.
LEMMA ActiveSlotCases ==
    ASSUME NEW c, c.slots \in [Slots -> DiagnosticRecord \cup {EmptySlot, TornSlot}]
    PROVE  /\ ActiveSlot(c) = "None" <=> ~HoldsRecord(c, "A") /\ ~HoldsRecord(c, "B")
           /\ ActiveSlot(c) = "A" <=>
                /\ HoldsRecord(c, "A")
                /\ HoldsRecord(c, "B") =>
                     \/ c.slots["B"].generation < c.slots["A"].generation
                     \/ c.slots["B"].generation = c.slots["A"].generation /\ c.marker # "B"
           /\ ActiveSlot(c) \in {"A", "B", "None"}
<1> DEFINE holding == {k \in Slots : HoldsRecord(c, k)}
           newest == {k \in holding : \A j \in holding :
                        c.slots[j].generation <= c.slots[k].generation}
<1>1. ActiveSlot(c) = CASE newest = {} -> "None"
                        [] newest = Slots -> IF c.marker = "B" THEN "B" ELSE "A"
                        [] OTHER -> CHOOSE k \in Slots : k \in newest
  BY DEF ActiveSlot
<1>2. \A k \in holding : c.slots[k].generation \in Nat
  BY CountersAssumption DEF HoldsRecord, DiagnosticRecord
<1>3. CASE ~HoldsRecord(c, "A") /\ ~HoldsRecord(c, "B")
  <2>1. newest = {}
    BY <1>3 DEF Slots
  <2>2. newest # Slots
    BY <2>1 DEF Slots
  <2>3. ActiveSlot(c) = "None"
    BY <1>1, <2>1, <2>2
  <2> QED BY <1>3, <2>3
<1>4. CASE HoldsRecord(c, "A") /\ ~HoldsRecord(c, "B")
  <2>1. holding = {"A"}
    BY <1>4 DEF Slots
  <2>2. newest = {"A"}
    BY <1>2, <2>1
  <2>3. newest # {} /\ newest # Slots /\ (CHOOSE k \in Slots : k \in newest) = "A"
    BY <2>2 DEF Slots
  <2> QED BY <1>1, <1>4, <2>3
<1>5. CASE ~HoldsRecord(c, "A") /\ HoldsRecord(c, "B")
  <2>1. holding = {"B"}
    BY <1>5 DEF Slots
  <2>2. newest = {"B"}
    BY <1>2, <2>1
  <2>3. newest # {} /\ newest # Slots /\ (CHOOSE k \in Slots : k \in newest) = "B"
    BY <2>2 DEF Slots
  <2> QED BY <1>1, <1>5, <2>3
<1>6. CASE HoldsRecord(c, "A") /\ HoldsRecord(c, "B")
  <2> DEFINE a == c.slots["A"].generation
             b == c.slots["B"].generation
  <2>1. holding = {"A", "B"} /\ a \in Nat /\ b \in Nat
    BY <1>2, <1>6 DEF Slots
  <2>2. CASE a = b
    <3>1. newest = Slots /\ newest # {}
      BY <2>1, <2>2 DEF Slots
    <3> QED BY <1>1, <1>6, <2>1, <2>2, <3>1
  <2>3. CASE b < a
    <3>1. newest = {"A"}
      BY <2>1, <2>3
    <3>2. newest # {} /\ newest # Slots /\ (CHOOSE k \in Slots : k \in newest) = "A"
      BY <3>1 DEF Slots
    <3> QED BY <1>1, <1>6, <2>1, <2>3, <3>2
  <2>4. CASE a < b
    <3>1. newest = {"B"}
      BY <2>1, <2>4
    <3>2. newest # {} /\ newest # Slots /\ (CHOOSE k \in Slots : k \in newest) = "B"
      BY <3>1 DEF Slots
    <3> QED BY <1>1, <1>6, <2>1, <2>4, <3>2
  <2> QED BY <2>1, <2>2, <2>3, <2>4
<1> QED BY <1>3, <1>4, <1>5, <1>6

LEMMA FoundCounts ==
    ASSUME NEW c \in Counting
    PROVE  Found(c) \in Counters
<1>1. c.slots \in [Slots -> DiagnosticRecord \cup {EmptySlot, TornSlot}] /\ c.legacy \in 0 .. MaxCount
  BY DEF Counting
<1>2. CASE ActiveSlot(c) = "None"
  <2>1. [NoCounts EXCEPT !.boot = c.legacy] = [boot |-> c.legacy, watchdog |-> 0, storage |-> 0]
    BY DEF NoCounts
  <2> QED BY <1>1, <1>2, <2>1, CountersAssumption DEF Found, Counters
<1>3. CASE ActiveSlot(c) # "None"
  <2>1. ActiveSlot(c) \in Slots /\ HoldsRecord(c, ActiveSlot(c))
    BY <1>1, <1>3, ActiveSlotCases DEF Slots
  <2>2. c.slots[ActiveSlot(c)] \in DiagnosticRecord
    BY <1>1, <2>1 DEF HoldsRecord
  <2> QED BY <1>3, <2>2 DEF Found, DiagnosticRecord
<1> QED BY <1>2, <1>3

LEMMA IncrementedCounts ==
    ASSUME NEW limit \in Nat, NEW n \in 0 .. limit
    PROVE  /\ Incremented(n, limit) \in 0 .. limit /\ n <= Incremented(n, limit)
           /\ limit > 0 => Incremented(n, limit) > 0
           /\ n < limit => n < Incremented(n, limit)
           /\ n = limit => Incremented(n, limit) = limit
<1>1. CASE n < limit
  BY <1>1 DEF Incremented
<1>2. CASE n = limit
  BY <1>2 DEF Incremented
<1> QED BY <1>1, <1>2

LEMMA FoundInSlot ==
    ASSUME NEW c, NEW k \in Slots, ActiveSlot(c) = k
    PROVE  Found(c) = c.slots[k].counters
BY DEF Found, Slots

\* What a write may leave, in RAM and in the slots: nothing that was reported is lost.
LEMMA PersistedEffect ==
    ASSUME NEW c \in Counting, Covered(c.reported, Found(c)), Covered(c.reported, c.counters),
           NEW e \in Persisted(c)
    PROVE  /\ e.ok \in BOOLEAN /\ e.after \in Counting
           /\ e.after.running = c.running /\ e.after.opened = c.opened
           /\ e.after.counters = c.counters /\ e.after.faults = c.faults
           /\ e.after.dirty = c.dirty /\ e.after.legacy = c.legacy
           /\ Covered(e.after.reported, Found(e.after))
           /\ Covered(e.after.reported, c.counters)
           /\ e.ok => ActiveSlot(e.after) # "None" /\ Found(e.after) = c.counters
<1> DEFINE k == TargetSlot(c)
           record == [generation |-> Incremented(NewestGeneration(c), MaxGeneration),
                      counters |-> c.counters]
           torn == [c EXCEPT !.slots[k] = TornSlot]
           written == [c EXCEPT !.slots[k] = record]
           reported == [written EXCEPT !.marker = k, !.reported = c.counters]
<1>0. /\ c.slots \in [Slots -> DiagnosticRecord \cup {EmptySlot, TornSlot}]
      /\ c.marker \in Slots \cup {"None"} /\ c.legacy \in 0 .. MaxCount
      /\ c.running \in BOOLEAN /\ c.opened \in BOOLEAN /\ c.dirty \in BOOLEAN
      /\ c.counters \in Counters /\ c.reported \in Counters /\ c.faults \in SUBSET CountingFaults
      /\ c = [slots |-> c.slots, marker |-> c.marker, legacy |-> c.legacy, running |-> c.running,
              opened |-> c.opened, counters |-> c.counters, faults |-> c.faults,
              dirty |-> c.dirty, reported |-> c.reported]
  BY DEF Counting
<1>1. k \in Slots /\ ActiveSlot(c) # k /\ ActiveSlot(c) \in {"A", "B", "None"}
  BY <1>0, ActiveSlotCases DEF TargetSlot, Slots
<1>2. NewestGeneration(c) \in 0 .. MaxGeneration
  <2>1. CASE ActiveSlot(c) = "None"
    BY <2>1, CountersAssumption DEF NewestGeneration
  <2>2. CASE ActiveSlot(c) # "None"
    <3>1. ActiveSlot(c) \in Slots /\ HoldsRecord(c, ActiveSlot(c))
      BY <1>0, <2>2, ActiveSlotCases DEF Slots
    <3>2. c.slots[ActiveSlot(c)] \in DiagnosticRecord
      BY <1>0, <3>1 DEF HoldsRecord
    <3> QED BY <2>2, <3>2, CountersAssumption DEF NewestGeneration, DiagnosticRecord
  <2> QED BY <2>1, <2>2
<1>3. /\ record.generation \in 1 .. MaxGeneration /\ record.counters = c.counters
      /\ NewestGeneration(c) <= record.generation
      /\ NewestGeneration(c) = record.generation => record.generation = MaxGeneration
  BY <1>2, CountersAssumption, IncrementedCounts
<1>4. record \in DiagnosticRecord
  BY <1>0, <1>3 DEF DiagnosticRecord
<1>5. record # EmptySlot /\ record # TornSlot
  BY <1>4, MarksAreNoRecords
<1> HIDE DEF k, record
<1>6. /\ torn.slots = [c.slots EXCEPT ![k] = TornSlot] /\ torn.marker = c.marker
      /\ torn.legacy = c.legacy /\ torn.running = c.running /\ torn.opened = c.opened
      /\ torn.counters = c.counters /\ torn.faults = c.faults /\ torn.dirty = c.dirty
      /\ torn.reported = c.reported /\ torn \in Counting
  BY <1>0, <1>1 DEF Counting
<1>7. /\ written.slots = [c.slots EXCEPT ![k] = record] /\ written.marker = c.marker
      /\ written.legacy = c.legacy /\ written.running = c.running /\ written.opened = c.opened
      /\ written.counters = c.counters /\ written.faults = c.faults /\ written.dirty = c.dirty
      /\ written.reported = c.reported /\ written \in Counting
  BY <1>0, <1>1, <1>4 DEF Counting
<1>8. /\ reported.slots = [c.slots EXCEPT ![k] = record] /\ reported.marker = k
      /\ reported.legacy = c.legacy /\ reported.running = c.running
      /\ reported.opened = c.opened /\ reported.counters = c.counters
      /\ reported.faults = c.faults /\ reported.dirty = c.dirty
      /\ reported.reported = c.counters /\ reported \in Counting
  BY <1>0, <1>1, <1>4 DEF Counting
<1> HIDE DEF torn, written, reported
<1>9. \A counter \in CounterNames : c.counters[counter] <= c.counters[counter]
  BY <1>0 DEF CounterNames, Counters
<1>10. Covered(c.counters, c.counters)
  BY <1>9 DEF Covered
<1>11. Found(torn) = Found(c)
  <2>1. ActiveSlot(torn) = ActiveSlot(c)
    BY <1>0, <1>1, <1>6, ActiveSlotCases DEF HoldsRecord, Slots, Counting
  <2> QED BY <1>0, <1>1, <1>6, <2>1 DEF Found, Slots
<1>12. ASSUME NEW m, m.slots = [c.slots EXCEPT ![k] = record]
      PROVE  /\ ActiveSlot(m) = k \/ (ActiveSlot(m) = ActiveSlot(c) /\ ActiveSlot(c) # "None")
             /\ m.marker = k => ActiveSlot(m) = k
  <2>1. /\ m.slots \in [Slots -> DiagnosticRecord \cup {EmptySlot, TornSlot}]
        /\ HoldsRecord(m, k) /\ m.slots[k].generation = record.generation
    BY <1>0, <1>1, <1>4, <1>5, <1>12 DEF HoldsRecord
  <2>2. PICK j \in Slots : j # k /\ Slots = {j, k}
    BY <1>1 DEF Slots
  <2>3. m.slots[j] = c.slots[j]
    BY <1>0, <1>12, <2>2
  <2>4. CASE ActiveSlot(c) = "None"
    <3>1. ~HoldsRecord(m, j)
      BY <1>0, <2>2, <2>3, <2>4, ActiveSlotCases DEF HoldsRecord, Slots
    <3>2. (k = "A" /\ j = "B") \/ (k = "B" /\ j = "A")
      BY <1>1, <2>2 DEF Slots
    <3>3. CASE k = "A" /\ j = "B"
      BY <2>1, <3>1, <3>3, ActiveSlotCases
    <3>4. CASE k = "B" /\ j = "A"
      BY <2>1, <3>1, <3>4, ActiveSlotCases
    <3> QED BY <3>2, <3>3, <3>4
  <2>5. CASE ActiveSlot(c) = j
    <3>1. HoldsRecord(c, j) /\ NewestGeneration(c) = c.slots[j].generation
      BY <1>0, <2>2, <2>5, ActiveSlotCases DEF Slots, NewestGeneration
    <3>2. HoldsRecord(m, j) /\ m.slots[j].generation <= m.slots[k].generation
      BY <1>3, <2>1, <2>3, <3>1 DEF HoldsRecord
    <3>3. m.slots[j].generation \in Nat /\ m.slots[k].generation \in Nat
      BY <1>2, <1>3, <2>1, <2>3, <3>1, CountersAssumption
    <3>4. ActiveSlot(m) \in Slots
      BY <2>1, <3>2, ActiveSlotCases DEF Slots
    <3> QED BY <2>1, <2>2, <2>5, <3>2, <3>3, <3>4, ActiveSlotCases DEF Slots
  <2> QED BY <1>1, <2>2, <2>4, <2>5 DEF Slots
<1>13. ASSUME NEW m, m.slots = [c.slots EXCEPT ![k] = record]
      PROVE  /\ ActiveSlot(m) # "None"
             /\ Found(m) = c.counters \/ Found(m) = Found(c)
             /\ m.marker = k => Found(m) = c.counters
  <2>1. m.slots[k] = record
    BY <1>0, <1>1, <1>13
  <2>2. ActiveSlot(m) = k => Found(m) = c.counters
    BY <1>1, <1>3, <2>1, FoundInSlot
  <2>3. ASSUME ActiveSlot(m) = ActiveSlot(c), ActiveSlot(c) # "None" PROVE Found(m) = Found(c)
    <3>1. ActiveSlot(c) \in Slots /\ ActiveSlot(c) # k
      BY <1>1, <2>3 DEF Slots
    <3> QED BY <1>0, <1>13, <2>3, <3>1, FoundInSlot
  <2>4. k # "None"
    BY <1>1 DEF Slots
  <2> QED BY <1>12, <1>13, <2>2, <2>3, <2>4
<1>14. Covered(c.reported, Found(written))
  BY <1>7, <1>13
<1>15. Found(reported) = c.counters /\ ActiveSlot(reported) # "None"
  BY <1>8, <1>13
<1>16. e \in {[ok |-> FALSE, after |-> c], [ok |-> FALSE, after |-> torn],
             [ok |-> FALSE, after |-> written], [ok |-> TRUE, after |-> reported]}
  BY DEF Persisted, k, record, torn, written, reported
<1>17. CASE e = [ok |-> FALSE, after |-> c]
  BY <1>17
<1>18. CASE e = [ok |-> FALSE, after |-> torn]
  BY <1>6, <1>11, <1>18
<1>19. CASE e = [ok |-> FALSE, after |-> written]
  BY <1>7, <1>14, <1>19
<1>20. CASE e = [ok |-> TRUE, after |-> reported]
  BY <1>8, <1>10, <1>15, <1>20
<1> QED BY <1>16, <1>17, <1>18, <1>19, <1>20

LEMMA CountedEffect ==
    ASSUME NEW c \in Counting, NEW counter \in CounterNames
    PROVE  /\ Counted(c, counter) \in Counting
           /\ Found(Counted(c, counter)) = Found(c)
           /\ Counted(c, counter).reported = c.reported
           /\ Counted(c, counter).running = c.running /\ Counted(c, counter).opened = c.opened
           /\ Covered(c.counters, Counted(c, counter).counters)
           /\ ~Counted(c, counter).dirty =>
                /\ ~c.dirty /\ c.counters[counter] = MaxCount
                /\ Counted(c, counter).counters = c.counters
<1> DEFINE n == Incremented(c.counters[counter], MaxCount)
           d == [c EXCEPT !.counters = [c.counters EXCEPT ![counter] = n],
                          !.dirty = c.dirty \/ c.counters[counter] < MaxCount]
<1>1. Counted(c, counter) = d
  BY DEF Counted, Counting
<1>2. /\ c.counters \in Counters /\ DOMAIN c.counters = CounterNames
      /\ \A other \in CounterNames : c.counters[other] \in 0 .. MaxCount
  BY DEF Counting, Counters, CounterNames
<1>3. n \in 0 .. MaxCount /\ c.counters[counter] <= n
  BY <1>2, CountersAssumption, IncrementedCounts
<1>4. c.counters[counter] = MaxCount => n = c.counters[counter]
  BY <1>2, CountersAssumption, IncrementedCounts
<1> HIDE DEF n
<1>5. [c.counters EXCEPT ![counter] = n] \in Counters
  BY <1>2, <1>3 DEF Counters, CounterNames
<1>6. Covered(c.counters, [c.counters EXCEPT ![counter] = n])
  BY <1>2, <1>3 DEF Covered, CounterNames
<1>7. /\ d.counters = [c.counters EXCEPT ![counter] = n] /\ d.slots = c.slots
      /\ d.marker = c.marker /\ d.legacy = c.legacy /\ d.reported = c.reported
      /\ d.running = c.running /\ d.opened = c.opened
      /\ d.dirty = (c.dirty \/ c.counters[counter] < MaxCount)
  BY DEF Counting
<1>8. d \in Counting
  BY <1>5 DEF Counting
<1> HIDE DEF d
<1>9. Found(d) = Found(c)
  BY <1>7 DEF Found, ActiveSlot, HoldsRecord
<1>10. ASSUME ~d.dirty
       PROVE  ~c.dirty /\ c.counters[counter] = MaxCount /\ d.counters = c.counters
  <2>1. ~c.dirty /\ ~(c.counters[counter] < MaxCount)
    BY Zenon, <1>7, <1>10
  <2>2. c.counters[counter] = MaxCount
    BY <1>2, <2>1, CountersAssumption
  <2>3. [c.counters EXCEPT ![counter] = n] = c.counters
    BY <1>2, <1>4, <2>2 DEF Counters
  <2> QED BY <1>7, <2>1, <2>2, <2>3
<1> QED BY <1>1, <1>6, <1>7, <1>8, <1>9, <1>10

LEMMA CountingStarts == CountingInit => CountInv(counting)
<1> SUFFICES ASSUME NEW legacy \in {0, 1}, counting = CountingBefore(legacy)
             PROVE  CountInv(counting)
  BY DEF CountingInit
<1>1. [NoCounts EXCEPT !.boot = legacy] = [boot |-> legacy, watchdog |-> 0, storage |-> 0]
  BY DEF NoCounts
<1>2. /\ counting \in Counting /\ counting.legacy = legacy
      /\ counting.reported = [boot |-> legacy, watchdog |-> 0, storage |-> 0]
      /\ ~counting.running
  BY <1>1, CountersAssumption DEF CountingBefore, Counting, Counters, NoCounts
<1>3. ActiveSlot(counting) = "None"
  <2>1. /\ counting.slots \in [Slots -> DiagnosticRecord \cup {EmptySlot, TornSlot}]
        /\ ~HoldsRecord(counting, "A") /\ ~HoldsRecord(counting, "B")
    BY DEF CountingBefore, HoldsRecord, Slots
  <2> QED BY <2>1, ActiveSlotCases
<1>4. Found(counting) = counting.reported
  BY <1>1, <1>2, <1>3 DEF Found
<1> QED BY <1>2, <1>4 DEF CountInv, Covered, CounterNames

\* A change of what is not stored, which leaves the invariant's parts as they were.
LEMMA CountedKeepsInv ==
    ASSUME NEW c \in Counting, NEW counter \in CounterNames,
           Covered(c.reported, Found(c)),
           c.running /\ c.opened => Covered(c.reported, c.counters),
           ~c.dirty => c.counters.storage = MaxCount \/ Found(c) = c.counters \/ counter = "storage"
    PROVE  CountInv(Counted(c, counter))
<1> DEFINE d == Counted(c, counter)
<1>0. /\ c.reported \in Counters /\ c.counters \in Counters /\ d \in Counting
      /\ d.counters \in Counters
  BY CountedEffect DEF Counting
<1>1. /\ d \in Counting /\ Found(d) = Found(c) /\ d.reported = c.reported
      /\ d.running = c.running /\ d.opened = c.opened
      /\ Covered(c.counters, d.counters)
      /\ ~d.dirty => ~c.dirty /\ c.counters[counter] = MaxCount /\ d.counters = c.counters
  BY CountedEffect
<1> HIDE DEF d
<1>2. Covered(c.reported, c.counters) => Covered(c.reported, d.counters)
  BY <1>0, <1>1, CountersAssumption DEF Covered, Counters, CounterNames
<1>3. ~d.dirty => d.counters.storage = MaxCount \/ Found(d) = d.counters
  BY <1>1
<1>4. CountInv(d)
  BY <1>1, <1>2, <1>3 DEF CountInv
<1> QED BY <1>4 DEF d

LEMMA CountedAtBootCounts ==
    ASSUME NEW c \in Counting, NEW opened \in BOOLEAN, NEW category
    PROVE  /\ CountedAtBoot(c, opened, category) \in Counters
           /\ opened => Covered(Found(c), CountedAtBoot(c, opened, category))
<1> DEFINE found == IF opened THEN Found(c) ELSE NoCounts
           counted == CountedAtBoot(c, opened, category)
<1>1. found \in Counters
  BY FoundCounts, CountersAssumption DEF NoCounts, Counters
<1>2. /\ found.boot \in 0 .. MaxCount /\ found.watchdog \in 0 .. MaxCount
      /\ found.storage \in 0 .. MaxCount /\ MaxCount \in Nat
  BY <1>1, CountersAssumption DEF Counters
<1>3. \A n \in 0 .. MaxCount :
        Incremented(n, MaxCount) \in 0 .. MaxCount /\ n <= Incremented(n, MaxCount)
  BY <1>2, IncrementedCounts
<1>4. PICK torn : torn = (opened /\ \E k \in Slots : c.slots[k] = TornSlot)
  OBVIOUS
<1>5. counted = [boot |-> Incremented(found.boot, MaxCount),
                 watchdog |-> IF category = "Watchdog" THEN Incremented(found.watchdog, MaxCount)
                              ELSE found.watchdog,
                 storage |-> IF torn THEN Incremented(found.storage, MaxCount) ELSE found.storage]
  BY <1>4 DEF CountedAtBoot
<1>6. counted \in Counters
  BY <1>2, <1>3, <1>5 DEF Counters
<1>7. Covered(found, counted)
  BY <1>2, <1>3, <1>5 DEF Covered, CounterNames
<1> QED BY <1>6, <1>7

LEMMA CountingStep == ASSUME CountInv(counting), CountingNext PROVE CountInv(counting')
<1>0. /\ counting \in Counting
      /\ counting.slots \in [Slots -> DiagnosticRecord \cup {EmptySlot, TornSlot}]
      /\ counting.counters \in Counters /\ counting.reported \in Counters
      /\ counting.faults \in SUBSET CountingFaults
      /\ counting.running \in BOOLEAN /\ counting.dirty \in BOOLEAN
      /\ Covered(counting.reported, Found(counting))
  BY DEF CountInv, Counting
<1>1. CASE BootCounting
  <2>1. PICK opened \in BOOLEAN, category \in {"Watchdog", "PowerOn"} :
         \E booted \in {[counting EXCEPT !.running = TRUE, !.opened = opened, !.faults = {},
                                         !.dirty = FALSE,
                                         !.counters = CountedAtBoot(counting, opened, category)]} :
         \E end \in IF opened THEN Persisted(booted) ELSE {[ok |-> FALSE, after |-> booted]} :
           counting' = IF end.ok THEN [end.after EXCEPT !.legacy = 0]
                       ELSE Counted(end.after, "storage")
    BY <1>1 DEF BootCounting
  <2> DEFINE counted == CountedAtBoot(counting, opened, category)
             booted == [counting EXCEPT !.running = TRUE, !.opened = opened, !.faults = {},
                                        !.dirty = FALSE, !.counters = counted]
  <2>2. PICK end \in IF opened THEN Persisted(booted) ELSE {[ok |-> FALSE, after |-> booted]} :
           counting' = IF end.ok THEN [end.after EXCEPT !.legacy = 0]
                       ELSE Counted(end.after, "storage")
    BY <2>1
  <2>3. counted \in Counters /\ (opened => Covered(Found(counting), counted))
    BY <1>0, CountedAtBootCounts
  <2> HIDE DEF counted
  <2>4. /\ booted \in Counting /\ booted.running /\ booted.opened = opened /\ ~booted.dirty
        /\ booted.counters = counted /\ booted.reported = counting.reported
        /\ booted.slots = counting.slots /\ booted.marker = counting.marker
        /\ booted.legacy = counting.legacy
    BY <1>0, <2>3 DEF Counting
  <2> HIDE DEF booted
  <2>5. Found(booted) = Found(counting)
    BY <2>4 DEF Found, ActiveSlot, HoldsRecord
  <2>6. Covered(booted.reported, Found(booted))
    BY <1>0, <2>4, <2>5
  <2>7. Found(counting) \in Counters
    BY <1>0, FoundCounts
  <2>8. opened => Covered(booted.reported, booted.counters)
    BY <1>0, <2>3, <2>4, <2>7, CountersAssumption DEF Covered, Counters, CounterNames
  <2>9. CASE ~opened
    <3>1. end = [ok |-> FALSE, after |-> booted] /\ counting' = Counted(booted, "storage")
      BY <2>2, <2>9
    <3> QED BY <2>4, <2>6, <2>9, <3>1, CountedKeepsInv DEF CounterNames
  <2>10. CASE opened
    <3>1. end \in Persisted(booted)
      BY <2>2, <2>10
    <3>2. /\ end.ok \in BOOLEAN /\ end.after \in Counting
          /\ end.after.running /\ end.after.opened = opened
          /\ end.after.counters = booted.counters /\ ~end.after.dirty
          /\ Covered(end.after.reported, Found(end.after))
          /\ Covered(end.after.reported, booted.counters)
          /\ end.ok => ActiveSlot(end.after) # "None" /\ Found(end.after) = booted.counters
      BY <2>4, <2>6, <2>8, <2>10, <3>1, PersistedEffect
    <3>3. CASE end.ok
      <4> DEFINE after == end.after
                 next == [after EXCEPT !.legacy = 0]
      <4>1. counting' = next /\ after \in Counting /\ 0 \in 0 .. MaxCount
        BY <2>2, <3>2, <3>3, CountersAssumption
      <4> HIDE DEF after
      <4>2. /\ next \in Counting /\ next.slots = after.slots /\ next.marker = after.marker
            /\ next.running = after.running /\ next.opened = after.opened
            /\ next.counters = after.counters /\ next.reported = after.reported
            /\ next.dirty = after.dirty
        BY <4>1 DEF Counting
      <4> HIDE DEF next
      <4>3. Found(next) = Found(after)
        <5>1. ActiveSlot(next) = ActiveSlot(after)
          BY <4>2 DEF ActiveSlot, HoldsRecord
        <5>2. ActiveSlot(after) # "None"
          BY <3>2, <3>3 DEF after
        <5> QED BY <4>2, <5>1, <5>2 DEF Found
      <4>4. /\ after.running /\ after.opened = opened /\ after.counters = booted.counters
            /\ ~after.dirty /\ Covered(after.reported, Found(after))
            /\ Covered(after.reported, booted.counters) /\ Found(after) = booted.counters
        BY <3>2, <3>3 DEF after
      <4> QED BY <4>1, <4>2, <4>3, <4>4 DEF CountInv
    <3>4. CASE ~end.ok
      <4>1. counting' = Counted(end.after, "storage")
        BY <2>2, <3>4
      <4> QED BY <3>2, <4>1, CountedKeepsInv DEF CounterNames
    <3> QED BY <3>2, <3>3, <3>4
  <2> QED BY <2>9, <2>10
<1>2. ASSUME NEW counter \in {"watchdog", "storage"}, RecordEvent(counter)
      PROVE  CountInv(counting')
  BY <1>0, <1>2, CountedKeepsInv DEF RecordEvent, CountInv, CounterNames
<1>3. ASSUME NEW faults \in SUBSET CountingFaults, NEW c, CountInv(c),
             counting' = [c EXCEPT !.faults = faults]
      PROVE  CountInv(counting')
  <2>1. c \in Counting
    BY <1>3 DEF CountInv
  <2>2. /\ counting' \in Counting /\ counting'.slots = c.slots /\ counting'.marker = c.marker
        /\ counting'.legacy = c.legacy /\ counting'.running = c.running
        /\ counting'.opened = c.opened /\ counting'.counters = c.counters
        /\ counting'.reported = c.reported /\ counting'.dirty = c.dirty
    BY <1>3, <2>1 DEF Counting
  <2>3. Found(counting') = Found(c)
    BY <2>2 DEF Found, ActiveSlot, HoldsRecord
  <2> QED BY <1>3, <2>2, <2>3 DEF CountInv
<1>4. ASSUME NEW fault \in CountingFaults, RecordFault(fault) PROVE CountInv(counting')
  <2> DEFINE c == Counted(counting, CounterOf(fault))
  <2>1. CounterOf(fault) \in CounterNames
    BY DEF CounterOf, CounterNames
  <2>2. CountInv(c)
    BY <1>0, <1>4, <2>1, CountedKeepsInv DEF RecordFault, CountInv
  <2>3. counting' = [c EXCEPT !.faults = c.faults \cup {fault}]
    BY <1>4 DEF RecordFault
  <2>4. c.faults \cup {fault} \in SUBSET CountingFaults
    BY <2>2 DEF CountInv, Counting
  <2> HIDE DEF c
  <2> QED BY <1>3, <2>2, <2>3, <2>4
<1>5. ASSUME NEW fault \in CountingFaults, ClearFault(fault) PROVE CountInv(counting')
  <2>1. counting' = [counting EXCEPT !.faults = counting.faults \ {fault}]
    BY <1>5 DEF ClearFault
  <2> QED BY <1>0, <1>3, <2>1
<1>6. ASSUME NEW c, CountInv(c), NEW running \in BOOLEAN,
             counting' = [c EXCEPT !.running = running], running => c.running
      PROVE  CountInv(counting')
  <2>1. c \in Counting
    BY <1>6 DEF CountInv
  <2>2. /\ counting' \in Counting /\ counting'.slots = c.slots /\ counting'.marker = c.marker
        /\ counting'.legacy = c.legacy /\ counting'.running = running
        /\ counting'.opened = c.opened /\ counting'.counters = c.counters
        /\ counting'.reported = c.reported /\ counting'.dirty = c.dirty
    BY <1>6, <2>1 DEF Counting
  <2>3. Found(counting') = Found(c)
    BY <2>2 DEF Found, ActiveSlot, HoldsRecord
  <2> QED BY <1>6, <2>2, <2>3 DEF CountInv
<1>7. ASSUME counting.running, counting.dirty,
             NEW end \in IF counting.opened THEN Persisted(counting)
                         ELSE {[ok |-> FALSE, after |-> counting]}
      PROVE  CountInv(Flushed(end)) /\ Flushed(end).running
  <2>1. /\ end.after \in Counting /\ end.after.running /\ end.after.opened = counting.opened
        /\ Covered(end.after.reported, Found(end.after))
        /\ end.after.opened => Covered(end.after.reported, end.after.counters)
        /\ end.after.dirty
        /\ end.ok => Found(end.after) = end.after.counters
    <3>1. CASE counting.opened
      <4>1. end \in Persisted(counting) /\ Covered(counting.reported, counting.counters)
        BY <1>7, <3>1 DEF CountInv
      <4> QED BY <1>0, <1>7, <3>1, <4>1, PersistedEffect
    <3>2. CASE ~counting.opened
      <4>1. end.after = counting /\ ~end.ok
        BY <1>7, <3>2
      <4> QED BY <1>0, <1>7, <3>2, <4>1 DEF CountInv
    <3> QED BY <3>1, <3>2
  <2>2. CASE ~end.ok
    <3>1. Flushed(end) = Counted(end.after, "storage")
      BY <2>2 DEF Flushed
    <3> QED BY <2>1, <3>1, CountedKeepsInv, CountedEffect DEF CounterNames
  <2>3. CASE end.ok
    <3> DEFINE after == end.after
               next == [after EXCEPT !.dirty = FALSE]
    <3>1. Flushed(end) = next /\ after \in Counting
      BY <2>1, <2>3 DEF Flushed
    <3> HIDE DEF after
    <3>2. /\ next \in Counting /\ next.slots = after.slots /\ next.marker = after.marker
          /\ next.legacy = after.legacy /\ next.running = after.running
          /\ next.opened = after.opened /\ next.counters = after.counters
          /\ next.reported = after.reported /\ ~next.dirty
      BY <3>1 DEF Counting
    <3> HIDE DEF next
    <3>3. Found(next) = Found(after)
      BY <3>2 DEF Found, ActiveSlot, HoldsRecord
    <3>4. /\ after.running /\ Covered(after.reported, Found(after))
          /\ after.opened => Covered(after.reported, after.counters)
          /\ Found(after) = after.counters
      BY <2>1, <2>3 DEF after
    <3> QED BY <3>1, <3>2, <3>3, <3>4 DEF CountInv
  <2> QED BY <2>2, <2>3
<1>8. CASE FlushCounters
  <2>1. PICK end \in IF counting.opened THEN Persisted(counting)
                     ELSE {[ok |-> FALSE, after |-> counting]} :
          \E restarting \in BOOLEAN : counting' = [Flushed(end) EXCEPT !.running = ~restarting]
    BY <1>8 DEF FlushCounters
  <2>2. PICK running \in BOOLEAN : counting' = [Flushed(end) EXCEPT !.running = running]
    BY <2>1
  <2>3. CountInv(Flushed(end)) /\ Flushed(end).running
    BY <1>7, <1>8 DEF FlushCounters
  <2> QED BY <1>6, <2>2, <2>3
<1>9. CASE LosePower
  <2>1. PICK end \in {[ok |-> FALSE, after |-> counting]}
                    \cup (IF counting.running /\ counting.opened /\ counting.dirty
                          THEN Persisted(counting) ELSE {}) :
          counting' = [end.after EXCEPT !.running = FALSE]
    BY <1>9 DEF LosePower
  <2>2. CASE end = [ok |-> FALSE, after |-> counting]
    BY <1>6, <2>1, <2>2
  <2>3. CASE counting.running /\ counting.opened /\ counting.dirty /\ end \in Persisted(counting)
    <3>1. Covered(counting.reported, counting.counters)
      BY <2>3 DEF CountInv
    <3>2. CountInv(end.after)
      BY <1>0, <2>3, <3>1, PersistedEffect DEF CountInv
    <3> QED BY <1>6, <2>1, <3>2
  <2> QED BY <2>1, <2>2, <2>3
<1> QED BY <1>1, <1>2, <1>4, <1>5, <1>8, <1>9 DEF CountingNext

LEMMA CountsAreKept == CountInv(counting) => CountsKept
BY DEF CountInv, CountsKept, Covered, CounterNames, NoCounts

----------------------------------------------------------------------------
(* The configuration files. *)

\* The backup can take the place of the stored configuration.
BackupGood(f) == Loads(f, f.backup) /\ \A s \in Sections : f.backup[s] >= f.stored

\* What the sections before the one that a job is at have become.
JobInv(f) ==
    /\ f.job = "Stage" => \A s \in Sections : s < f.at => f.staging[s] = f.stores
    /\ f.job \in {"BackupBeforePromote", "Promote"} => f.staging = Uniform(f.stores)
    /\ f.job \in {"BackupBeforePromote", "BackupAtBoot"} =>
         Loads(f, f.primary) /\ \A s \in Sections : s < f.at => f.backup[s] = f.primary[s]
    /\ f.job = "Promote" => \A s \in Sections : s < f.at => f.primary[s] = f.stores
    /\ f.job \in {"Promote", "Restore"} /\ f.stored # 0 => BackupGood(f)

\* The primary bundle may have lost sections, but it has none that is out of date.
StoredInv(f) ==
    f.stored # 0 =>
        /\ \A s \in Sections : f.primary[s] = Missing \/ f.primary[s] >= f.stored
        /\ Loads(f, f.primary) \/ BackupGood(f)

FilesInv(f) == f \in Files /\ f.stored <= f.stores /\ JobInv(f) /\ StoredInv(f)

LEMMA FilesStart == FilesInit => FilesInv(files)
<1> SUFFICES ASSUME NEW image \in BOOLEAN, NEW mixtureFits \in BOOLEAN,
                    files = FilesBefore(image, mixtureFits)
             PROVE  FilesInv(files)
  BY DEF FilesInit
<1>1. \A n \in 0 .. MaxStores + 1 : Uniform(n) \in Bundle
  BY DEF Uniform, Bundle
<1>2. 0 \in 0 .. MaxStores + 1 /\ 1 \in 0 .. MaxStores + 1 /\ 1 \in 1 .. MaxStores + 1 /\ 1 \in Sections
  BY FilesAssumption DEF Sections
<1>3. files \in Files
  BY <1>1, <1>2 DEF FilesBefore, Files, JobKind, Missing, Deployed
<1> QED BY <1>3 DEF FilesInv, FilesBefore, JobInv, StoredInv, Deployed

\* What a job starts from, whatever ran before it.
LEMMA StartedKeepsInv ==
    ASSUME NEW f \in Files, f.stored <= f.stores, StoredInv(f), NEW job \in JobKind,
           job \in {"BackupBeforePromote", "Promote"} => f.staging = Uniform(f.stores),
           job \in {"BackupBeforePromote", "BackupAtBoot"} => Loads(f, f.primary),
           job \in {"Promote", "Restore"} /\ f.stored # 0 => BackupGood(f)
    PROVE  FilesInv(Start(f, job))
<1> DEFINE g == Start(f, job)
<1>1. 1 \in Sections /\ \A s \in Sections : ~(s < 1)
  BY FilesAssumption DEF Sections
<1>2. /\ g.primary = f.primary /\ g.backup = f.backup /\ g.staging = f.staging
      /\ g.job = job /\ g.at = 1 /\ g.mounted = f.mounted /\ g.mixtureFits = f.mixtureFits
      /\ g.stores = f.stores /\ g.stored = f.stored
  BY DEF Start, Files
<1>3. g \in Files
  BY <1>1 DEF Start, Files
<1> HIDE DEF g
<1>4. FilesInv(g)
  BY <1>1, <1>2, <1>3 DEF FilesInv, JobInv, StoredInv, BackupGood, Loads, Accepted
<1> QED BY <1>4 DEF g

\* Giving a job up, or ending the boot, needs no more than the stored bundles.
LEMMA FinishedKeepsInv ==
    ASSUME NEW f \in Files, f.stored <= f.stores, StoredInv(f), NEW job \in {"Idle", "Off"}
    PROVE  FilesInv(Start(f, job))
<1>1. job \in JobKind /\ job \notin {"BackupBeforePromote", "Promote", "BackupAtBoot", "Restore"}
  BY DEF JobKind
<1> QED BY <1>1, StartedKeepsInv

LEMMA LoadedKeepsInv ==
    ASSUME NEW f \in Files, f.stored <= f.stores, StoredInv(f)
    PROVE  FilesInv(LoadBundles(f))
<1>1. CASE ~f.mounted
  BY <1>1, FinishedKeepsInv DEF LoadBundles, Finish
<1>2. CASE f.mounted /\ Loads(f, f.primary)
  <2>1. "BackupAtBoot" \in JobKind
    BY DEF JobKind
  <2> QED BY <1>2, <2>1, StartedKeepsInv DEF LoadBundles
<1>3. CASE f.mounted /\ ~Loads(f, f.primary) /\ Loads(f, f.backup)
  <2>1. "Restore" \in JobKind /\ (f.stored # 0 => BackupGood(f))
    BY <1>3 DEF JobKind, StoredInv
  <2> QED BY <1>3, <2>1, StartedKeepsInv DEF LoadBundles
<1>4. CASE f.mounted /\ ~Loads(f, f.primary) /\ ~Loads(f, f.backup)
  BY <1>4, FinishedKeepsInv DEF LoadBundles, Finish
<1> QED BY <1>1, <1>2, <1>3, <1>4

\* The section that a job is at is given a value, and what else there is stays.
LEMMA SectionWritten ==
    ASSUME NEW f \in Files, f.job \notin {"Off", "Idle"}, NEW n \in 0 .. MaxStores + 1
    PROVE  LET g == WithSection(f, n)
           IN  /\ g \in Files /\ g.job = f.job /\ g.at = f.at /\ g.stores = f.stores
               /\ g.stored = f.stored /\ g.mixtureFits = f.mixtureFits /\ g.mounted = f.mounted
               /\ g.staging = IF f.job = "Stage" THEN [f.staging EXCEPT ![f.at] = n] ELSE f.staging
               /\ g.backup = IF f.job \in {"BackupBeforePromote", "BackupAtBoot"}
                             THEN [f.backup EXCEPT ![f.at] = n] ELSE f.backup
               /\ g.primary = IF f.job \in {"Promote", "Restore"}
                              THEN [f.primary EXCEPT ![f.at] = n] ELSE f.primary
<1>1. f.job \in {"Stage", "BackupBeforePromote", "BackupAtBoot", "Promote", "Restore"}
  BY DEF Files, JobKind
<1>2. CASE f.job = "Stage"
  BY <1>2 DEF WithSection, Files, Bundle
<1>3. CASE f.job \in {"BackupBeforePromote", "BackupAtBoot"}
  BY <1>3 DEF WithSection, Files, Bundle
<1>4. CASE f.job \in {"Promote", "Restore"}
  BY <1>4 DEF WithSection, Files, Bundle
<1> QED BY <1>1, <1>2, <1>3, <1>4

\* A job that loses the section it is at has not lost the configuration.
LEMMA SectionLost ==
    ASSUME NEW f, FilesInv(f), f.job \notin {"Off", "Idle"}
    PROVE  LET g == WithSection(f, Missing)
           IN  g \in Files /\ g.stored <= g.stores /\ StoredInv(g)
<1>1. f \in Files /\ f.at \in Sections /\ f.primary \in Bundle /\ 0 \in 0 .. MaxStores + 1
  BY FilesAssumption DEF FilesInv, Files
<1> DEFINE g == WithSection(f, Missing)
<1>2. /\ g \in Files /\ g.stores = f.stores /\ g.stored = f.stored
      /\ g.mixtureFits = f.mixtureFits
      /\ g.backup = IF f.job \in {"BackupBeforePromote", "BackupAtBoot"}
                    THEN [f.backup EXCEPT ![f.at] = Missing] ELSE f.backup
      /\ g.primary = IF f.job \in {"Promote", "Restore"}
                     THEN [f.primary EXCEPT ![f.at] = Missing] ELSE f.primary
  BY <1>1, SectionWritten DEF Missing
<1> HIDE DEF g
<1>3. g.stored <= g.stores
  BY <1>2 DEF FilesInv
<1>4. CASE f.job \in {"Promote", "Restore"}
  <2>1. \A s \in Sections : g.primary[s] = Missing \/ g.primary[s] = f.primary[s]
    BY <1>1, <1>2, <1>4 DEF Bundle
  <2>2. g.backup = f.backup
    BY <1>2, <1>4
  <2> QED BY <1>2, <1>3, <1>4, <2>1, <2>2
          DEF g, StoredInv, FilesInv, JobInv, BackupGood, Loads, Accepted
<1>5. CASE f.job \notin {"Promote", "Restore"}
  <2>1. g.primary = f.primary
    BY <1>2, <1>5
  <2>2. CASE f.job \in {"BackupBeforePromote", "BackupAtBoot"}
    <3>1. Loads(f, f.primary)
      BY <2>2 DEF FilesInv, JobInv
    <3> QED BY <1>2, <1>3, <2>1, <3>1 DEF g, StoredInv, FilesInv, Loads, Accepted
  <2>3. CASE f.job \notin {"BackupBeforePromote", "BackupAtBoot"}
    <3>1. g.backup = f.backup
      BY <1>2, <2>3
    <3> QED BY <1>2, <1>3, <2>1, <3>1
            DEF g, StoredInv, FilesInv, BackupGood, Loads, Accepted
  <2> QED BY <2>2, <2>3
<1> QED BY <1>4, <1>5

\* Job by job, what the copy of a section adds to what was copied before.
Copied(g) ==
    /\ g \in Files /\ g.job \notin {"Off", "Idle"} /\ g.stored <= g.stores /\ StoredInv(g)
    /\ g.job = "Stage" => \A s \in Sections : s <= g.at => g.staging[s] = g.stores
    /\ g.job \in {"BackupBeforePromote", "Promote"} => g.staging = Uniform(g.stores)
    /\ g.job \in {"BackupBeforePromote", "BackupAtBoot"} =>
         Loads(g, g.primary) /\ \A s \in Sections : s <= g.at => g.backup[s] = g.primary[s]
    /\ g.job = "Promote" => \A s \in Sections : s <= g.at => g.primary[s] = g.stores
    /\ g.job \in {"Promote", "Restore"} /\ g.stored # 0 => BackupGood(g)

LEMMA SectionCopied ==
    ASSUME NEW f, FilesInv(f), f.job \notin {"Off", "Idle"}, SourceSection(f) # Missing
    PROVE  Copied(WithSection(f, SourceSection(f)))
<1> DEFINE n == SourceSection(f)
           g == WithSection(f, n)
<1>0. /\ f \in Files /\ f.at \in Sections /\ f.primary \in Bundle /\ f.backup \in Bundle
      /\ f.staging \in Bundle /\ f.stores \in 1 .. MaxStores + 1 /\ f.stored \in Nat
      /\ f.stored <= f.stores /\ MaxStores \in Nat
      /\ f.job \in {"Stage", "BackupBeforePromote", "BackupAtBoot", "Promote", "Restore"}
  BY FilesAssumption DEF FilesInv, Files, JobKind, Deployed
<1>1. n = CASE f.job = "Stage" -> f.stores
            [] f.job \in {"BackupBeforePromote", "BackupAtBoot"} -> f.primary[f.at]
            [] f.job = "Promote" -> f.staging[f.at]
            [] f.job = "Restore" -> f.backup[f.at]
  BY DEF SourceSection
<1>2. /\ f.primary[f.at] \in 0 .. MaxStores + 1 /\ f.staging[f.at] \in 0 .. MaxStores + 1
      /\ f.backup[f.at] \in 0 .. MaxStores + 1 /\ f.stores \in 0 .. MaxStores + 1
  BY <1>0 DEF Bundle
<1>3. n \in 0 .. MaxStores + 1
  BY <1>0, <1>1, <1>2
<1> HIDE DEF n
<1>4. /\ g \in Files /\ g.job = f.job /\ g.at = f.at /\ g.stores = f.stores
      /\ g.stored = f.stored /\ g.mixtureFits = f.mixtureFits
      /\ g.staging = IF f.job = "Stage" THEN [f.staging EXCEPT ![f.at] = n] ELSE f.staging
      /\ g.backup = IF f.job \in {"BackupBeforePromote", "BackupAtBoot"}
                    THEN [f.backup EXCEPT ![f.at] = n] ELSE f.backup
      /\ g.primary = IF f.job \in {"Promote", "Restore"}
                     THEN [f.primary EXCEPT ![f.at] = n] ELSE f.primary
  BY <1>0, <1>3, SectionWritten
<1> HIDE DEF g
<1>5. \A s \in Sections : s \in Nat /\ (s <= f.at => s < f.at \/ s = f.at)
  BY <1>0, FilesAssumption DEF Sections
<1>6. \A bundle : Loads(g, bundle) <=> Loads(f, bundle)
  BY <1>4 DEF Loads, Accepted
<1>7. CASE f.job = "Stage"
  <2>1. g.primary = f.primary /\ g.backup = f.backup
    BY <1>4, <1>7
  <2>2. StoredInv(g)
    BY <1>4, <1>6, <2>1 DEF FilesInv, StoredInv, BackupGood
  <2>3. \A s \in Sections : s <= g.at => g.staging[s] = g.stores
    BY <1>0, <1>1, <1>4, <1>5, <1>7 DEF FilesInv, JobInv, Bundle
  <2>4. Copied(g)
    BY <1>0, <1>4, <1>7, <2>2, <2>3 DEF Copied
  <2> QED BY <2>4 DEF g, n
<1>8. CASE f.job \in {"BackupBeforePromote", "BackupAtBoot"}
  <2>1. g.primary = f.primary /\ g.staging = f.staging /\ Loads(f, f.primary)
    BY <1>4, <1>8 DEF FilesInv, JobInv
  <2>2. StoredInv(g)
    BY <1>4, <1>6, <2>1 DEF FilesInv, StoredInv
  <2>3. \A s \in Sections : s <= g.at => g.backup[s] = g.primary[s]
    BY <1>0, <1>1, <1>4, <1>5, <1>8, <2>1 DEF FilesInv, JobInv, Bundle
  <2>4. g.job = "BackupBeforePromote" => g.staging = Uniform(g.stores)
    BY <1>4, <2>1 DEF FilesInv, JobInv
  <2>5. Copied(g)
    BY <1>0, <1>4, <1>6, <1>8, <2>1, <2>2, <2>3, <2>4 DEF Copied
  <2> QED BY <2>5 DEF g, n
<1>9. CASE f.job \in {"Promote", "Restore"}
  <2>1. g.backup = f.backup /\ g.staging = f.staging
    BY <1>4, <1>9
  <2>2. f.stored # 0 => BackupGood(f)
    BY <1>9 DEF FilesInv, JobInv
  <2>3. g.stored # 0 => BackupGood(g)
    BY <1>4, <1>6, <2>1, <2>2 DEF BackupGood
  <2>4. f.job = "Promote" => n = f.stores
    BY <1>0, <1>1 DEF FilesInv, JobInv, Uniform
  <2>5. f.stored # 0 => n >= f.stored
    BY <1>0, <1>1, <1>9, <2>2, <2>4 DEF BackupGood
  <2>6. \A s \in Sections : g.primary[s] = f.primary[s] \/ g.primary[s] = n
    BY <1>0, <1>4, <1>9 DEF Bundle
  <2>7. StoredInv(g)
    BY <1>4, <2>3, <2>5, <2>6 DEF FilesInv, StoredInv
  <2>8. g.job = "Promote" => \A s \in Sections : s <= g.at => g.primary[s] = g.stores
    BY <1>0, <1>4, <1>5, <1>9, <2>4 DEF FilesInv, JobInv, Bundle
  <2>9. g.job = "Promote" => g.staging = Uniform(g.stores)
    BY <1>4, <2>1 DEF FilesInv, JobInv
  <2>10. Copied(g)
    BY <1>0, <1>4, <1>9, <2>3, <2>7, <2>8, <2>9 DEF Copied
  <2> QED BY <2>10 DEF g, n
<1> QED BY <1>0, <1>7, <1>8, <1>9

LEMMA CompletedKeepsInv ==
    ASSUME NEW g, Copied(g), g.at = SectionCount
    PROVE  FilesInv(Completed(g))
<1>0. /\ g \in Files /\ g.primary \in Bundle /\ g.backup \in Bundle /\ g.staging \in Bundle
      /\ g.stores \in 1 .. MaxStores + 1 /\ g.stored \in Nat /\ g.stored <= g.stores
      /\ g.job \in {"Stage", "BackupBeforePromote", "BackupAtBoot", "Promote", "Restore"}
      /\ StoredInv(g) /\ MaxStores \in Nat
  BY FilesAssumption DEF Copied, Files, JobKind, Deployed
<1>1. \A s \in Sections : s <= g.at
  BY FilesAssumption DEF Copied, Sections
<1>2. CASE g.job = "Stage"
  <2>1. g.staging = Uniform(g.stores)
    BY <1>0, <1>1, <1>2 DEF Copied, Bundle, Uniform
  <2>2. Completed(g) = Staged(g)
    BY <1>2 DEF Completed
  <2>3. CASE ~Loads(g, g.staging)
    BY <1>0, <2>2, <2>3, FinishedKeepsInv DEF Staged, Finish
  <2>4. CASE Loads(g, g.staging) /\ Loads(g, g.primary)
    <3>1. "BackupBeforePromote" \in JobKind
      BY DEF JobKind
    <3> QED BY <1>0, <2>1, <2>2, <2>4, <3>1, StartedKeepsInv DEF Staged
  <2>5. CASE Loads(g, g.staging) /\ ~Loads(g, g.primary)
    <3>1. "Promote" \in JobKind /\ (g.stored # 0 => BackupGood(g))
      BY <1>0, <2>5 DEF JobKind, StoredInv
    <3> QED BY <1>0, <2>1, <2>2, <2>5, <3>1, StartedKeepsInv DEF Staged
  <2> QED BY <2>3, <2>4, <2>5
<1>3. CASE g.job = "BackupBeforePromote"
  <2>1. g.backup = g.primary /\ Loads(g, g.primary)
    BY <1>0, <1>1, <1>3 DEF Copied, Bundle
  <2>2. g.stored # 0 => BackupGood(g)
    BY <1>0, <2>1 DEF BackupGood, StoredInv, Loads, Complete
  <2>3. "Promote" \in JobKind /\ g.staging = Uniform(g.stores)
    BY <1>3 DEF JobKind, Copied
  <2>4. Completed(g) = Start(g, "Promote")
    BY <1>3 DEF Completed
  <2> QED BY <1>0, <2>2, <2>3, <2>4, StartedKeepsInv
<1>4. CASE g.job = "Promote"
  <2> DEFINE h == [g EXCEPT !.stored = g.stores]
  <2>1. Completed(g) = Start(h, "Idle")
    BY <1>4 DEF Completed, Finish
  <2>2. /\ h \in Files /\ h.primary = g.primary /\ h.stores = g.stores /\ h.stored = g.stores
        /\ h.mixtureFits = g.mixtureFits
    BY <1>0 DEF Files
  <2>3. g.primary = Uniform(g.stores)
    BY <1>0, <1>1, <1>4 DEF Copied, Bundle, Uniform
  <2> HIDE DEF h
  <2>4. \A s \in Sections : h.primary[s] = h.stores
    BY <2>2, <2>3 DEF Uniform
  <2>5. Complete(h.primary)
    BY <1>0, <2>2, <2>4 DEF Complete, Missing
  <2>6. Accepted(h, h.primary)
    BY <1>0, <2>2, <2>3 DEF Accepted, Deployed
  <2>7. StoredInv(h)
    BY <1>0, <2>2, <2>4, <2>5, <2>6 DEF StoredInv, Loads
  <2>8. h.stored <= h.stores
    BY <1>0, <2>2
  <2> QED BY <2>1, <2>2, <2>7, <2>8, FinishedKeepsInv
<1>5. CASE g.job \in {"BackupAtBoot", "Restore"}
  <2>1. Completed(g) = Start(g, "Idle")
    BY <1>5 DEF Completed, Finish
  <2> QED BY <1>0, <2>1, FinishedKeepsInv
<1> QED BY <1>0, <1>2, <1>3, <1>4, <1>5

LEMMA FilesStep == ASSUME FilesInv(files), FilesNext PROVE FilesInv(files')
<1>0. /\ files \in Files /\ files.stored <= files.stores /\ StoredInv(files)
      /\ files.at \in Sections /\ MaxStores \in Nat /\ files.stores \in Nat
  BY FilesAssumption DEF FilesInv, Files, Deployed
<1>1. CASE BootFiles
  <2>1. PICK mounted \in BOOLEAN :
          \/ files' = LoadBundles([files EXCEPT !.mounted = mounted])
          \/ files' = Finish([files EXCEPT !.mounted = mounted])
    BY <1>1 DEF BootFiles
  <2> DEFINE f == [files EXCEPT !.mounted = mounted]
  <2>2. /\ f \in Files /\ f.primary = files.primary /\ f.backup = files.backup
        /\ f.stored = files.stored /\ f.stores = files.stores
        /\ f.mixtureFits = files.mixtureFits
    BY <1>0 DEF Files
  <2> HIDE DEF f
  <2>3. f.stored <= f.stores /\ StoredInv(f)
    BY <1>0, <2>2 DEF StoredInv, BackupGood, Loads, Accepted
  <2> QED BY <2>1, <2>2, <2>3, LoadedKeepsInv, FinishedKeepsInv DEF f, Finish
<1>2. CASE StoreConfig
  <2> DEFINE f == [files EXCEPT !.stores = files.stores + 1]
  <2>1. files' = Start(f, "Stage") /\ files.stores + 1 \in Deployed .. MaxStores + 1
    BY <1>0, <1>2 DEF StoreConfig, Deployed, Files
  <2>2. /\ f \in Files /\ f.primary = files.primary /\ f.backup = files.backup
        /\ f.stored = files.stored /\ f.stores = files.stores + 1
        /\ f.mixtureFits = files.mixtureFits
    BY <1>0, <2>1 DEF Files
  <2>3. files.stored \in Nat
    BY <1>0 DEF Files
  <2> HIDE DEF f
  <2>4. f.stored <= f.stores /\ StoredInv(f)
    BY <1>0, <2>2, <2>3 DEF StoredInv, BackupGood, Loads, Accepted
  <2>5. "Stage" \in JobKind
    BY DEF JobKind
  <2> QED BY <2>1, <2>2, <2>4, <2>5, StartedKeepsInv
<1>3. CASE CopySection
  <2> DEFINE g == WithSection(files, SourceSection(files))
  <2>1. files.job \notin {"Off", "Idle"} /\ SourceSection(files) # Missing
    BY <1>3 DEF CopySection, Busy
  <2>2. files' = IF files.at < SectionCount THEN [g EXCEPT !.at = @ + 1] ELSE Completed(g)
    BY <1>3 DEF CopySection
  <2>3. Copied(g)
    BY <2>1, SectionCopied
  <2>4. /\ files.at \in Nat /\ SectionCount \in Nat /\ files.at <= SectionCount
        /\ g.at = files.at
    <3>1. SourceSection(files) \in 0 .. MaxStores + 1
      <4>1. files.job \in {"Stage", "BackupBeforePromote", "BackupAtBoot", "Promote", "Restore"}
        BY <1>0, <2>1 DEF Files, JobKind
      <4>2. /\ files.primary[files.at] \in 0 .. MaxStores + 1
            /\ files.staging[files.at] \in 0 .. MaxStores + 1
            /\ files.backup[files.at] \in 0 .. MaxStores + 1
            /\ files.stores \in 0 .. MaxStores + 1
        BY <1>0 DEF Files, Bundle, Deployed
      <4> QED BY <4>1, <4>2 DEF SourceSection
    <3>2. g.at = files.at
      BY <1>0, <2>1, <3>1, SectionWritten
    <3> QED BY <1>0, <3>2, FilesAssumption DEF Sections
  <2> HIDE DEF g
  <2>5. CASE files.at < SectionCount
    <3> DEFINE h == [g EXCEPT !.at = g.at + 1]
    <3>1. files' = h /\ g.at + 1 \in Sections
      BY <2>2, <2>4, <2>5 DEF Sections
    <3>2. /\ h \in Files /\ h.primary = g.primary /\ h.backup = g.backup
          /\ h.staging = g.staging /\ h.job = g.job /\ h.at = g.at + 1 /\ h.stores = g.stores
          /\ h.stored = g.stored /\ h.mixtureFits = g.mixtureFits
      BY <2>3, <3>1 DEF Copied, Files
    <3> HIDE DEF h
    <3>3. \A s \in Sections : s < h.at => s <= g.at
      BY <2>4, <3>2 DEF Sections
    <3>4. FilesInv(h)
      BY <2>3, <3>2, <3>3
         DEF FilesInv, Copied, JobInv, StoredInv, BackupGood, Loads, Accepted
    <3> QED BY <3>1, <3>4
  <2>6. CASE ~(files.at < SectionCount)
    BY <2>2, <2>3, <2>4, <2>6, CompletedKeepsInv
  <2> QED BY <2>5, <2>6
<1>4. CASE FailSection
  BY <1>0, <1>4, SectionLost, FinishedKeepsInv DEF FailSection, Busy, Finish
<1>5. CASE CutPower
  BY <1>0, <1>5, SectionLost, FinishedKeepsInv DEF CutPower, Busy
<1> QED BY <1>1, <1>2, <1>3, <1>4, <1>5 DEF FilesNext

LEMMA BundleHasSurvived == FilesInv(files) => BundleSurvives
<1> SUFFICES ASSUME FilesInv(files), files.stored # 0, NEW s \in Sections
             PROVE  BootBundle(files)[s] >= files.stored
  BY DEF BundleSurvives
<1>1. CASE Loads(files, files.primary)
  BY <1>1 DEF FilesInv, StoredInv, BootBundle, Loads, Complete
<1>2. CASE ~Loads(files, files.primary)
  BY <1>2 DEF FilesInv, StoredInv, BootBundle, BackupGood
<1> QED BY <1>1, <1>2

----------------------------------------------------------------------------
(* The theorems. *)

StorageInv == StreamInv /\ CountInv(counting) /\ FilesInv(files)

\* A service that keeps data, on the bench or beside it, keeps its invariant.
THEOREM StorageInvariance == Spec => []StorageInv
<1>1. Init => StorageInv
  <2> SUFFICES ASSUME Init PROVE StorageInv
    OBVIOUS
  <2>1. StreamInv
    BY StreamStarts DEF Init
  <2>2. CountInv(counting)
    BY CountingStarts DEF Init, CountingInit
  <2>3. FilesInv(files)
    BY FilesStart DEF Init, FilesInit
  <2> QED BY <2>1, <2>2, <2>3 DEF StorageInv
<1>2. StorageInv /\ [Next]_vars => StorageInv'
  <2> SUFFICES ASSUME StorageInv, [Next]_vars PROVE StorageInv'
    OBVIOUS
  <2>1. StreamNext \/ stream' = stream
    BY DEF Next, vars
  <2>2. CountingNext \/ counting' = counting
    BY DEF Next, vars
  <2>3. FilesNext \/ files' = files
    BY DEF Next, vars
  <2>4. StreamInv'
    BY <2>1, StreamStep DEF StorageInv, StreamInv
  <2>5. CountInv(counting')
    BY <2>2, CountingStep DEF StorageInv
  <2>6. FilesInv(files')
    BY <2>3, FilesStep DEF StorageInv
  <2> QED BY <2>4, <2>5, <2>6 DEF StorageInv
<1> QED BY <1>1, <1>2, PTL DEF Spec

\* A client of the event stream is sent every event from its opening on or is told of a
\* gap, and a session has one stream, for every capacity of the journal and every number
\* of clients and sessions (publishEvents, onWebSocketOpen, WebEventJournal::read).
THEOREM ClientsMissNothingUnawares == Spec => []StreamFaithful
<1>1. StorageInv => StreamFaithful
  BY StreamIsFaithful DEF StorageInv
<1> QED BY <1>1, StorageInvariance, PTL

\* Counts that were reported as stored are found by the next boot, and so are clean ones,
\* for every limit of the counters and of the generation (persistDiagnosticCounters,
\* readDiagnosticSlot, beginDiagnosticCounters).
THEOREM ReportedCountsAreKept == Spec => []CountsKept
<1>1. StorageInv => CountsKept
  BY CountsAreKept DEF StorageInv
<1> QED BY <1>1, StorageInvariance, PTL

\* After a store-config that reported success a bundle at least as new loads at every
\* moment, for every number of sections and of later store-configs
\* (LittleFsConfigurationSource::store and load).
THEOREM StoredBundlesSurvive == Spec => []BundleSurvives
<1>1. StorageInv => BundleSurvives
  BY BundleHasSurvived DEF StorageInv
<1> QED BY <1>1, StorageInvariance, PTL
=============================================================================
