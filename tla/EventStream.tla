----------------------------- MODULE EventStream -----------------------------
(***************************************************************************)
(* The WebSocket event stream: the loop numbers events in WebEventJournal, *)
(* which keeps the last JournalCapacity, and sends each client one event   *)
(* per update; the HTTPS task opens and closes clients in the same table,  *)
(* without a lock.  sendMessage blocks, so the two meet in the middle of   *)
(* publishEvents.                                                          *)
(***************************************************************************)
EXTENDS Integers

CONSTANTS
    JournalCapacity, \* WebEventJournal::capacity
    ClientSlots,     \* maximumWebSocketClients, of clients_ and pendingAuthorizations_
    StreamSessions,
    MaxEvents,       \* bound on the sequence, which never wraps in a device's life
    NoClient

ASSUME EventStreamAssumption ==
    /\ JournalCapacity \in Nat \ {0}
    /\ MaxEvents \in Nat

VARIABLE stream

\* next is nextEventSequence.  due is the sequence the client can still account for,
\* and displaced tells that the client got a slot the loop was sending from: neither
\* is known to the code.
Client ==
    [session : StreamSessions, next : 0 .. MaxEvents + 2, due : 1 .. MaxEvents + 1,
     displaced : BOOLEAN]

Stream ==
    [latest : 0 .. MaxEvents,                               \* latestSequence_
     events : [0 .. JournalCapacity - 1 -> 0 .. MaxEvents], \* sequences, 0: never used
     clients : [ClientSlots -> Client \cup {NoClient}],
     pending : [ClientSlots -> StreamSessions \cup {NoClient}],
     \* where publishEvents is, and what it read
     sending : [slot : ClientSlots, result : {"Gap", "Available"}] \cup {NoClient}]

ASSUME NoClientIsNoMessage == NoClient \notin [slot : ClientSlots, result : {"Gap", "Available"}]

SendingFrom(k) == stream.sending # NoClient /\ stream.sending.slot = k

----------------------------------------------------------------------------
(* WebEventJournal. *)

SlotOf(sequence) == (sequence - 1) % JournalCapacity

OldestSequence(s) == IF s.latest < JournalCapacity THEN 1 ELSE s.latest - JournalCapacity + 1

ReadResult(s, sequence) ==
    CASE sequence = 0 \/ sequence > s.latest -> "NotYetAvailable"
      [] sequence \in 1 .. s.latest
            /\ (sequence < OldestSequence(s) \/ s.events[SlotOf(sequence)] # sequence) -> "Gap"
      [] OTHER -> "Available"

\* processRelayCommand, updateDiagnostics or publishWebStateEvents.  The loop does not
\* publish while it sends.
PublishEvent ==
    /\ stream.sending = NoClient
    /\ stream.latest < MaxEvents
    /\ stream' = [stream EXCEPT !.latest = @ + 1,
                                !.events[SlotOf(stream.latest + 1)] = stream.latest + 1]

----------------------------------------------------------------------------
(* The HTTPS task. *)

\* authorizeWebSocket: one stream per session, open or being opened.
AuthorizeStream(session) ==
    /\ \A k \in ClientSlots :
         /\ stream.pending[k] # session
         /\ stream.clients[k] # NoClient => stream.clients[k].session # session
    /\ \E k \in ClientSlots :
         /\ stream.pending[k] = NoClient
         /\ stream' = [stream EXCEPT !.pending[k] = session]

\* onWebSocketOpen; the handshake is refused when every client slot is taken.
OpenStream(p) ==
    /\ stream.pending[p] # NoClient
    /\ \/ /\ \A k \in ClientSlots : stream.clients[k] # NoClient
          /\ stream' = [stream EXCEPT !.pending[p] = NoClient]
       \/ \E k \in ClientSlots :
            /\ stream.clients[k] = NoClient
            /\ stream' = [stream EXCEPT
                 !.pending[p] = NoClient,
                 !.clients[k] = [session |-> stream.pending[p], next |-> stream.latest + 1,
                                 due |-> stream.latest + 1, displaced |-> SendingFrom(k)]]

\* onWebSocketClose.
CloseStream(k) ==
    /\ stream.clients[k] # NoClient
    /\ stream' = [stream EXCEPT !.clients[k] = NoClient]

----------------------------------------------------------------------------
(* The loop: update and publishEvents. *)

\* An authorization that no handshake followed for ten seconds.
ExpireAuthorization(p) ==
    /\ stream.sending = NoClient /\ stream.pending[p] # NoClient
    /\ stream' = [stream EXCEPT !.pending[p] = NoClient]

\* Idle for clientIdleTimeoutMs, or active later than the loop's clock.
CloseIdle(k) == stream.sending = NoClient /\ CloseStream(k)

StartSending(k) ==
    /\ stream.sending = NoClient /\ stream.clients[k] # NoClient
    /\ \E result \in {ReadResult(stream, stream.clients[k].next)} \ {"NotYetAvailable"} :
         stream' = [stream EXCEPT
            !.sending = [slot |-> k, result |-> result],
            \* The message is on its way; a gap tells the client to fetch everything.
            !.clients[k].due = IF result = "Gap" THEN stream.latest + 1
                               ELSE stream.events[SlotOf(stream.clients[k].next)] + 1]

\* Slip: after a gap the stream goes on where it was.
ResumeAnyhow(client) == client.next + 1

\* Where the stream of the slot goes on, whoever owns the slot by now.
ResumeAt(client) ==
    IF stream.sending.result = "Gap" THEN stream.latest + 1 ELSE client.next + 1

\* sendMessage returns: the slot's client moves on, or is closed.
EndSending ==
    /\ stream.sending # NoClient
    /\ LET k == stream.sending.slot
       IN  \/ /\ stream.clients[k] = NoClient
              /\ stream' = [stream EXCEPT !.sending = NoClient]
           \/ /\ stream.clients[k] # NoClient
              /\ stream' = [stream EXCEPT !.sending = NoClient,
                                          !.clients[k].next = ResumeAt(stream.clients[k])]
           \/ stream' = [stream EXCEPT !.sending = NoClient, !.clients[k] = NoClient]

----------------------------------------------------------------------------
StreamInit ==
    stream = [latest |-> 0, events |-> [i \in 0 .. JournalCapacity - 1 |-> 0],
              clients |-> [k \in ClientSlots |-> NoClient],
              pending |-> [k \in ClientSlots |-> NoClient], sending |-> NoClient]

StreamNext ==
    \/ PublishEvent
    \/ \E session \in StreamSessions : AuthorizeStream(session)
    \/ \E k \in ClientSlots :
         OpenStream(k) \/ CloseStream(k) \/ ExpireAuthorization(k) \/ CloseIdle(k) \/ StartSending(k)
    \/ EndSending

----------------------------------------------------------------------------
\* The stream has its type.
StreamTypeOK == stream \in Stream

\* A client is sent every event from the one after its opening on, in order, or is
\* told that it missed some, however slow it is and however the HTTPS task opens and
\* closes clients meanwhile; and a session has one stream.  Excepted is a client that
\* got the slot of another one which the loop was still sending to.
StreamFaithful ==
    /\ \A k \in ClientSlots :
         stream.clients[k] # NoClient /\ ~SendingFrom(k) =>
            stream.clients[k].displaced \/ stream.clients[k].next = stream.clients[k].due
    /\ \A j, k \in ClientSlots :
         stream.clients[j] # NoClient /\ stream.clients[k] # NoClient /\ j # k =>
            stream.clients[j].session # stream.clients[k].session
=============================================================================
