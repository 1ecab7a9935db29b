---------------------------- MODULE WebCommands ----------------------------
(***************************************************************************)
(* A relay command from the web, across two tasks.  The HTTPS server task  *)
(* tracks the command (WebCommandTracker), queues it (WebRequestQueue) and *)
(* answers; the application loop takes it from there to the relay command  *)
(* queue, executes it and completes the tracked command.  Every access to  *)
(* the tracker and to the request queue holds that object's mutex, and the *)
(* other task may run between any two of them.                             *)
(***************************************************************************)
EXTENDS Naturals, Sequences, FiniteSets

CONSTANTS
    Keys,             \* a session and its Idempotency-Key, that is, one deliberate command
    Ids,              \* correlation ids; esp_random is taken never to repeat a live one
    TrackerCapacity,  \* WebCommandTracker::capacity
    RequestCapacity,  \* WebRequestQueue::capacity
    ResultCapacity,   \* WebRequestQueue::resultCapacity
    RelayCapacity,    \* what RelayCommandQueue grants to ordinary commands
    Actions,          \* the actions commands ask for
    MaxSequence,      \* bound on the transitions explored
    None

ASSUME WebConstants ==
    /\ {TrackerCapacity, RequestCapacity, ResultCapacity, RelayCapacity} \subseteq Nat \ {0}
    /\ Actions \subseteq {"SetOff", "SetOn", "Toggle"}
    /\ MaxSequence \in Nat
    /\ None \notin Keys \cup Ids

Body == [action : Actions, expected : 0 .. MaxSequence]
Request == [key : Keys, id : Ids, body : Body]
\* A queued relay command; other sources have no key, and toggle.
Queued == [key : Keys \cup {None}, id : Ids \cup {None}, action : Actions \cup {"Toggle"}]
CommandStatus == {"Queued", "Applied", "Idempotent", "Rejected"}
OperationStatus == {"Pending", "Applied", "Rejected", "Unavailable"}
Tracked == [id : Ids, body : Body, status : CommandStatus]

ASSUME NoneIsNone == None \notin Tracked \cup Request \cup OperationStatus

VARIABLES
    tracked,     \* WebCommandTracker: the record of each key, None when there is none
    requests,    \* WebRequestQueue: the queue
    results,     \* WebRequestQueue: the operation result of each id, or None
    http,        \* HTTPS task: the request whose handler is running, and its next step
    loop,        \* application loop: where in update it is, what it holds and how that went
    relayQueue,  \* RelayCommandQueue
    relay,       \* one channel: applied state, transition sequence, safety lockout, fault
    mode,        \* "Serving", "Stopped" (web server stopped) or "Halted" (loop gave up)
    outcome      \* history: what became of each key's command on the relay

vars == <<tracked, requests, results, http, loop, relayQueue, relay, mode, outcome>>

AtRest == [at |-> "Idle", request |-> None]
Ready == [at |-> "Idle", held |-> None, status |-> None]

----------------------------------------------------------------------------
(* The HTTPS task: submitRelayCommand, and onWebSocketFrame for the same command. *)

ActiveKeys == {k \in Keys : tracked[k] # None}

LiveIds ==
    {tracked[k].id : k \in ActiveKeys} \cup {i \in Ids : results[i] # None}
      \cup {relayQueue[i].id : i \in DOMAIN relayQueue}

\* Slip: a retry of a known command is tracked and queued again.
BeginAgain(k, body) ==
    /\ mode # "Stopped"
    /\ http = AtRest
    /\ Cardinality(ActiveKeys \cup {k}) <= TrackerCapacity
    /\ \E id \in Ids \ LiveIds :
          /\ tracked' = [tracked EXCEPT ![k] = [id |-> id, body |-> body, status |-> "Queued"]]
          /\ http' = [at |-> "Enqueue", request |-> [key |-> k, id |-> id, body |-> body]]
    /\ UNCHANGED <<requests, results, loop, relayQueue, relay, mode, outcome>>

\* WebCommandTracker::begin.  A retry is answered from the record, another body under
\* the same key and a full tracker are refused; none of these changes anything.
Begin(k, body) ==
    /\ mode # "Stopped"
    /\ http = AtRest
    /\ tracked[k] = None
    /\ Cardinality(ActiveKeys) < TrackerCapacity
    /\ \E id \in Ids \ LiveIds :
          /\ tracked' = [tracked EXCEPT ![k] = [id |-> id, body |-> body, status |-> "Queued"]]
          /\ http' = [at |-> "Enqueue", request |-> [key |-> k, id |-> id, body |-> body]]
    /\ outcome' = [outcome EXCEPT ![k] = "None"]
    /\ UNCHANGED <<requests, results, loop, relayQueue, relay, mode>>

\* Slip: the result slot is taken before the queue is found to be full.
EnqueueLeaksSlot ==
    /\ http.at = "Enqueue"
    /\ LET r == http.request
           room == Len(requests) < RequestCapacity
       IN  /\ results' = [results EXCEPT ![r.id] = "Pending"]
           /\ requests' = IF room THEN Append(requests, r) ELSE requests
           /\ http' = IF room THEN AtRest ELSE [http EXCEPT !.at = "Reject"]
    /\ UNCHANGED <<tracked, loop, relayQueue, relay, mode, outcome>>

\* WebRequestQueue::enqueue
Enqueue ==
    /\ http.at = "Enqueue"
    /\ LET r == http.request
           full == \/ Len(requests) >= RequestCapacity
                   \/ Cardinality({i \in Ids : results[i] # None}) >= ResultCapacity
       IN  \/ /\ full
              /\ http' = [http EXCEPT !.at = "Reject"]
              /\ UNCHANGED <<requests, results>>
           \/ /\ ~full
              /\ requests' = Append(requests, r)
              /\ results' = [results EXCEPT ![r.id] = "Pending"]
              /\ http' = AtRest
    /\ UNCHANGED <<tracked, loop, relayQueue, relay, mode, outcome>>

\* WebCommandTracker::reject; nothing happens when no record has the id.
Rejected(id) ==
    [k \in Keys |-> IF tracked[k] # None /\ tracked[k].id = id
                    THEN [tracked[k] EXCEPT !.status = "Rejected"] ELSE tracked[k]]

\* The handler answers 429 and rejects the record it began.
Reject ==
    /\ http.at = "Reject"
    /\ tracked' = Rejected(http.request.id)
    /\ http' = AtRest
    /\ UNCHANGED <<requests, results, loop, relayQueue, relay, mode, outcome>>

----------------------------------------------------------------------------
(* The application loop. *)

\* processWebRequest: take one request ...
TakeRequest ==
    /\ mode # "Halted" /\ loop.at = "Idle" /\ requests # <<>>
    /\ loop' = [at |-> "Submit", held |-> Head(requests), status |-> None]
    /\ requests' = Tail(requests)
    /\ UNCHANGED <<tracked, results, http, relayQueue, relay, mode, outcome>>

\* CommandArbiter::evaluate: a channel under lockout may only be switched off.
LockedOut(action) == relay.lockout /\ action # "SetOff"

Enter(r) ==
    /\ ~LockedOut(r.body.action) /\ Len(relayQueue) < RelayCapacity
    /\ relayQueue' = Append(relayQueue,
                            [key |-> r.key, id |-> r.id, action |-> r.body.action])
    /\ loop' = [loop EXCEPT !.at = "Report", !.status = "Applied"]
    /\ UNCHANGED tracked

Refuse(r) ==
    /\ \/ /\ LockedOut(r.body.action)
          /\ loop' = [loop EXCEPT !.at = "Report", !.status = "Rejected"]
       \/ /\ ~LockedOut(r.body.action) /\ Len(relayQueue) >= RelayCapacity
          /\ loop' = [loop EXCEPT !.at = "Report", !.status = "Unavailable"]
    /\ UNCHANGED relayQueue

\* Slip: a command the switching policy refuses stays "queued".
SubmitDropsRefused ==
    /\ loop.at = "Submit"
    /\ Enter(loop.held) \/ (Refuse(loop.held) /\ UNCHANGED tracked)
    /\ UNCHANGED <<requests, results, http, relay, mode, outcome>>

\* ... hand it to SwitchingPolicyService::requestChannel, rejecting the record if refused ...
Submit ==
    /\ loop.at = "Submit"
    /\ Enter(loop.held) \/ (Refuse(loop.held) /\ tracked' = Rejected(loop.held.id))
    /\ UNCHANGED <<requests, results, http, relay, mode, outcome>>

\* ... and complete the operation result.
Report ==
    /\ loop.at = "Report"
    /\ results' = [results EXCEPT ![loop.held.id] = loop.status]
    /\ loop' = Ready
    /\ UNCHANGED <<tracked, requests, http, relayQueue, relay, mode, outcome>>

Desired(action) ==
    IF action = "SetOn" \/ (action = "Toggle" /\ relay.applied = "Off") THEN "On" ELSE "Off"

SwitchedTo(state) ==
    [relay EXCEPT !.applied = state, !.seq = IF state = relay.applied THEN @ ELSE @ + 1]

\* A write of the output that fails latches a fault, and the channel is perhaps forced off.
WriteFailed ==
    \E forced \in BOOLEAN :
        /\ forced /\ relay.applied = "On" => relay.seq < MaxSequence
        /\ relay' = [(IF forced THEN SwitchedTo("Off") ELSE relay) EXCEPT !.fault = TRUE]

\* processRelayCommand: RelayCommandService::executeBatch refuses to switch on a channel
\* under lockout or with a fault, switches it, or fails to ...
Execute ==
    /\ mode # "Halted" /\ loop.at = "Idle" /\ relayQueue # <<>>
    /\ LET c == Head(relayQueue)
           permitted == c.action = "SetOff" \/ ~(relay.lockout \/ relay.fault)
           changes == Desired(c.action) # relay.applied
           Done(status, what) ==
             /\ loop' = [at |-> "Complete", held |-> c, status |-> status]
             /\ outcome' = [k \in Keys |-> IF k # c.key THEN outcome[k]
                               ELSE IF outcome[k] = "None" THEN what ELSE "Twice"]
       IN  \/ /\ ~permitted
              /\ Done("Rejected", "Rejected")
              /\ UNCHANGED relay
           \/ /\ permitted
              /\ changes => relay.seq < MaxSequence
              /\ relay' = SwitchedTo(Desired(c.action))
              /\ Done("Accepted", IF changes THEN "Changed" ELSE "Unchanged")
           \/ /\ permitted /\ changes
              /\ WriteFailed
              /\ Done("Rejected", "Rejected")
    /\ relayQueue' = Tail(relayQueue)
    /\ UNCHANGED <<tracked, requests, results, http, mode>>

\* Slip: success is reported as it was asked for, not as it went.
CompleteBlindly ==
    /\ loop.at = "Complete"
    /\ tracked' = [k \in Keys |->
          IF tracked[k] = None \/ tracked[k].id # loop.held.id THEN tracked[k]
          ELSE [tracked[k] EXCEPT !.status = "Applied"]]
    /\ loop' = Ready
    /\ UNCHANGED <<requests, results, http, relayQueue, relay, mode, outcome>>

\* ... and WebCommandTracker::complete records the result under the command's id.
Complete ==
    /\ loop.at = "Complete"
    /\ tracked' = [k \in Keys |->
          IF tracked[k] = None \/ tracked[k].id # loop.held.id THEN tracked[k]
          ELSE [tracked[k] EXCEPT !.status =
                  IF loop.status = "Rejected" THEN "Rejected"
                  ELSE IF tracked[k].body.expected = relay.seq THEN "Idempotent"
                  ELSE "Applied"]]
    /\ loop' = Ready
    /\ UNCHANGED <<requests, results, http, relayQueue, relay, mode, outcome>>

\* Slip: retention counts from creation, so that a command still queued expires too.
ExpireTrackedEarly ==
    /\ mode # "Halted" /\ loop.at = "Idle"
    /\ \E k \in ActiveKeys : tracked' = [tracked EXCEPT ![k] = None]
    /\ UNCHANGED <<requests, results, http, loop, relayQueue, relay, mode, outcome>>

\* WebCommandTracker::expire, once the retention of a completed command has elapsed;
\* begin calls it as well, which adds no other step.
ExpireTracked ==
    /\ \E k \in ActiveKeys :
          /\ tracked[k].status # "Queued"
          /\ tracked' = [tracked EXCEPT ![k] = None]
    /\ UNCHANGED <<requests, results, http, loop, relayQueue, relay, mode, outcome>>

\* WebRequestQueue::expire
ExpireResult ==
    /\ mode # "Halted" /\ loop.at = "Idle"
    /\ \E i \in Ids :
          /\ results[i] \notin {None, "Pending"}
          /\ results' = [results EXCEPT ![i] = None]
    /\ UNCHANGED <<tracked, requests, http, loop, relayQueue, relay, mode, outcome>>

\* Modbus, KNX, the CLI, a timer or a scene queues a command of its own.
OtherSource ==
    /\ mode # "Halted" /\ loop.at = "Idle"
    /\ ~LockedOut("Toggle") /\ Len(relayQueue) < RelayCapacity
    /\ relayQueue' = Append(relayQueue, [key |-> None, id |-> None, action |-> "Toggle"])
    /\ UNCHANGED <<tracked, requests, results, http, loop, relay, mode, outcome>>

\* setSafetyLockout(channel, true): accepted when the channel is off already or could be
\* switched off by the first write.
LockOutAccepted ==
    /\ relay.applied = "On" => relay.seq < MaxSequence
    /\ relay' = [SwitchedTo("Off") EXCEPT !.lockout = TRUE]

LockOutRefused ==
    /\ relay.applied = "On"
    /\ \E forced \in BOOLEAN :
        /\ forced => relay.seq < MaxSequence
        /\ relay' = [(IF forced THEN SwitchedTo("Off") ELSE relay)
                       EXCEPT !.lockout = TRUE, !.fault = TRUE]

\* performFactoryReset locks the channels out; only when every lockout was accepted it
\* clears the relay queue and stops the server.  It returns to the loop when a lockout,
\* of this channel or of another, is refused, when erasing failed, and when a restart is due.
FactoryReset ==
    /\ mode # "Halted" /\ loop.at = "Idle" /\ http = AtRest
    /\ \/ LockOutAccepted /\ relayQueue' = <<>> /\ mode' = "Stopped"
       \/ (LockOutAccepted \/ LockOutRefused) /\ UNCHANGED <<relayQueue, mode>>
    /\ UNCHANGED <<tracked, requests, results, http, loop, outcome>>

\* handleWatchdogFailure ends the loop and leaves the server running; once the server
\* has stopped it would only end everything.
WatchdogFailure ==
    /\ mode = "Serving" /\ loop.at = "Idle"
    /\ LockOutAccepted \/ LockOutRefused
    /\ relayQueue' = <<>>
    /\ mode' = "Halted"
    /\ UNCHANGED <<tracked, requests, results, http, loop, outcome>>

\* After Application::initialize, which starts the server before it applies the restore
\* plan: when the plan fails the loop never runs.
Init ==
    /\ tracked = [k \in Keys |-> None]
    /\ requests = <<>>
    /\ results = [i \in Ids |-> None]
    /\ http = AtRest
    /\ loop = Ready
    /\ relayQueue = <<>>
    /\ relay = [applied |-> "Off", seq |-> 0, lockout |-> FALSE, fault |-> FALSE]
    /\ mode \in {"Serving", "Halted"}
    /\ outcome = [k \in Keys |-> "None"]

\* A client names the transition sequence of a snapshot it has read.
HttpTask ==
    \/ \E k \in Keys, body \in Body : body.expected <= relay.seq /\ Begin(k, body)
    \/ Enqueue
    \/ Reject

LoopStep == TakeRequest \/ Submit \/ Report \/ Execute \/ Complete

Next ==
    \/ HttpTask
    \/ LoopStep
    \/ ExpireTracked
    \/ ExpireResult
    \/ OtherSource
    \/ FactoryReset
    \/ WatchdogFailure

\* A started handler runs on, update is called for ever, takes a request on every call
\* and a relay command whenever its interval has elapsed.
Fairness ==
    /\ WF_vars(Enqueue \/ Reject)
    /\ WF_vars(Submit \/ Report \/ Complete)
    /\ SF_vars(TakeRequest)
    /\ SF_vars(Execute)

Spec == Init /\ [][Next]_vars /\ Fairness

----------------------------------------------------------------------------
(* Properties. *)

TypeOK ==
    /\ tracked \in [Keys -> Tracked \cup {None}]
    /\ requests \in Seq(Request)
    /\ results \in [Ids -> OperationStatus \cup {None}]
    /\ http \in {AtRest} \cup [at : {"Enqueue", "Reject"}, request : Request]
    /\ loop \in {Ready}
                 \cup [at : {"Submit"}, held : Request, status : {None}]
                 \cup [at : {"Report"}, held : Request,
                       status : {"Applied", "Rejected", "Unavailable"}]
                 \cup [at : {"Complete"}, held : Queued, status : {"Accepted", "Rejected"}]
    /\ relayQueue \in Seq(Queued)
    /\ relay \in [applied : {"Off", "On"}, seq : 0 .. MaxSequence,
                  lockout : BOOLEAN, fault : BOOLEAN]
    /\ mode \in {"Serving", "Stopped", "Halted"}
    /\ outcome \in [Keys -> {"None", "Changed", "Unchanged", "Rejected"}]

Completing == loop.at = "Complete"

\* How many times the command of a key is on its way to the relay.
OnItsWay(k) ==
    Cardinality({i \in DOMAIN requests : requests[i].key = k})
      + Cardinality({i \in DOMAIN relayQueue : relayQueue[i].key = k})
      + (IF http # AtRest /\ http.request.key = k THEN 1 ELSE 0)
      + (IF loop.at = "Submit" /\ loop.held.key = k THEN 1 ELSE 0)

\* A deliberate command reaches the relay at most once, however often and whenever it is
\* retried: while its record is retained it never runs a second time, and no copy of
\* it is left in a queue when the record expires (begin, expire).
AtMostOnce ==
    \A k \in Keys :
        OnItsWay(k) + (IF outcome[k] = "None" THEN 0 ELSE 1) <= 1

\* What the record of a command says is what became of it on the relay: a rejected
\* command never runs later, an idempotent one changed nothing, a queued one is
\* really under way as long as the server runs.
RecordTruthful ==
    \A k \in ActiveKeys :
        LET status == tracked[k].status
            completing == Completing /\ loop.held.key = k
        IN  /\ status = "Applied" => outcome[k] \in {"Changed", "Unchanged"}
            /\ status = "Idempotent" => outcome[k] = "Unchanged"
            /\ status = "Rejected" => outcome[k] \in {"None", "Rejected"} /\ OnItsWay(k) = 0
            /\ status = "Queued" /\ mode = "Serving" => OnItsWay(k) = 1 \/ completing

\* A pending operation is one the loop still has to finish: no result slot leaks,
\* whichever of the two capacities is exhausted (enqueue, complete).
NoResultLeak ==
    {i \in Ids : results[i] = "Pending"}
      = {requests[i].id : i \in DOMAIN requests}
          \cup (IF loop.at \in {"Submit", "Report"} THEN {loop.held.id} ELSE {})

\* Every queued command gets a result unless the loop or the server stops first.
CommandsAnswered ==
    \A k \in Keys :
        (tracked[k] # None /\ tracked[k].status = "Queued")
          ~> (tracked[k] = None \/ tracked[k].status # "Queued" \/ mode # "Serving")

\* docs/protocols/web-api.md: expectedSequence prevents a stale relay write.  It is only
\* compared after the command has run, to tell "idempotent" from "applied".
StaleWritePrevented ==
    [][ \A k \in Keys : outcome[k] = "None" /\ outcome'[k] = "Changed"
          => tracked[k].body.expected = relay.seq ]_vars

============================================================================
