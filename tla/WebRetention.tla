---------------------------- MODULE WebRetention ----------------------------
(***************************************************************************)
(* How long WebCommandTracker keeps the result of a completed command.     *)
(* Both tasks complete and expire records, each by the millis() it read    *)
(* when its update or its handler began, and the ages are differences of   *)
(* unsigned 32-bit times.  WebCommands leaves time out; this module has    *)
(* nothing else.                                                           *)
(***************************************************************************)
EXTENDS Integers

CONSTANTS
    Keys,       \* commands, by session and Idempotency-Key
    Retention,  \* WebCommandTracker::retentionMs
    ClockSize,  \* 2^32: where millis() wraps, well above Retention
    MaxLag,     \* bound on how long a task works with the time it read, below Retention
    None

Times == 0 .. (ClockSize - 1)
Elapsed(from, to) == (to - from) % ClockSize

VARIABLES
    now,      \* millis()
    record,   \* per key: [status |-> "Queued"], a completed record, or None
    loop,     \* the time the running Application::update works with, or None
    http,     \* the running handler: its step, its key and its time
    age       \* history: time since the record of a key was completed, capped

vars == <<now, record, loop, http, age>>

Queued == [status |-> "Queued", completedAt |-> 0]
Completed(at) == [status |-> "Completed", completedAt |-> at]
NoHandler == [at |-> "Idle", key |-> None, time |-> 0]

\* WebCommandTracker::expireUnlocked; completedAt 0 means not completed.
Expired(r, time) ==
    /\ r # None
    /\ r.completedAt # 0
    /\ Elapsed(r.completedAt, time) >= Retention

AfterExpiry(time) ==
    [k \in Keys |-> IF Expired(record[k], time) THEN None ELSE record[k]]

----------------------------------------------------------------------------
(* The application loop: update(millis()). *)

UpdateBegins ==
    /\ loop = None
    /\ loop' = now
    /\ UNCHANGED <<now, record, http, age>>

\* processWebRequest rejects a command that was queued, or processRelayCommand
\* completes it.
Complete(k) ==
    /\ loop # None
    /\ record[k] = Queued
    /\ http.key = k => http.at = "Begin"
    /\ record' = [record EXCEPT ![k] = Completed(loop)]
    /\ age' = [age EXCEPT ![k] = 0]
    /\ UNCHANGED <<now, loop, http>>

\* expire, after which the update does not come back to the tracker.
Expire ==
    /\ loop # None
    /\ record' = AfterExpiry(loop)
    /\ loop' = None
    /\ UNCHANGED <<now, http, age>>

----------------------------------------------------------------------------
(* The HTTPS task: submitRelayCommand or onWebSocketFrame. *)

HandlerBegins(k) ==
    /\ http = NoHandler
    /\ http' = [at |-> "Begin", key |-> k, time |-> now]
    /\ UNCHANGED <<now, record, loop, age>>

\* begin expires records, then answers a known key from its record.
Begin ==
    /\ http.at = "Begin"
    /\ LET kept == AfterExpiry(http.time)
       IN  IF kept[http.key] = None
           THEN /\ record' = [kept EXCEPT ![http.key] = Queued]
                /\ http' = [http EXCEPT !.at = "Enqueue"]
           ELSE /\ record' = kept
                /\ http' = NoHandler
    /\ UNCHANGED <<now, loop, age>>

\* The request queue takes the request, or is full; submitRelayCommand read
\* millis() again, onWebSocketFrame goes on with its first reading.
Enqueue ==
    /\ http.at = "Enqueue"
    /\ \/ http' = NoHandler
       \/ \E time \in {http.time, now} : http' = [http EXCEPT !.at = "Reject", !.time = time]
    /\ UNCHANGED <<now, record, loop, age>>

Reject ==
    /\ http.at = "Reject"
    /\ record' = [record EXCEPT ![http.key] = Completed(http.time)]
    /\ age' = [age EXCEPT ![http.key] = 0]
    /\ http' = NoHandler
    /\ UNCHANGED <<now, loop>>

Tick ==
    /\ loop # None => Elapsed(loop, now) < MaxLag
    /\ http # NoHandler => Elapsed(http.time, now) < MaxLag
    /\ now' = (now + 1) % ClockSize
    /\ age' = [k \in Keys |-> IF age[k] < Retention THEN age[k] + 1 ELSE age[k]]
    /\ UNCHANGED <<record, loop, http>>

Init ==
    /\ now \in Times
    /\ record = [k \in Keys |-> None]
    /\ loop = None
    /\ http = NoHandler
    /\ age = [k \in Keys |-> 0]

Next ==
    \/ UpdateBegins
    \/ \E k \in Keys : Complete(k) \/ HandlerBegins(k)
    \/ Expire
    \/ Begin
    \/ Enqueue
    \/ Reject
    \/ Tick

Spec == Init /\ [][Next]_vars

----------------------------------------------------------------------------

\* docs/protocols/web-api.md: relay command results are retained for 60 seconds.  A
\* record that one task completes after the other one read its clock has a negative
\* age there, which as an unsigned number exceeds any retention (expireUnlocked).
ResultRetained ==
    [][ \A k \in Keys :
          record[k] # None /\ record[k].status = "Completed" /\ record'[k] # record[k]
             => age[k] + MaxLag >= Retention ]_vars

=============================================================================
