------------------------- MODULE WebCommandsProofs -------------------------
(***************************************************************************)
(* Proofs about WebCommands for every set of commands and correlation ids, *)
(* every capacity of its queues and every interleaving of the two tasks:   *)
(* a command reaches the relay at most once, its record tells what became  *)
(* of it, and no result slot leaks.                                        *)
(***************************************************************************)
EXTENDS WebCommands, SequenceTheorems, FiniteSetTheorems, TLAPS

----------------------------------------------------------------------------
(* The inductive invariant. *)

\* The four places where the command of a key can be on its way to the relay ...
Sent(k) == \E i \in DOMAIN requests : requests[i].key = k
Due(k) == \E i \in DOMAIN relayQueue : relayQueue[i].key = k
Handled(k) == http.at # "Idle" /\ http.request.key = k
Submitted(k) == loop.at = "Submit" /\ loop.held.key = k

\* ... and the last one, where it has run and its record has yet to be told.
Completed(k) == loop.at = "Complete" /\ loop.held.key = k

\* A command is in one place at a time, and once in it.
SentOnce == \A i, j \in DOMAIN requests : requests[i].key = requests[j].key => i = j

DueOnce ==
    \A i, j \in DOMAIN relayQueue :
        relayQueue[i].key = relayQueue[j].key /\ relayQueue[i].key # None => i = j

InOnePlace ==
    \A k \in Keys :
        /\ Sent(k) => ~Due(k)
        /\ Handled(k) => ~Sent(k) /\ ~Due(k)
        /\ Submitted(k) => ~Sent(k) /\ ~Due(k) /\ ~Handled(k)

\* A command on its way has a record of its own id, still queued, and has not run.
TrackedAs(r) ==
    /\ r.key \in Keys
    /\ tracked[r.key] # None
    /\ tracked[r.key].id = r.id
    /\ tracked[r.key].status = "Queued"
    /\ outcome[r.key] = "None"

SentTracked == \A i \in DOMAIN requests : TrackedAs(requests[i])

DueTracked ==
    \A i \in DOMAIN relayQueue :
        IF relayQueue[i].key = None THEN relayQueue[i].id = None ELSE TrackedAs(relayQueue[i])

HeldTracked ==
    /\ http.at # "Idle" => TrackedAs(http.request)
    /\ loop.at = "Submit" => TrackedAs(loop.held)

\* A command that has run is still recorded as queued, under its own id; one that
\* changed the relay has moved the sequence past the one its client had seen.
CompleteInv ==
    loop.at = "Complete" =>
        IF loop.held.key = None THEN loop.held.id = None
        ELSE LET t == tracked[loop.held.key]
                 was == outcome[loop.held.key]
             IN  /\ t # None /\ t.id = loop.held.id /\ t.status = "Queued"
                 /\ loop.status = "Rejected" => was = "Rejected"
                 /\ loop.status = "Accepted" =>
                      was = "Unchanged" \/ (was = "Changed" /\ t.body.expected < relay.seq)

\* No two records share an id, and no client has seen a sequence of the future.
IdsInv ==
    \A k \in Keys : tracked[k] # None =>
        /\ tracked[k].body.expected <= relay.seq
        /\ \A j \in Keys : tracked[j] # None /\ tracked[j].id = tracked[k].id => j = k

\* Requests have ids of their own, and one not yet queued has no result slot.
RequestIds ==
    /\ \A i, j \in DOMAIN requests : requests[i].id = requests[j].id => i = j
    /\ loop.at \in {"Submit", "Report"} =>
         \A i \in DOMAIN requests : requests[i].id # loop.held.id
    /\ http.at = "Enqueue" => results[http.request.id] = None

\* What a record says, with the places named instead of counted.
RecordInv ==
    \A k \in Keys : tracked[k] # None =>
        LET status == tracked[k].status
        IN  /\ status = "Applied" => outcome[k] \in {"Changed", "Unchanged"}
            /\ status = "Idempotent" => outcome[k] = "Unchanged"
            /\ status = "Rejected" => outcome[k] \in {"None", "Rejected"}
            /\ status = "Queued" /\ mode = "Serving" =>
                 Sent(k) \/ Due(k) \/ Handled(k) \/ Submitted(k) \/ Completed(k)

\* The inductive invariant.
IInv ==
    /\ TypeOK
    /\ SentOnce
    /\ DueOnce
    /\ InOnePlace
    /\ SentTracked
    /\ DueTracked
    /\ HeldTracked
    /\ CompleteInv
    /\ IdsInv
    /\ RequestIds
    /\ NoResultLeak
    /\ RecordInv

----------------------------------------------------------------------------
(* Sequences. *)

LEMMA AppendWorks ==
    ASSUME NEW S, NEW s \in Seq(S), NEW e \in S
    PROVE  LET t == Append(s, e)
           IN  /\ t \in Seq(S)
               /\ \A i \in DOMAIN s : i \in DOMAIN t /\ t[i] = s[i]
               /\ Len(s) + 1 \in DOMAIN t /\ t[Len(s) + 1] = e
               /\ \A i \in DOMAIN t :
                    i \in DOMAIN s \/ (i = Len(s) + 1 /\ i \notin DOMAIN s)
<1>1. Len(s) \in Nat /\ DOMAIN s = 1 .. Len(s)
  BY LenProperties
<1>2. /\ Append(s, e) \in Seq(S) /\ Len(Append(s, e)) = Len(s) + 1
      /\ \A i \in 1 .. Len(s) : Append(s, e)[i] = s[i]
      /\ Append(s, e)[Len(s) + 1] = e
  BY AppendProperties
<1>3. DOMAIN Append(s, e) = 1 .. Len(s) + 1
  BY <1>2, LenProperties
<1> QED BY <1>1, <1>2, <1>3

LEMMA TailWorks ==
    ASSUME NEW S, NEW s \in Seq(S), s # <<>>
    PROVE  LET t == Tail(s)
           IN  /\ t \in Seq(S)
               /\ 1 \in DOMAIN s /\ Head(s) = s[1] /\ Head(s) \in S
               /\ \A i \in DOMAIN t : i + 1 \in DOMAIN s /\ t[i] = s[i + 1] /\ i \in Nat \ {0}
               /\ \A i \in DOMAIN s : i = 1 \/ (i - 1 \in DOMAIN t /\ t[i - 1] = s[i])
<1>1. Len(s) \in Nat \ {0} /\ DOMAIN s = 1 .. Len(s)
  BY LenProperties, EmptySeq
<1>2. /\ Head(s) \in S /\ Tail(s) \in Seq(S) /\ Len(Tail(s)) = Len(s) - 1
      /\ \A i \in 1 .. Len(Tail(s)) : Tail(s)[i] = s[i + 1]
  BY HeadTailProperties
<1>3. DOMAIN Tail(s) = 1 .. Len(s) - 1
  BY <1>2, LenProperties
<1>4. Head(s) = s[1]
  OBVIOUS
<1> QED BY <1>1, <1>2, <1>3, <1>4

LEMMA ElementsTyped ==
    ASSUME TypeOK
    PROVE  /\ \A i \in DOMAIN requests : requests[i] \in Request
           /\ \A i \in DOMAIN relayQueue : relayQueue[i] \in Queued
           /\ \A k \in Keys : tracked[k] # None => tracked[k] \in Tracked
BY ElementOfSeq, LenProperties DEF TypeOK

\* What sits in the loop and in the HTTPS task has the type its step says.
LEMMA HeldTyped ==
    ASSUME TypeOK
    PROVE  /\ http.at # "Idle" => http.request \in Request
           /\ loop.at \in {"Submit", "Report"} => loop.held \in Request
           /\ loop.at = "Complete" => loop.held \in Queued
BY DEF TypeOK, AtRest, Ready

----------------------------------------------------------------------------
(* The steps. *)

LEMMA InitIInv == Init => IInv
<1> SUFFICES ASSUME Init PROVE IInv
  OBVIOUS
<1>0. requests = <<>> /\ relayQueue = <<>> /\ http = AtRest /\ loop = Ready
      /\ (\A k \in Keys : tracked[k] = None) /\ (\A i \in Ids : results[i] = None)
  BY DEF Init
<1>e. DOMAIN requests = {} /\ DOMAIN relayQueue = {}
  BY <1>0
<1>1. TypeOK
  BY WebConstants DEF Init, TypeOK
<1>2. SentOnce /\ DueOnce /\ SentTracked /\ DueTracked
  BY <1>e DEF SentOnce, DueOnce, SentTracked, DueTracked
<1>3. InOnePlace /\ HeldTracked /\ CompleteInv
  BY <1>0, <1>e DEF InOnePlace, Sent, Due, Handled, Submitted, HeldTracked, CompleteInv,
                    AtRest, Ready
<1>4. IdsInv /\ RecordInv
  BY <1>0 DEF IdsInv, RecordInv
<1>5. RequestIds
  BY <1>0, <1>e DEF RequestIds, AtRest, Ready
<1>6. NoResultLeak
  BY <1>0, <1>e, NoneIsNone DEF NoResultLeak, Ready, OperationStatus
<1> QED BY <1>1, <1>2, <1>3, <1>4, <1>5, <1>6 DEF IInv

\* A key without a record has no command anywhere.
LEMMA UntrackedNowhere ==
    ASSUME IInv, NEW k \in Keys, tracked[k] = None
    PROVE  ~Sent(k) /\ ~Due(k) /\ ~Handled(k) /\ ~Submitted(k) /\ ~Completed(k)
<1>1. k # None
  BY WebConstants
<1> QED BY <1>1 DEF IInv, Sent, Due, Handled, Submitted, Completed, SentTracked, DueTracked,
                    HeldTracked, CompleteInv, TrackedAs

LEMMA BeginKeeps ==
    ASSUME NEW k \in Keys, NEW body \in Body, IInv, body.expected <= relay.seq, Begin(k, body)
    PROVE  IInv'
<1>0. PICK id \in Ids \ LiveIds :
        /\ tracked' = [tracked EXCEPT ![k] = [id |-> id, body |-> body, status |-> "Queued"]]
        /\ http' = [at |-> "Enqueue", request |-> [key |-> k, id |-> id, body |-> body]]
  BY DEF Begin
<1>1. /\ mode # "Stopped" /\ http = AtRest /\ tracked[k] = None
      /\ outcome' = [outcome EXCEPT ![k] = "None"]
      /\ UNCHANGED <<requests, results, loop, relayQueue, relay, mode>>
  BY DEF Begin
<1>2. ~Sent(k) /\ ~Due(k) /\ ~Handled(k) /\ ~Submitted(k) /\ ~Completed(k)
  BY <1>1, UntrackedNowhere
<1>3. /\ \A j \in Keys \ {k} : tracked'[j] = tracked[j] /\ outcome'[j] = outcome[j]
      /\ tracked'[k] = [id |-> id, body |-> body, status |-> "Queued"]
      /\ outcome'[k] = "None"
  BY <1>0, <1>1 DEF IInv, TypeOK
<1>4. \A j \in Keys : tracked[j] # None => tracked[j].id # id
  BY DEF LiveIds, ActiveKeys
<1>5. results[id] = None
  BY DEF LiveIds
<1>6. [id |-> id, body |-> body, status |-> "Queued"] \in Tracked
      /\ [key |-> k, id |-> id, body |-> body] \in Request
  BY DEF Tracked, Request, CommandStatus
<1>7. tracked'[k] # None /\ k # None
  BY <1>3, <1>6, NoneIsNone, WebConstants
<1>8. http'.at = "Enqueue" /\ http'.request.key = k /\ http'.request.id = id
  BY <1>0
<1>a. TypeOK'
  BY <1>0, <1>1, <1>6 DEF IInv, TypeOK
<1>b. SentOnce' /\ DueOnce'
  BY <1>1 DEF IInv, SentOnce, DueOnce
<1>c. InOnePlace'
  BY <1>1, <1>2, <1>8, HeldTyped DEF IInv, InOnePlace, Sent, Due, Handled, Submitted
<1>d. SentTracked' /\ DueTracked'
  BY <1>1, <1>2, <1>3 DEF IInv, SentTracked, DueTracked, TrackedAs, Sent, Due
<1>f. HeldTracked'
  BY <1>1, <1>2, <1>3, <1>7, <1>8 DEF IInv, HeldTracked, TrackedAs, Submitted
<1>g. CompleteInv'
  BY <1>1, <1>2, <1>3, HeldTyped DEF IInv, CompleteInv, Completed, Queued
<1>h. IdsInv'
  BY <1>1, <1>3, <1>4 DEF IInv, IdsInv
<1>i. RequestIds' /\ NoResultLeak'
  BY <1>1, <1>5, <1>8 DEF IInv, RequestIds, NoResultLeak
<1>j. RecordInv'
  BY <1>1, <1>2, <1>3, <1>8 DEF IInv, RecordInv, Sent, Due, Handled, Submitted, Completed, AtRest
<1> QED BY <1>a, <1>b, <1>c, <1>d, <1>f, <1>g, <1>h, <1>i, <1>j DEF IInv

LEMMA EnqueueKeeps == ASSUME IInv, Enqueue PROVE IInv'
<1> DEFINE r == http.request
<1>0. /\ http.at = "Enqueue"
      /\ UNCHANGED <<tracked, loop, relayQueue, relay, mode, outcome>>
      /\ \/ http' = [http EXCEPT !.at = "Reject"] /\ UNCHANGED <<requests, results>>
         \/ /\ requests' = Append(requests, r)
            /\ results' = [results EXCEPT ![r.id] = "Pending"]
            /\ http' = AtRest
  BY DEF Enqueue
<1>1. r \in Request /\ r.key \in Keys /\ r.id \in Ids /\ http = [at |-> "Enqueue", request |-> r]
  BY <1>0 DEF IInv, TypeOK, AtRest, Request
<1>2. CASE http' = [http EXCEPT !.at = "Reject"] /\ UNCHANGED <<requests, results>>
  <2>0. http' = [at |-> "Reject", request |-> r]
    BY <1>1, <1>2
  <2>1. TypeOK'
    BY <1>0, <1>1, <1>2, <2>0 DEF IInv, TypeOK
  <2>2. SentOnce' /\ DueOnce' /\ InOnePlace'
    BY <1>0, <1>2, <2>0 DEF IInv, SentOnce, DueOnce, InOnePlace, Sent, Due, Handled, Submitted
  <2>3. SentTracked' /\ DueTracked' /\ HeldTracked' /\ CompleteInv' /\ IdsInv'
    BY <1>0, <1>2, <2>0
       DEF IInv, SentTracked, DueTracked, HeldTracked, TrackedAs, CompleteInv, IdsInv
  <2>4. RequestIds' /\ NoResultLeak'
    BY <1>0, <1>2, <2>0 DEF IInv, RequestIds, NoResultLeak
  <2>5. RecordInv'
    BY <1>0, <1>2, <2>0 DEF IInv, RecordInv, Sent, Due, Handled, Submitted, Completed
  <2> QED BY <2>1, <2>2, <2>3, <2>4, <2>5 DEF IInv
<1>3. CASE /\ requests' = Append(requests, r)
           /\ results' = [results EXCEPT ![r.id] = "Pending"]
           /\ http' = AtRest
  <2> DEFINE n == Len(requests) + 1
  <2>0. /\ requests' \in Seq(Request)
        /\ \A i \in DOMAIN requests : i \in DOMAIN requests' /\ requests'[i] = requests[i]
        /\ n \in DOMAIN requests' /\ requests'[n] = r
        /\ \A i \in DOMAIN requests' : i \in DOMAIN requests \/ (i = n /\ i \notin DOMAIN requests)
    BY <1>1, <1>3, AppendWorks DEF IInv, TypeOK
  <2> HIDE DEF n
  <2>1. \A k \in Keys : Sent(k)' <=> Sent(k) \/ k = r.key
    BY <2>0 DEF Sent
  <2>2. Handled(r.key) /\ (\A k \in Keys : Handled(k) <=> k = r.key) /\ http'.at = "Idle"
    BY <1>0, <1>3 DEF Handled, AtRest
  <2>3. ~Sent(r.key) /\ ~Due(r.key) /\ ~Submitted(r.key)
    BY <1>1, <2>2 DEF IInv, InOnePlace
  <2>4. results[r.id] = None /\ results'[r.id] = "Pending" /\ "Pending" # None
        /\ \A i \in Ids \ {r.id} : results'[i] = results[i]
    BY <1>0, <1>1, <1>3, NoneIsNone DEF IInv, RequestIds, TypeOK, OperationStatus
  <2>5. (\A i \in DOMAIN requests : requests[i].id # r.id)
        /\ (loop.at \in {"Submit", "Report"} => loop.held.id # r.id)
    BY <1>1, <2>4 DEF IInv, NoResultLeak
  <2>a. TypeOK'
    BY <1>0, <1>3, <2>0 DEF IInv, TypeOK, OperationStatus
  <2>b. SentOnce'
    BY <2>0, <2>3 DEF IInv, SentOnce, Sent
  <2>c. DueOnce' /\ DueTracked' /\ CompleteInv' /\ IdsInv'
    BY <1>0 DEF IInv, DueOnce, DueTracked, TrackedAs, CompleteInv, IdsInv
  <2>d. InOnePlace'
    BY <1>0, <2>1, <2>2, <2>3 DEF IInv, InOnePlace, Due, Handled, Submitted
  <2>e. SentTracked'
    BY <1>0, <2>0 DEF IInv, SentTracked, HeldTracked, TrackedAs
  <2>f. HeldTracked'
    BY <1>0, <2>2 DEF IInv, HeldTracked, TrackedAs
  <2>g. RequestIds'
    BY <1>0, <2>0, <2>2, <2>5 DEF IInv, RequestIds
  <2>h. NoResultLeak'
    <3>1. {requests'[i].id : i \in DOMAIN requests'}
            = {requests[i].id : i \in DOMAIN requests} \cup {r.id}
      BY <2>0
    <3>2. {i \in Ids : results'[i] = "Pending"} = {i \in Ids : results[i] = "Pending"} \cup {r.id}
      BY <1>1, <2>4
    <3> QED BY <1>0, <3>1, <3>2 DEF IInv, NoResultLeak
  <2>i. RecordInv'
    BY <1>0, <2>1, <2>2 DEF IInv, RecordInv, Due, Handled, Submitted, Completed
  <2> QED BY <2>a, <2>b, <2>c, <2>d, <2>e, <2>f, <2>g, <2>h, <2>i DEF IInv
<1> QED BY <1>0, <1>2, <1>3

\* A command that has run is no longer on its way.
LEMMA CompletedNowhere ==
    ASSUME IInv, NEW k \in Keys, Completed(k)
    PROVE  ~Sent(k) /\ ~Due(k) /\ ~Handled(k) /\ ~Submitted(k)
<1>1. k # None /\ outcome[k] # "None"
  BY WebConstants, HeldTyped DEF IInv, CompleteInv, Completed, TypeOK, Ready
<1> QED BY <1>1 DEF IInv, Sent, Due, Handled, Submitted, SentTracked, DueTracked, HeldTracked,
                    TrackedAs

\* WebCommandTracker::reject finds the record of the command and no other.
LEMMA RejectedWorks ==
    ASSUME IInv, NEW k \in Keys, NEW id, tracked[k] # None, tracked[k].id = id,
           tracked' = Rejected(id)
    PROVE  /\ tracked' \in [Keys -> Tracked \cup {None}]
           /\ \A j \in Keys \ {k} : tracked'[j] = tracked[j]
           /\ tracked'[k].id = tracked[k].id /\ tracked'[k].status = "Rejected"
           /\ tracked'[k].body = tracked[k].body /\ tracked'[k] # None
<1>1. \A j \in Keys \ {k} : tracked[j] # None => tracked[j].id # id
  BY DEF IInv, IdsInv
<1>2. tracked[k] \in Tracked
  BY ElementsTyped DEF IInv
<1>3. /\ \A j \in Keys \ {k} : tracked'[j] = tracked[j]
      /\ tracked'[k] = [tracked[k] EXCEPT !.status = "Rejected"]
      /\ tracked' = [j \in Keys |-> tracked'[j]]
  BY <1>1 DEF Rejected
<1>4. /\ tracked'[k] \in Tracked /\ tracked'[k].id = tracked[k].id
      /\ tracked'[k].status = "Rejected" /\ tracked'[k].body = tracked[k].body
  BY <1>2, <1>3 DEF Tracked, CommandStatus
<1>5. tracked' \in [Keys -> Tracked \cup {None}]
  <2>1. \A j \in Keys : tracked'[j] \in Tracked \cup {None}
    BY <1>3, <1>4, ElementsTyped DEF IInv
  <2> QED BY <1>3, <2>1
<1> QED BY <1>3, <1>4, <1>5, NoneIsNone

LEMMA RejectKeeps == ASSUME IInv, Reject PROVE IInv'
<1> DEFINE k == http.request.key
<1>0. /\ http.at = "Reject" /\ tracked' = Rejected(http.request.id) /\ http' = AtRest
      /\ UNCHANGED <<requests, results, loop, relayQueue, relay, mode, outcome>>
  BY DEF Reject
<1>1. /\ k \in Keys /\ Handled(k) /\ tracked[k] # None /\ tracked[k].id = http.request.id
      /\ outcome[k] = "None"
  BY <1>0 DEF IInv, HeldTracked, TrackedAs, Handled
<1> HIDE DEF k
<1>2. /\ tracked' \in [Keys -> Tracked \cup {None}]
      /\ \A j \in Keys \ {k} : tracked'[j] = tracked[j]
      /\ tracked'[k].id = tracked[k].id /\ tracked'[k].status = "Rejected"
      /\ tracked'[k].body = tracked[k].body /\ tracked'[k] # None
  BY <1>0, <1>1, RejectedWorks
<1>3. ~Sent(k) /\ ~Due(k) /\ ~Submitted(k) /\ ~Completed(k)
  BY <1>1, CompletedNowhere DEF IInv, InOnePlace
<1>4. \A j \in Keys : ~Handled(j)' /\ (Handled(j) => j = k)
  BY <1>0 DEF Handled, AtRest, k
<1>5. http'.at = "Idle"
  BY <1>0 DEF AtRest
<1>a. TypeOK'
  BY <1>0, <1>2 DEF IInv, TypeOK
<1>b. SentOnce' /\ DueOnce' /\ NoResultLeak'
  BY <1>0 DEF IInv, SentOnce, DueOnce, NoResultLeak
<1>c. InOnePlace'
  BY <1>0, <1>4 DEF IInv, InOnePlace, Sent, Due, Submitted
<1>d. SentTracked' /\ DueTracked' /\ HeldTracked'
  BY <1>0, <1>2, <1>3, <1>5
     DEF IInv, SentTracked, DueTracked, HeldTracked, TrackedAs, Sent, Due, Submitted
<1>e. CompleteInv'
  BY <1>0, <1>2, <1>3, HeldTyped DEF IInv, CompleteInv, Completed, Queued
<1>f. IdsInv'
  BY <1>0, <1>1, <1>2 DEF IInv, IdsInv
<1>g. RequestIds'
  BY <1>0, <1>5 DEF IInv, RequestIds
<1>h. RecordInv'
  BY <1>0, <1>1, <1>2, <1>4 DEF IInv, RecordInv, Sent, Due, Submitted, Completed
<1> QED BY <1>a, <1>b, <1>c, <1>d, <1>e, <1>f, <1>g, <1>h DEF IInv

LEMMA TakeRequestKeeps == ASSUME IInv, TakeRequest PROVE IInv'
<1> DEFINE r == Head(requests)
<1>0. /\ loop.at = "Idle" /\ requests # <<>> /\ requests' = Tail(requests)
      /\ loop' = [at |-> "Submit", held |-> r, status |-> None]
      /\ UNCHANGED <<tracked, results, http, relayQueue, relay, mode, outcome>>
  BY DEF TakeRequest
<1>1. /\ requests' \in Seq(Request)
      /\ 1 \in DOMAIN requests /\ r = requests[1] /\ r \in Request
      /\ \A i \in DOMAIN requests' :
           i + 1 \in DOMAIN requests /\ requests'[i] = requests[i + 1] /\ i \in Nat \ {0}
      /\ \A i \in DOMAIN requests :
           i = 1 \/ (i - 1 \in DOMAIN requests' /\ requests'[i - 1] = requests[i])
  BY <1>0, TailWorks DEF IInv, TypeOK
<1>2. loop'.at = "Submit" /\ loop'.held = r
  BY <1>0
<1> HIDE DEF r
<1>3. r.key \in Keys /\ r.id \in Ids /\ TrackedAs(r) /\ Sent(r.key)
  BY <1>1 DEF IInv, SentTracked, Sent, Request
<1>4. \A k \in Keys : Sent(k)' => Sent(k)
  BY <1>1 DEF Sent
<1>5. \A k \in Keys : k = r.key => ~Sent(k)'
  <2>1. \A i \in DOMAIN requests' : requests[i + 1].key # r.key
    BY <1>1 DEF IInv, SentOnce
  <2> QED BY <1>1, <2>1 DEF Sent
<1>6. \A k \in Keys \ {r.key} : Sent(k) => Sent(k)'
  BY <1>1 DEF Sent
<1>7. \A k \in Keys : (Submitted(k)' <=> k = r.key) /\ ~Submitted(k) /\ ~Completed(k)
  BY <1>0, <1>2 DEF Submitted, Completed
<1>8. ~Due(r.key) /\ ~Handled(r.key)
  BY <1>3 DEF IInv, InOnePlace
<1>a. TypeOK'
  BY <1>0, <1>1, <1>2 DEF IInv, TypeOK
<1>b. SentOnce'
  BY <1>1 DEF IInv, SentOnce
<1>c. DueOnce' /\ IdsInv'
  BY <1>0 DEF IInv, DueOnce, IdsInv
<1>d. InOnePlace'
  BY <1>0, <1>4, <1>5, <1>7, <1>8 DEF IInv, InOnePlace, Due, Handled
<1>e. SentTracked' /\ DueTracked' /\ HeldTracked'
  BY <1>0, <1>1, <1>2, <1>3 DEF IInv, SentTracked, DueTracked, HeldTracked, TrackedAs
<1>f. CompleteInv'
  BY <1>2 DEF CompleteInv
<1>g. RequestIds'
  <2>1. \A i, j \in DOMAIN requests' : requests'[i].id = requests'[j].id => i = j
    BY <1>1 DEF IInv, RequestIds
  <2>2. \A i \in DOMAIN requests' : requests'[i].id # r.id
    BY <1>1 DEF IInv, RequestIds
  <2> QED BY <1>0, <1>2, <2>1, <2>2 DEF IInv, RequestIds
<1>h. NoResultLeak'
  <2>1. {requests[i].id : i \in DOMAIN requests}
          = {requests'[i].id : i \in DOMAIN requests'} \cup {r.id}
    BY <1>1
  <2> QED BY <1>0, <1>2, <2>1 DEF IInv, NoResultLeak
<1>i. RecordInv'
  BY <1>0, <1>6, <1>7 DEF IInv, RecordInv, Due, Handled
<1> QED BY <1>a, <1>b, <1>c, <1>d, <1>e, <1>f, <1>g, <1>h, <1>i DEF IInv

\* The switching policy accepts the command: it joins the relay command queue.
LEMMA EnterKeeps ==
    ASSUME IInv, loop.at = "Submit", Enter(loop.held),
           UNCHANGED <<requests, results, http, relay, mode, outcome>>
    PROVE  IInv'
<1> DEFINE r == loop.held
           q == [key |-> r.key, id |-> r.id, action |-> r.body.action]
           n == Len(relayQueue) + 1
<1>0. /\ relayQueue' = Append(relayQueue, q)
      /\ loop' = [loop EXCEPT !.at = "Report", !.status = "Applied"]
      /\ UNCHANGED tracked
  BY DEF Enter
<1>1. /\ r \in Request /\ r.key \in Keys /\ r.id \in Ids /\ TrackedAs(r) /\ Submitted(r.key)
      /\ loop' = [at |-> "Report", held |-> r, status |-> "Applied"] /\ q \in Queued
  <2>1. r \in Request
    BY HeldTyped DEF IInv
  <2>2. r.key \in Keys /\ r.id \in Ids /\ r.body.action \in Actions
    BY <2>1 DEF Request, Body
  <2>3. q \in Queued
    BY <2>2 DEF Queued
  <2>4. loop = [at |-> "Submit", held |-> r, status |-> None]
    BY DEF IInv, TypeOK, Ready
  <2>5. loop' = [at |-> "Report", held |-> r, status |-> "Applied"]
    BY <1>0, <2>4
  <2>6. TrackedAs(r) /\ Submitted(r.key)
    BY DEF IInv, HeldTracked, Submitted
  <2> QED BY <2>1, <2>2, <2>3, <2>5, <2>6
<1>2. /\ relayQueue' \in Seq(Queued)
      /\ \A i \in DOMAIN relayQueue : i \in DOMAIN relayQueue' /\ relayQueue'[i] = relayQueue[i]
      /\ n \in DOMAIN relayQueue' /\ relayQueue'[n] = q
      /\ \A i \in DOMAIN relayQueue' :
           i \in DOMAIN relayQueue \/ (i = n /\ i \notin DOMAIN relayQueue)
  BY <1>0, <1>1, AppendWorks DEF IInv, TypeOK
<1>3. q.key = r.key /\ q.id = r.id /\ r.key # None
  BY <1>1, WebConstants
<1>q. loop'.at = "Report" /\ loop'.held = r /\ loop.held = r
  BY <1>1
<1> HIDE DEF q, n, r
<1>4. \A k \in Keys : Due(k)' <=> Due(k) \/ k = r.key
  BY <1>2, <1>3 DEF Due
<1>5. ~Sent(r.key) /\ ~Due(r.key) /\ ~Handled(r.key)
  BY <1>1 DEF IInv, InOnePlace
<1>6. \A k \in Keys : ~Submitted(k)' /\ ~Completed(k) /\ (Submitted(k) => k = r.key)
  BY <1>q DEF Submitted, Completed
<1>a. TypeOK'
  BY <1>0, <1>1, <1>2 DEF IInv, TypeOK
<1>b. SentOnce' /\ SentTracked' /\ IdsInv'
  BY <1>0 DEF IInv, SentOnce, SentTracked, IdsInv, TrackedAs
<1>c. DueOnce'
  BY <1>2, <1>3, <1>5 DEF IInv, DueOnce, Due
<1>d. InOnePlace'
  BY <1>4, <1>5, <1>6 DEF IInv, InOnePlace, Sent, Handled
<1>e. DueTracked'
  BY <1>0, <1>1, <1>2, <1>3 DEF IInv, DueTracked, TrackedAs
<1>f. HeldTracked' /\ CompleteInv'
  BY <1>0, <1>q DEF IInv, HeldTracked, TrackedAs, CompleteInv
<1>g. RequestIds' /\ NoResultLeak'
  BY <1>q DEF IInv, RequestIds, NoResultLeak
<1>h. RecordInv'
  BY <1>0, <1>4, <1>6 DEF IInv, RecordInv, Sent, Handled
<1> QED BY <1>a, <1>b, <1>c, <1>d, <1>e, <1>f, <1>g, <1>h DEF IInv

\* It refuses the command, whose record is rejected.
LEMMA RefuseKeeps ==
    ASSUME IInv, loop.at = "Submit", Refuse(loop.held), tracked' = Rejected(loop.held.id),
           UNCHANGED <<requests, results, http, relay, mode, outcome>>
    PROVE  IInv'
<1> DEFINE r == loop.held
<1>0. /\ loop' \in {[loop EXCEPT !.at = "Report", !.status = "Rejected"],
                    [loop EXCEPT !.at = "Report", !.status = "Unavailable"]}
      /\ UNCHANGED relayQueue
  BY DEF Refuse
<1>1. /\ r \in Request /\ r.key \in Keys /\ r.id \in Ids /\ TrackedAs(r) /\ Submitted(r.key)
      /\ loop' \in [at : {"Report"}, held : Request,
                    status : {"Applied", "Rejected", "Unavailable"}]
      /\ loop'.at = "Report" /\ loop'.held = r /\ loop.held = r
  <2>1. r \in Request
    BY HeldTyped DEF IInv
  <2>2. r.key \in Keys /\ r.id \in Ids
    BY <2>1 DEF Request
  <2>4. loop = [at |-> "Submit", held |-> r, status |-> None]
    BY DEF IInv, TypeOK, Ready
  <2>5. \/ loop' = [at |-> "Report", held |-> r, status |-> "Rejected"]
        \/ loop' = [at |-> "Report", held |-> r, status |-> "Unavailable"]
    BY <1>0, <2>4
  <2>6. TrackedAs(r) /\ Submitted(r.key)
    BY DEF IInv, HeldTracked, Submitted
  <2> HIDE DEF r
  <2>7. /\ loop'.at = "Report" /\ loop'.held = r
        /\ loop' \in [at : {"Report"}, held : Request,
                      status : {"Applied", "Rejected", "Unavailable"}]
    BY <2>1, <2>5
  <2> QED BY <2>1, <2>2, <2>6, <2>7 DEF r
<1> DEFINE k == r.key
<1>2. k \in Keys /\ tracked[k] # None /\ tracked[k].id = r.id /\ outcome[k] = "None"
  BY <1>1 DEF TrackedAs
<1> HIDE DEF r
<1>3. /\ tracked' \in [Keys -> Tracked \cup {None}]
      /\ \A j \in Keys \ {k} : tracked'[j] = tracked[j]
      /\ tracked'[k].id = tracked[k].id /\ tracked'[k].status = "Rejected"
      /\ tracked'[k].body = tracked[k].body /\ tracked'[k] # None
  BY <1>1, <1>2, RejectedWorks
<1>4. ~Sent(k) /\ ~Due(k) /\ ~Handled(k)
  BY <1>1 DEF IInv, InOnePlace
<1>5. \A j \in Keys : ~Submitted(j)' /\ ~Completed(j) /\ (Submitted(j) => j = k)
  BY <1>1 DEF Submitted, Completed
<1>a. TypeOK'
  BY <1>0, <1>1, <1>3 DEF IInv, TypeOK
<1>b. SentOnce' /\ DueOnce'
  BY <1>0 DEF IInv, SentOnce, DueOnce
<1>c. InOnePlace'
  BY <1>0, <1>5 DEF IInv, InOnePlace, Sent, Due, Handled
<1>d. SentTracked' /\ DueTracked' /\ HeldTracked'
  BY <1>0, <1>1, <1>3, <1>4
     DEF IInv, SentTracked, DueTracked, HeldTracked, TrackedAs, Sent, Due, Handled
<1>e. CompleteInv'
  BY <1>1 DEF CompleteInv
<1>f. IdsInv'
  BY <1>2, <1>3 DEF IInv, IdsInv
<1>g. RequestIds' /\ NoResultLeak'
  BY <1>1 DEF IInv, RequestIds, NoResultLeak
<1>h. RecordInv'
  BY <1>0, <1>2, <1>3, <1>5 DEF IInv, RecordInv, Sent, Due, Handled
<1> QED BY <1>a, <1>b, <1>c, <1>d, <1>e, <1>f, <1>g, <1>h DEF IInv

LEMMA SubmitKeeps == ASSUME IInv, Submit PROVE IInv'
BY EnterKeeps, RefuseKeeps DEF Submit

LEMMA ReportKeeps == ASSUME IInv, Report PROVE IInv'
<1> DEFINE id == loop.held.id
<1>0. /\ loop.at = "Report" /\ results' = [results EXCEPT ![id] = loop.status] /\ loop' = Ready
      /\ UNCHANGED <<tracked, requests, http, relayQueue, relay, mode, outcome>>
  BY DEF Report
<1>1. loop.status \in {"Applied", "Rejected", "Unavailable"} /\ id \in Ids
  BY <1>0 DEF IInv, TypeOK, Ready, Request
<1>2. results' \in [Ids -> OperationStatus \cup {None}] /\ results'[id] # "Pending"
      /\ \A i \in Ids \ {id} : results'[i] = results[i]
  BY <1>0, <1>1 DEF IInv, TypeOK, OperationStatus
<1>3. loop'.at = "Idle"
  BY <1>0 DEF Ready
<1> HIDE DEF id
<1>a. TypeOK'
  BY <1>0, <1>2 DEF IInv, TypeOK
<1>b. SentOnce' /\ DueOnce' /\ SentTracked' /\ DueTracked' /\ IdsInv'
  BY <1>0 DEF IInv, SentOnce, DueOnce, SentTracked, DueTracked, TrackedAs, IdsInv
<1>c. InOnePlace' /\ RecordInv'
  BY <1>0, <1>3
     DEF IInv, InOnePlace, RecordInv, Sent, Due, Handled, Submitted, Completed
<1>d. HeldTracked' /\ CompleteInv'
  BY <1>0, <1>3 DEF IInv, HeldTracked, TrackedAs, CompleteInv
<1>e. RequestIds'
  <2>1. http.at = "Enqueue" => http.request.id \in Ids
    BY HeldTyped DEF IInv, Request
  <2>2. results[id] = "Pending"
    BY <1>0, <1>1 DEF IInv, NoResultLeak, id
  <2>3. "Pending" # None
    BY NoneIsNone DEF OperationStatus
  <2> QED BY <1>0, <1>2, <1>3, <2>1, <2>2, <2>3 DEF IInv, RequestIds
<1>f. NoResultLeak'
  <2>1. id \notin {requests[i].id : i \in DOMAIN requests}
    BY <1>0 DEF IInv, RequestIds, id
  <2>2. {i \in Ids : results[i] = "Pending"}
          = {requests[i].id : i \in DOMAIN requests} \cup {id}
    BY <1>0 DEF IInv, NoResultLeak, id
  <2>3. {i \in Ids : results'[i] = "Pending"} = {i \in Ids : results[i] = "Pending"} \ {id}
    BY <1>1, <1>2
  <2> QED BY <1>0, <1>3, <2>1, <2>2, <2>3 DEF NoResultLeak
<1> QED BY <1>a, <1>b, <1>c, <1>d, <1>e, <1>f DEF IInv

----------------------------------------------------------------------------
(* The relay's own steps. *)

Channel ==
    [applied : {"Off", "On"}, seq : 0 .. MaxSequence, lockout : BOOLEAN, fault : BOOLEAN]

LEMMA SwitchedToWorks ==
    ASSUME relay \in Channel, NEW d \in {"Off", "On"},
           d # relay.applied => relay.seq < MaxSequence
    PROVE  /\ SwitchedTo(d) \in Channel
           /\ SwitchedTo(d).seq = IF d = relay.applied THEN relay.seq ELSE relay.seq + 1
<1> DEFINE n == IF d = relay.applied THEN relay.seq ELSE relay.seq + 1
<1>1. n \in 0 .. MaxSequence
  BY WebConstants DEF Channel
<1>2. SwitchedTo(d) = [relay EXCEPT !.applied = d, !.seq = n]
  BY DEF SwitchedTo, Channel
<1> HIDE DEF n
<1>3. [relay EXCEPT !.applied = d, !.seq = n] \in Channel
  BY <1>1 DEF Channel
<1>4. [relay EXCEPT !.applied = d, !.seq = n].seq = n
  BY DEF Channel
<1> QED BY <1>2, <1>3, <1>4 DEF n

LEMMA FaultOrLockout ==
    ASSUME NEW r \in Channel, NEW w,
           \/ w = [r EXCEPT !.fault = TRUE]
           \/ w = [r EXCEPT !.lockout = TRUE]
           \/ w = [r EXCEPT !.lockout = TRUE, !.fault = TRUE]
    PROVE  w \in Channel /\ w.seq = r.seq
BY DEF Channel

\* However a write or a lockout goes, the sequence never runs backwards.
LEMMA WriteFailedMonotone ==
    ASSUME relay \in Channel, WriteFailed
    PROVE  relay' \in Channel /\ relay.seq <= relay'.seq
<1>1. PICK forced \in BOOLEAN :
        /\ forced /\ relay.applied = "On" => relay.seq < MaxSequence
        /\ relay' = [(IF forced THEN SwitchedTo("Off") ELSE relay) EXCEPT !.fault = TRUE]
  BY DEF WriteFailed
<1>2. relay.applied \in {"Off", "On"} /\ relay.seq \in Nat
  BY WebConstants DEF Channel
<1>3. CASE forced
  <2>1. "Off" # relay.applied => relay.seq < MaxSequence
    BY <1>1, <1>2, <1>3
  <2>2. SwitchedTo("Off") \in Channel /\ relay.seq <= SwitchedTo("Off").seq
    BY <1>2, <2>1, SwitchedToWorks
  <2>3. relay' = [SwitchedTo("Off") EXCEPT !.fault = TRUE]
    BY <1>1, <1>3
  <2> QED BY <2>2, <2>3, FaultOrLockout
<1>4. CASE ~forced
  <2>1. relay' = [relay EXCEPT !.fault = TRUE]
    BY <1>1, <1>4
  <2>2. relay' \in Channel /\ relay'.seq = relay.seq
    BY <2>1 DEF Channel
  <2> QED BY <1>2, <2>2
<1> QED BY <1>3, <1>4

LEMMA LockOutMonotone ==
    ASSUME relay \in Channel, LockOutAccepted \/ LockOutRefused
    PROVE  relay' \in Channel /\ relay.seq <= relay'.seq
<1>1. relay.applied \in {"Off", "On"} /\ relay.seq \in Nat
  BY WebConstants DEF Channel
<1>2. CASE LockOutAccepted
  <2>1. "Off" # relay.applied => relay.seq < MaxSequence
    BY <1>1, <1>2 DEF LockOutAccepted
  <2>2. SwitchedTo("Off") \in Channel /\ relay.seq <= SwitchedTo("Off").seq
    BY <1>1, <2>1, SwitchedToWorks
  <2>3. relay' = [SwitchedTo("Off") EXCEPT !.lockout = TRUE]
    BY <1>2 DEF LockOutAccepted
  <2> QED BY <2>2, <2>3, FaultOrLockout
<1>3. CASE LockOutRefused
  <2>1. PICK forced \in BOOLEAN :
          /\ forced => relay.seq < MaxSequence
          /\ relay' = [(IF forced THEN SwitchedTo("Off") ELSE relay)
                         EXCEPT !.lockout = TRUE, !.fault = TRUE]
    BY <1>3 DEF LockOutRefused
  <2>2. CASE forced
    <3>1. SwitchedTo("Off") \in Channel /\ relay.seq <= SwitchedTo("Off").seq
      BY <1>1, <2>1, <2>2, SwitchedToWorks
    <3>2. relay' = [SwitchedTo("Off") EXCEPT !.lockout = TRUE, !.fault = TRUE]
      BY <2>1, <2>2
    <3> QED BY <3>1, <3>2, FaultOrLockout
  <2>3. CASE ~forced
    <3>1. relay' = [relay EXCEPT !.lockout = TRUE, !.fault = TRUE]
      BY <2>1, <2>3
    <3>2. relay' \in Channel /\ relay'.seq = relay.seq
      BY <3>1 DEF Channel
    <3> QED BY <1>1, <3>2
  <2> QED BY <2>2, <2>3
<1> QED BY <1>2, <1>3

\* The three ways a command can go, as the loop and the history record them.
LEMMA ExecuteEffect ==
    ASSUME IInv, Execute
    PROVE  LET c == Head(relayQueue)
           IN  /\ relay' \in Channel /\ relay.seq <= relay'.seq
               /\ \E status \in {"Accepted", "Rejected"},
                     what \in {"Changed", "Unchanged", "Rejected"} :
                    /\ loop' = [at |-> "Complete", held |-> c, status |-> status]
                    /\ outcome' = [k \in Keys |-> IF k # c.key THEN outcome[k]
                                     ELSE IF outcome[k] = "None" THEN what ELSE "Twice"]
                    /\ status = "Rejected" => what = "Rejected"
                    /\ status = "Accepted" =>
                         what = "Unchanged" \/ (what = "Changed" /\ relay.seq < relay'.seq)
<1> DEFINE c == Head(relayQueue)
           d == Desired(c.action)
           permitted == c.action = "SetOff" \/ ~(relay.lockout \/ relay.fault)
           changes == d # relay.applied
           Done(status, what) ==
             /\ loop' = [at |-> "Complete", held |-> c, status |-> status]
             /\ outcome' = [k \in Keys |-> IF k # c.key THEN outcome[k]
                               ELSE IF outcome[k] = "None" THEN what ELSE "Twice"]
<1>1. relay \in Channel /\ d \in {"Off", "On"}
  BY DEF IInv, TypeOK, Channel, Desired
<1>2. relay.seq \in Nat
  BY <1>1, WebConstants DEF Channel
<1>3. \/ /\ Done("Rejected", "Rejected")
         /\ UNCHANGED relay
      \/ /\ changes => relay.seq < MaxSequence
         /\ relay' = SwitchedTo(d)
         /\ Done("Accepted", IF changes THEN "Changed" ELSE "Unchanged")
      \/ /\ WriteFailed
         /\ Done("Rejected", "Rejected")
  BY DEF Execute
<1> HIDE DEF Done, d
<1>4. /\ relay' \in Channel /\ relay.seq <= relay'.seq
      /\ \/ Done("Rejected", "Rejected")
         \/ Done("Accepted", "Unchanged")
         \/ Done("Accepted", "Changed") /\ relay.seq < relay'.seq
  <2>1. CASE Done("Rejected", "Rejected") /\ UNCHANGED relay
    BY <1>1, <1>2, <2>1
  <2>2. CASE /\ changes => relay.seq < MaxSequence
             /\ relay' = SwitchedTo(d)
             /\ Done("Accepted", IF changes THEN "Changed" ELSE "Unchanged")
    BY <1>1, <1>2, <2>2, SwitchedToWorks
  <2>3. CASE WriteFailed /\ Done("Rejected", "Rejected")
    BY <1>1, <2>3, WriteFailedMonotone
  <2> QED BY <1>3, <2>1, <2>2, <2>3
<1>5. CASE Done("Rejected", "Rejected")
  BY <1>4, <1>5 DEF Done
<1>6. CASE Done("Accepted", "Unchanged")
  BY <1>4, <1>6 DEF Done
<1>7. CASE Done("Accepted", "Changed") /\ relay.seq < relay'.seq
  BY <1>4, <1>7 DEF Done
<1> QED BY <1>4, <1>5, <1>6, <1>7

LEMMA ExecuteKeeps == ASSUME IInv, Execute PROVE IInv'
<1> DEFINE c == Head(relayQueue)
<1>0. /\ loop.at = "Idle" /\ relayQueue # <<>> /\ relayQueue' = Tail(relayQueue)
      /\ UNCHANGED <<tracked, requests, results, http, mode>>
  BY DEF Execute
<1>1. /\ relayQueue' \in Seq(Queued)
      /\ 1 \in DOMAIN relayQueue /\ c = relayQueue[1] /\ c \in Queued
      /\ \A i \in DOMAIN relayQueue' :
           i + 1 \in DOMAIN relayQueue /\ relayQueue'[i] = relayQueue[i + 1] /\ i \in Nat \ {0}
      /\ \A i \in DOMAIN relayQueue :
           i = 1 \/ (i - 1 \in DOMAIN relayQueue' /\ relayQueue'[i - 1] = relayQueue[i])
  BY <1>0, TailWorks DEF IInv, TypeOK
<1>2. PICK status \in {"Accepted", "Rejected"}, what \in {"Changed", "Unchanged", "Rejected"} :
        /\ loop' = [at |-> "Complete", held |-> c, status |-> status]
        /\ outcome' = [k \in Keys |-> IF k # c.key THEN outcome[k]
                         ELSE IF outcome[k] = "None" THEN what ELSE "Twice"]
        /\ status = "Rejected" => what = "Rejected"
        /\ status = "Accepted" =>
             what = "Unchanged" \/ (what = "Changed" /\ relay.seq < relay'.seq)
  BY ExecuteEffect
<1>3. relay' \in Channel /\ relay.seq <= relay'.seq /\ relay.seq \in Nat /\ relay'.seq \in Nat
  BY ExecuteEffect, WebConstants DEF IInv, TypeOK, Channel
<1>4. loop'.at = "Complete" /\ loop'.held = c /\ loop'.status = status
  BY <1>2
<1> HIDE DEF c
<1>5. IF c.key = None THEN c.id = None ELSE TrackedAs(c)
  BY <1>1 DEF IInv, DueTracked
<1>6. /\ \A k \in Keys : k # c.key => outcome'[k] = outcome[k]
      /\ \A k \in Keys : k = c.key => outcome'[k] = what
      /\ outcome' \in [Keys -> {"None", "Changed", "Unchanged", "Rejected"}]
  BY <1>2, <1>5, WebConstants DEF TrackedAs, IInv, TypeOK
<1>7. \A k \in Keys : k = c.key => Due(k) /\ ~Due(k)'
  <2>1. \A i \in DOMAIN relayQueue' : c.key # None => relayQueue[i + 1].key # c.key
    BY <1>1 DEF IInv, DueOnce
  <2> QED BY <1>1, <2>1, WebConstants DEF Due
<1>8. \A k \in Keys : (Due(k)' => Due(k)) /\ (Due(k) => k = c.key \/ Due(k)')
  BY <1>1 DEF Due
<1>9. \A k \in Keys : k = c.key => ~Sent(k) /\ ~Handled(k)
  BY <1>7 DEF IInv, InOnePlace
<1>a. TypeOK'
  BY <1>0, <1>1, <1>2, <1>3, <1>6 DEF IInv, TypeOK, Channel
<1>b. SentOnce'
  BY <1>0 DEF IInv, SentOnce
<1>c. DueOnce'
  BY <1>1 DEF IInv, DueOnce
<1>d. InOnePlace'
  BY <1>0, <1>4, <1>8 DEF IInv, InOnePlace, Sent, Handled, Submitted
<1>e. SentTracked'
  BY <1>0, <1>6, <1>9 DEF IInv, SentTracked, TrackedAs, Sent
<1>f. DueTracked'
  <2> SUFFICES ASSUME NEW i \in DOMAIN relayQueue', relayQueue'[i].key # None
               PROVE  outcome'[relayQueue'[i].key] = outcome[relayQueue'[i].key]
                        /\ relayQueue'[i].key \in Keys
    BY <1>0, <1>1 DEF IInv, DueTracked, TrackedAs
  <2>1. relayQueue'[i].key \in Keys
    BY <1>1 DEF IInv, DueTracked, TrackedAs
  <2>2. relayQueue'[i].key # c.key
    BY <1>7, <2>1 DEF Due
  <2> QED BY <1>6, <2>1, <2>2
<1>g. HeldTracked'
  BY <1>0, <1>4, <1>6, <1>9 DEF IInv, HeldTracked, TrackedAs, Handled
<1>h. CompleteInv'
  <2>1. CASE c.key = None
    BY <1>4, <1>5, <2>1 DEF CompleteInv
  <2>2. CASE c.key # None
    <3> DEFINE k == c.key
    <3>1. /\ k \in Keys /\ tracked[k] # None /\ tracked[k].id = c.id
          /\ tracked[k].status = "Queued"
      BY <1>5, <2>2 DEF TrackedAs
    <3>2. tracked[k].body.expected <= relay.seq /\ tracked[k].body.expected \in Nat
      BY <3>1, ElementsTyped DEF IInv, IdsInv, Tracked, Body
    <3>3. outcome'[k] = what
      BY <1>6, <3>1
    <3>4. tracked'[k] = tracked[k]
      BY <1>0
    <3>5. loop'.held.key = k /\ k # None /\ loop'.held.id = c.id
      BY <1>4, <2>2
    <3> HIDE DEF k
    <3>6. what = "Changed" => tracked[k].body.expected < relay'.seq
      BY <1>2, <1>3, <3>2
    <3>7. /\ status = "Rejected" => what = "Rejected"
          /\ status = "Accepted" => what = "Unchanged"
                \/ (what = "Changed" /\ tracked[k].body.expected < relay'.seq)
      BY <1>2, <3>6
    <3> QED BY <1>4, <3>1, <3>3, <3>4, <3>5, <3>7 DEF CompleteInv
  <2> QED BY <2>1, <2>2
<1>i. IdsInv'
  <2>1. \A k \in Keys : tracked[k] # None => tracked[k].body.expected \in Nat
    BY ElementsTyped DEF IInv, Tracked, Body
  <2> QED BY <1>0, <1>3, <2>1 DEF IInv, IdsInv
<1>j. RequestIds' /\ NoResultLeak'
  BY <1>0, <1>4 DEF IInv, RequestIds, NoResultLeak
<1>k. RecordInv'
  <2>1. \A k \in Keys : k = c.key /\ tracked[k] # None => tracked[k].status = "Queued"
    BY <1>5, WebConstants DEF TrackedAs
  <2>2. \A k \in Keys : k = c.key => Completed(k)'
    BY <1>4 DEF Completed
  <2>3. \A k \in Keys : (Sent(k)' <=> Sent(k)) /\ (Handled(k)' <=> Handled(k))
                        /\ ~Submitted(k) /\ ~Completed(k)
    BY <1>0 DEF Sent, Handled, Submitted, Completed
  <2> QED BY <1>0, <1>6, <1>8, <2>1, <2>2, <2>3 DEF IInv, RecordInv
<1> QED BY <1>a, <1>b, <1>c, <1>d, <1>e, <1>f, <1>g, <1>h, <1>i, <1>j, <1>k DEF IInv

LEMMA CompleteKeeps == ASSUME IInv, Complete PROVE IInv'
<1> DEFINE c == loop.held
           New(k) == [tracked[k] EXCEPT !.status =
                        IF loop.status = "Rejected" THEN "Rejected"
                        ELSE IF tracked[k].body.expected = relay.seq THEN "Idempotent"
                        ELSE "Applied"]
<1>0. /\ loop.at = "Complete" /\ loop' = Ready
      /\ tracked' = [k \in Keys |-> IF tracked[k] = None \/ tracked[k].id # c.id
                                    THEN tracked[k] ELSE New(k)]
      /\ UNCHANGED <<requests, results, http, relayQueue, relay, mode, outcome>>
  BY DEF Complete
<1>u. UNCHANGED <<requests, results, http, relayQueue, relay, mode, outcome>>
  BY <1>0
<1>1. loop.status \in {"Accepted", "Rejected"} /\ c \in Queued /\ loop'.at = "Idle"
  BY <1>0 DEF IInv, TypeOK, Ready
<1>2. ASSUME NEW k \in Keys, tracked[k] # None, tracked[k].id = c.id
      PROVE  k = c.key /\ Completed(k)
  <2>1. c.id # None
    BY <1>2, ElementsTyped, WebConstants DEF IInv, Tracked
  <2>2. c.key # None /\ tracked[c.key] # None /\ tracked[c.key].id = c.id
    BY <1>0, <2>1 DEF IInv, CompleteInv
  <2>3. c.key \in Keys
    BY <1>1, <2>2 DEF Queued
  <2> QED BY <1>0, <1>2, <2>2, <2>3 DEF IInv, IdsInv, Completed
<1>3. ASSUME NEW k \in Keys, tracked[k] # None, tracked[k].id = c.id
      PROVE  /\ tracked'[k] \in Tracked /\ tracked'[k] # None
             /\ tracked'[k].id = tracked[k].id /\ tracked'[k].body = tracked[k].body
             /\ tracked'[k].status = IF loop.status = "Rejected" THEN "Rejected"
                                     ELSE IF tracked[k].body.expected = relay.seq
                                     THEN "Idempotent" ELSE "Applied"
  <2>1. tracked[k] \in Tracked
    BY <1>3, ElementsTyped DEF IInv
  <2>2. New(k) \in Tracked /\ tracked'[k] = New(k)
    BY <1>0, <1>3, <2>1 DEF Tracked, CommandStatus
  <2>3. New(k) # None
    BY <2>2, NoneIsNone
  <2> QED BY <2>1, <2>2, <2>3 DEF Tracked
<1>4. \A k \in Keys : tracked[k] = None \/ tracked[k].id # c.id => tracked'[k] = tracked[k]
  BY <1>0
<1>5. \A k \in Keys : Completed(k) => ~Sent(k) /\ ~Due(k) /\ ~Handled(k) /\ ~Submitted(k)
  BY CompletedNowhere
<1>6. \A k \in Keys : Sent(k) \/ Due(k) \/ Handled(k) => tracked'[k] = tracked[k]
  BY <1>2, <1>4, <1>5
<1>7. \A k \in Keys : tracked'[k] # None =>
        tracked[k] # None /\ tracked'[k].id = tracked[k].id /\ tracked'[k].body = tracked[k].body
  BY <1>3, <1>4
<1>a. TypeOK'
  <2>1. tracked' \in [Keys -> Tracked \cup {None}]
    <3>1. \A k \in Keys : tracked'[k] \in Tracked \cup {None}
      BY <1>3, <1>4, ElementsTyped DEF IInv
    <3>2. tracked' = [k \in Keys |-> tracked'[k]]
      BY <1>0
    <3> QED BY <3>1, <3>2
  <2> QED BY <1>0, <2>1 DEF IInv, TypeOK
<1>b. SentOnce' /\ DueOnce' /\ NoResultLeak'
  BY <1>0, <1>1 DEF IInv, SentOnce, DueOnce, NoResultLeak
<1>c. InOnePlace'
  BY <1>0, <1>1 DEF IInv, InOnePlace, Sent, Due, Handled, Submitted
<1>d. SentTracked' /\ DueTracked' /\ HeldTracked'
  <2>1. SentTracked'
    <3> SUFFICES ASSUME NEW i \in DOMAIN requests
                 PROVE  tracked'[requests[i].key] = tracked[requests[i].key]
      BY <1>u DEF IInv, SentTracked, TrackedAs
    <3>1. requests[i].key \in Keys
      BY DEF IInv, SentTracked, TrackedAs
    <3> QED BY <1>6, <3>1 DEF Sent
  <2>2. DueTracked'
    <3> SUFFICES ASSUME NEW i \in DOMAIN relayQueue, relayQueue[i].key # None
                 PROVE  tracked'[relayQueue[i].key] = tracked[relayQueue[i].key]
      BY <1>u DEF IInv, DueTracked, TrackedAs
    <3>1. relayQueue[i].key \in Keys
      BY DEF IInv, DueTracked, TrackedAs
    <3> QED BY <1>6, <3>1 DEF Due
  <2>3. HeldTracked'
    BY <1>0, <1>1, <1>6 DEF IInv, HeldTracked, TrackedAs, Handled
  <2> QED BY <2>1, <2>2, <2>3
<1>e. CompleteInv'
  BY <1>1 DEF CompleteInv
<1>f. IdsInv'
  BY <1>0, <1>7 DEF IInv, IdsInv
<1>g. RequestIds'
  BY <1>0, <1>1 DEF IInv, RequestIds
<1>h. RecordInv'
  <2>1. ASSUME NEW k \in Keys, tracked[k] # None, tracked[k].id = c.id
        PROVE  /\ tracked'[k].status = "Applied" => outcome[k] \in {"Changed", "Unchanged"}
               /\ tracked'[k].status = "Idempotent" => outcome[k] = "Unchanged"
               /\ tracked'[k].status = "Rejected" => outcome[k] = "Rejected"
               /\ tracked'[k].status # "Queued"
    <3>1. k = c.key /\ k # None
      BY <1>2, <2>1, WebConstants
    <3>2. /\ loop.status = "Rejected" => outcome[k] = "Rejected"
          /\ loop.status = "Accepted" => outcome[k] = "Unchanged"
                \/ (outcome[k] = "Changed" /\ tracked[k].body.expected < relay.seq)
      BY <1>0, <3>1 DEF IInv, CompleteInv
    <3>3. tracked[k].body.expected \in Nat /\ relay.seq \in Nat
      BY <2>1, ElementsTyped, WebConstants DEF IInv, Tracked, Body, TypeOK
    <3> QED BY <1>1, <1>3, <2>1, <3>2, <3>3
  <2>2. \A k \in Keys : Completed(k) /\ tracked[k] # None => tracked[k].id = c.id
    BY <1>0, WebConstants DEF IInv, CompleteInv, Completed
  <2>3. \A k \in Keys : (Sent(k)' <=> Sent(k)) /\ (Due(k)' <=> Due(k))
                        /\ (Handled(k)' <=> Handled(k)) /\ ~Submitted(k)
    BY <1>0 DEF Sent, Due, Handled, Submitted
  <2> QED BY <1>0, <1>4, <2>1, <2>2, <2>3 DEF IInv, RecordInv
<1> QED BY <1>a, <1>b, <1>c, <1>d, <1>e, <1>f, <1>g, <1>h DEF IInv

----------------------------------------------------------------------------
(* Expiry, other sources, and what stops the loop or the server. *)

LEMMA ExpireTrackedKeeps == ASSUME IInv, ExpireTracked PROVE IInv'
<1>0. PICK k \in Keys : /\ tracked[k] # None /\ tracked[k].status # "Queued"
                        /\ tracked' = [tracked EXCEPT ![k] = None]
  BY DEF ExpireTracked, ActiveKeys
<1>u. UNCHANGED <<requests, results, http, loop, relayQueue, relay, mode, outcome>>
  BY DEF ExpireTracked
<1>1. /\ \A j \in Keys \ {k} : tracked'[j] = tracked[j]
      /\ tracked'[k] = None
      /\ tracked' \in [Keys -> Tracked \cup {None}]
  BY <1>0 DEF IInv, TypeOK
<1>2. ~Sent(k) /\ ~Due(k) /\ ~Handled(k) /\ ~Submitted(k) /\ ~Completed(k) /\ k # None
  BY <1>0, WebConstants DEF IInv, SentTracked, DueTracked, HeldTracked, CompleteInv, TrackedAs,
     Sent, Due, Handled, Submitted, Completed
<1>a. TypeOK'
  BY <1>u, <1>1 DEF IInv, TypeOK
<1>b. SentOnce' /\ DueOnce' /\ RequestIds' /\ NoResultLeak'
  BY <1>u DEF IInv, SentOnce, DueOnce, RequestIds, NoResultLeak
<1>c. InOnePlace'
  BY <1>u DEF IInv, InOnePlace, Sent, Due, Handled, Submitted
<1>d. SentTracked' /\ DueTracked'
  BY <1>u, <1>1, <1>2 DEF IInv, SentTracked, DueTracked, TrackedAs, Sent, Due
<1>e. HeldTracked'
  BY <1>u, <1>1, <1>2 DEF IInv, HeldTracked, TrackedAs, Handled, Submitted
<1>f. CompleteInv'
  BY <1>u, <1>1, <1>2, HeldTyped DEF IInv, CompleteInv, Completed, Queued
<1>g. IdsInv'
  BY <1>u, <1>1 DEF IInv, IdsInv
<1>h. RecordInv'
  BY <1>u, <1>1 DEF IInv, RecordInv, Sent, Due, Handled, Submitted, Completed
<1> QED BY <1>a, <1>b, <1>c, <1>d, <1>e, <1>f, <1>g, <1>h DEF IInv

LEMMA ExpireResultKeeps == ASSUME IInv, ExpireResult PROVE IInv'
<1>0. PICK i \in Ids : /\ results[i] \notin {None, "Pending"}
                       /\ results' = [results EXCEPT ![i] = None]
  BY DEF ExpireResult
<1>u. UNCHANGED <<tracked, requests, http, loop, relayQueue, relay, mode, outcome>>
  BY DEF ExpireResult
<1>1. /\ \A j \in Ids \ {i} : results'[j] = results[j]
      /\ results'[i] = None /\ None # "Pending"
      /\ results' \in [Ids -> OperationStatus \cup {None}]
  BY <1>0, NoneIsNone DEF IInv, TypeOK, OperationStatus
<1>a. TypeOK'
  BY <1>u, <1>1 DEF IInv, TypeOK
<1>b. SentOnce' /\ DueOnce' /\ SentTracked' /\ DueTracked' /\ HeldTracked'
  BY <1>u DEF IInv, SentOnce, DueOnce, SentTracked, DueTracked, HeldTracked, TrackedAs
<1>c. InOnePlace' /\ RecordInv'
  BY <1>u DEF IInv, InOnePlace, RecordInv, Sent, Due, Handled, Submitted, Completed
<1>d. CompleteInv' /\ IdsInv'
  BY <1>u DEF IInv, CompleteInv, IdsInv
<1>e. RequestIds'
  <2>1. http.at = "Enqueue" => http.request.id \in Ids
    BY HeldTyped DEF IInv, Request
  <2> QED BY <1>u, <1>1, <2>1 DEF IInv, RequestIds
<1>f. NoResultLeak'
  <2>1. {j \in Ids : results'[j] = "Pending"} = {j \in Ids : results[j] = "Pending"}
    BY <1>0, <1>1
  <2> QED BY <1>u, <2>1 DEF IInv, NoResultLeak
<1> QED BY <1>a, <1>b, <1>c, <1>d, <1>e, <1>f DEF IInv

LEMMA OtherSourceKeeps == ASSUME IInv, OtherSource PROVE IInv'
<1> DEFINE q == [key |-> None, id |-> None, action |-> "Toggle"]
           n == Len(relayQueue) + 1
<1>u. UNCHANGED <<tracked, requests, results, http, loop, relay, mode, outcome>>
  BY DEF OtherSource
<1>1. /\ relayQueue' \in Seq(Queued)
      /\ \A i \in DOMAIN relayQueue : i \in DOMAIN relayQueue' /\ relayQueue'[i] = relayQueue[i]
      /\ n \in DOMAIN relayQueue' /\ relayQueue'[n] = q
      /\ \A i \in DOMAIN relayQueue' :
           i \in DOMAIN relayQueue \/ (i = n /\ i \notin DOMAIN relayQueue)
  <2>1. q \in Queued
    BY DEF Queued
  <2> QED BY <2>1, AppendWorks DEF OtherSource, IInv, TypeOK
<1>2. q.key = None /\ q.id = None
  OBVIOUS
<1> HIDE DEF q, n
<1>3. \A k \in Keys : Due(k)' <=> Due(k)
  BY <1>1, <1>2, WebConstants DEF Due
<1>a. TypeOK'
  BY <1>u, <1>1 DEF IInv, TypeOK
<1>b. SentOnce' /\ SentTracked' /\ HeldTracked' /\ CompleteInv' /\ IdsInv'
  BY <1>u DEF IInv, SentOnce, SentTracked, HeldTracked, TrackedAs, CompleteInv, IdsInv
<1>c. DueOnce'
  BY <1>1, <1>2 DEF IInv, DueOnce
<1>d. InOnePlace' /\ RecordInv'
  BY <1>u, <1>3 DEF IInv, InOnePlace, RecordInv, Sent, Handled, Submitted, Completed
<1>e. DueTracked'
  BY <1>u, <1>1, <1>2 DEF IInv, DueTracked, TrackedAs
<1>f. RequestIds' /\ NoResultLeak'
  BY <1>u DEF IInv, RequestIds, NoResultLeak
<1> QED BY <1>a, <1>b, <1>c, <1>d, <1>e, <1>f DEF IInv

\* A factory reset or a watchdog failure: the relay moves to its safe state, and the relay
\* queue is cleared only together with the end of serving.
LEMMA StopKeeps ==
    ASSUME IInv, LockOutAccepted \/ LockOutRefused,
           \/ relayQueue' = <<>> /\ mode' \in {"Stopped", "Halted"}
           \/ UNCHANGED <<relayQueue, mode>>,
           UNCHANGED <<tracked, requests, results, http, loop, outcome>>
    PROVE  IInv'
<1>1. relay' \in Channel /\ relay.seq <= relay'.seq /\ relay.seq \in Nat /\ relay'.seq \in Nat
  BY LockOutMonotone, WebConstants DEF IInv, TypeOK, Channel
<1>2. \A k \in Keys : Due(k)' => Due(k)
  BY DEF Due
<1>3. mode' = "Serving" => mode = "Serving" /\ relayQueue' = relayQueue
  OBVIOUS
<1>4. \A k \in Keys : tracked[k] # None => tracked[k].body.expected \in Nat
  BY ElementsTyped DEF IInv, Tracked, Body
<1>a. TypeOK'
  <2>1. relayQueue' \in Seq(Queued) /\ mode' \in {"Serving", "Stopped", "Halted"}
    <3>1. relayQueue \in Seq(Queued) /\ mode \in {"Serving", "Stopped", "Halted"}
      BY DEF IInv, TypeOK
    <3>2. <<>> \in Seq(Queued)
      BY EmptySeq
    <3> QED BY <3>1, <3>2
  <2> QED BY <1>1, <2>1 DEF IInv, TypeOK, Channel
<1>b. SentOnce' /\ SentTracked' /\ HeldTracked' /\ RequestIds' /\ NoResultLeak'
  BY DEF IInv, SentOnce, SentTracked, HeldTracked, TrackedAs, RequestIds, NoResultLeak
<1>c. DueOnce' /\ DueTracked'
  BY DEF IInv, DueOnce, DueTracked, TrackedAs
<1>d. InOnePlace'
  BY <1>2 DEF IInv, InOnePlace, Sent, Handled, Submitted
<1>e. CompleteInv'
  <2>1. loop.at = "Complete" /\ loop.held.key # None => loop.held.key \in Keys
    BY HeldTyped DEF IInv, Queued
  <2> QED BY <1>1, <1>4, <2>1 DEF IInv, CompleteInv
<1>f. IdsInv'
  BY <1>1, <1>4 DEF IInv, IdsInv
<1>g. RecordInv'
  BY <1>3 DEF IInv, RecordInv, Sent, Due, Handled, Submitted, Completed
<1> QED BY <1>a, <1>b, <1>c, <1>d, <1>e, <1>f, <1>g DEF IInv

LEMMA FactoryResetKeeps == ASSUME IInv, FactoryReset PROVE IInv'
BY StopKeeps DEF FactoryReset

LEMMA WatchdogFailureKeeps == ASSUME IInv, WatchdogFailure PROVE IInv'
BY StopKeeps DEF WatchdogFailure

LEMMA StutterKeeps == ASSUME IInv, UNCHANGED vars PROVE IInv'
<1> USE DEF vars, IInv
<1>a. TypeOK'
  BY DEF TypeOK
<1>b. SentOnce' /\ DueOnce' /\ SentTracked' /\ DueTracked' /\ HeldTracked'
  BY DEF SentOnce, DueOnce, SentTracked, DueTracked, HeldTracked, TrackedAs
<1>c. InOnePlace' /\ RecordInv'
  BY DEF InOnePlace, RecordInv, Sent, Due, Handled, Submitted, Completed
<1>d. CompleteInv' /\ IdsInv' /\ RequestIds' /\ NoResultLeak'
  BY DEF CompleteInv, IdsInv, RequestIds, NoResultLeak
<1> QED BY <1>a, <1>b, <1>c, <1>d

LEMMA StepKeepsIInv == IInv /\ [Next]_vars => IInv'
<1> SUFFICES ASSUME IInv, [Next]_vars PROVE IInv'
  OBVIOUS
<1>1. CASE HttpTask
  BY <1>1, BeginKeeps, EnqueueKeeps, RejectKeeps DEF HttpTask
<1>2. CASE LoopStep
  BY <1>2, TakeRequestKeeps, SubmitKeeps, ReportKeeps, ExecuteKeeps, CompleteKeeps DEF LoopStep
<1>3. CASE ~HttpTask /\ ~LoopStep
  BY <1>3, ExpireTrackedKeeps, ExpireResultKeeps, OtherSourceKeeps, FactoryResetKeeps,
     WatchdogFailureKeeps, StutterKeeps, WebConstants DEF Next
<1> QED BY <1>1, <1>2, <1>3

\* The inductive invariant holds in every state: where each command of the tracker is on
\* its way between the HTTPS task and the loop, and what its record says meanwhile.
THEOREM Invariance == Spec => []IInv
BY InitIInv, StepKeepsIInv, PTL DEF Spec

\* Every variable of WebCommandTracker, WebRequestQueue and the two tasks keeps its type.
THEOREM TypeCorrect == Spec => []TypeOK
BY Invariance, PTL DEF IInv

\* A pending operation is one the loop still has to finish, so that a result slot of
\* WebRequestQueue comes free again.
THEOREM NoSlotLeaks == Spec => []NoResultLeak
BY Invariance, PTL DEF IInv

----------------------------------------------------------------------------
(* Counting the places. *)

LEMMA CountSent ==
    ASSUME IInv, NEW k \in Keys
    PROVE  Cardinality({i \in DOMAIN requests : requests[i].key = k}) = IF Sent(k) THEN 1 ELSE 0
<1> DEFINE P == {i \in DOMAIN requests : requests[i].key = k}
<1>1. CASE Sent(k)
  <2>1. PICK i \in DOMAIN requests : requests[i].key = k
    BY <1>1 DEF Sent
  <2>2. P = {i}
    BY <2>1 DEF IInv, SentOnce
  <2> QED BY <1>1, <2>2, FS_Singleton
<1>2. CASE ~Sent(k)
  <2>1. P = {}
    BY <1>2 DEF Sent
  <2> QED BY <1>2, <2>1, FS_EmptySet
<1> QED BY <1>1, <1>2

LEMMA CountDue ==
    ASSUME IInv, NEW k \in Keys
    PROVE  Cardinality({i \in DOMAIN relayQueue : relayQueue[i].key = k})
             = IF Due(k) THEN 1 ELSE 0
<1> DEFINE P == {i \in DOMAIN relayQueue : relayQueue[i].key = k}
<1>1. CASE Due(k)
  <2>1. PICK i \in DOMAIN relayQueue : relayQueue[i].key = k
    BY <1>1 DEF Due
  <2>2. P = {i}
    BY <2>1, WebConstants DEF IInv, DueOnce
  <2> QED BY <1>1, <2>2, FS_Singleton
<1>2. CASE ~Due(k)
  <2>1. P = {}
    BY <1>2 DEF Due
  <2> QED BY <1>2, <2>1, FS_EmptySet
<1> QED BY <1>1, <1>2

LEMMA CountPlaces ==
    ASSUME IInv, NEW k \in Keys
    PROVE  /\ OnItsWay(k) = (IF Sent(k) THEN 1 ELSE 0) + (IF Due(k) THEN 1 ELSE 0)
                            + (IF Handled(k) THEN 1 ELSE 0) + (IF Submitted(k) THEN 1 ELSE 0)
           /\ OnItsWay(k) \in {0, 1}
           /\ OnItsWay(k) = 1 <=> Sent(k) \/ Due(k) \/ Handled(k) \/ Submitted(k)
           /\ OnItsWay(k) = 1 => outcome[k] = "None" /\ tracked[k].status = "Queued"
<1>1. http # AtRest <=> http.at # "Idle"
  BY DEF IInv, TypeOK, AtRest
<1>2. OnItsWay(k) = (IF Sent(k) THEN 1 ELSE 0) + (IF Due(k) THEN 1 ELSE 0)
                    + (IF Handled(k) THEN 1 ELSE 0) + (IF Submitted(k) THEN 1 ELSE 0)
  <2>1. http # AtRest /\ http.request.key = k <=> Handled(k)
    BY <1>1 DEF Handled
  <2> QED BY CountSent, CountDue, <2>1 DEF OnItsWay, Submitted
<1>3. Sent(k) \/ Due(k) \/ Handled(k) \/ Submitted(k)
        => outcome[k] = "None" /\ tracked[k].status = "Queued"
  BY WebConstants DEF IInv, Sent, Due, Handled, Submitted, SentTracked, DueTracked, HeldTracked,
     TrackedAs
<1> QED BY <1>2, <1>3 DEF IInv, InOnePlace

\* However often and whenever a command is retried under its Idempotency-Key, it reaches
\* RelayCommandService::execute at most once (WebCommandTracker::begin).
THEOREM CommandRunsAtMostOnce == Spec => []AtMostOnce
<1>1. IInv => AtMostOnce
  BY CountPlaces DEF AtMostOnce
<1> QED BY <1>1, Invariance, PTL

\* What the record of a command says is what became of it on the relay
\* (WebCommandTracker::complete and reject, called from the loop and from the handler).
THEOREM RecordsAreTruthful == Spec => []RecordTruthful
<1>1. IInv => RecordTruthful
  <2> SUFFICES ASSUME IInv, NEW k \in Keys, tracked[k] # None
               PROVE  /\ tracked[k].status = "Applied" => outcome[k] \in {"Changed", "Unchanged"}
                      /\ tracked[k].status = "Idempotent" => outcome[k] = "Unchanged"
                      /\ tracked[k].status = "Rejected" =>
                           outcome[k] \in {"None", "Rejected"} /\ OnItsWay(k) = 0
                      /\ tracked[k].status = "Queued" /\ mode = "Serving" =>
                           OnItsWay(k) = 1 \/ (Completing /\ loop.held.key = k)
    BY DEF RecordTruthful, ActiveKeys
  <2> QED BY CountPlaces DEF IInv, RecordInv, Completed, Completing
<1> QED BY <1>1, Invariance, PTL
============================================================================
