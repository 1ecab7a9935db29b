------------------------ MODULE RelayControlProofs ------------------------
(***************************************************************************)
(* Proofs about RelayControl for every number of channels, every queue     *)
(* size and every set of requests.                                         *)
(***************************************************************************)
EXTENDS RelayControl, SequenceTheorems, TLAPS

\* A batch with a Safety command in it only switches off (RelayCommandQueue::enqueue).
QueueSafetyPure ==
    \A i \in DOMAIN queue : ContainsSafety(queue[i]) => IsSafetyOff(queue[i])

\* The inductive invariant.  QueueSafetyPure is what keeps a queued batch from passing
\* the arbiter with a Safety command that switches on.
IInv ==
    /\ TypeOK
    /\ SnapshotTruthful
    /\ LockoutFlagExact
    /\ SafetyReserveHeld
    /\ QueueSafetyPure

----------------------------------------------------------------------------
(* One channel. *)

LEMMA IncrementType ==
    ASSUME NEW s \in 0 .. MaxSequence
    PROVE  IncrementSequence(s) \in 0 .. MaxSequence
BY RelayConstants DEF IncrementSequence

LEMMA DesiredType ==
    ASSUME NEW current, NEW action
    PROVE  RequestedState(current, action) \in RelayState
BY DEF RequestedState, RelayState

\* What a failed write does to a channel, whatever its output was left at.
LEMMA FailWriteEffect ==
    ASSUME NEW r \in Snapshot, NEW d \in RelayState, NEW forced \in BOOLEAN
    PROVE  LET w == FailWrite([r EXCEPT !.output = d], forced)
           IN  /\ w \in Snapshot
               /\ w.fault = "OutputFailure"
               /\ w.lockedOut
               /\ r.applied = "Off" => w.applied = "Off"
               /\ w.seq = IF w.applied # r.applied THEN IncrementSequence(r.seq) ELSE r.seq
BY IncrementType DEF FailWrite, ForceSafeOff, Snapshot, RelayState, CommandSource

LEMMA FailWriteSame ==
    ASSUME NEW r \in Snapshot, NEW forced \in BOOLEAN
    PROVE  FailWrite(r, forced) = FailWrite([r EXCEPT !.output = r.output], forced)
<1>1. [r EXCEPT !.output = r.output] = r
  BY DEF Snapshot
<1> QED BY <1>1

LEMMA FailWriteOwnEffect ==
    ASSUME NEW r \in Snapshot, NEW forced \in BOOLEAN
    PROVE  LET w == FailWrite(r, forced)
           IN  /\ w \in Snapshot
               /\ w.fault = "OutputFailure"
               /\ w.lockedOut
               /\ r.applied = "Off" => w.applied = "Off"
               /\ w.seq = IF w.applied # r.applied THEN IncrementSequence(r.seq) ELSE r.seq
BY IncrementType DEF FailWrite, ForceSafeOff, Snapshot, RelayState, CommandSource

LEMMA CommitEffect ==
    ASSUME NEW r \in Snapshot, NEW d \in RelayState, NEW s \in CommandSource
    PROVE  LET w == Commit(r, d, s)
           IN  /\ w \in Snapshot
               /\ w.fault = r.fault
               /\ w.lockedOut = r.lockedOut
               /\ w.applied = d
               /\ r.applied = r.output => w.output = d
               /\ w.seq = IF w.applied # r.applied THEN IncrementSequence(r.seq) ELSE r.seq
BY IncrementType DEF Commit, Snapshot, RelayState, CommandSource

LEMMA LockOutEffect ==
    ASSUME NEW r \in Snapshot, NEW write
    PROVE  LET w == LockOut(r, write)
           IN  /\ w \in Snapshot
               /\ w.lockedOut
               /\ r.fault # "None" => w.fault # "None"
               /\ w.fault = "None" => w.fault = r.fault /\ (r.applied = r.output => w.applied = w.output)
               /\ r.applied = "Off" => w.applied = "Off"
               /\ w.seq = IF w.applied # r.applied THEN IncrementSequence(r.seq) ELSE r.seq
<1> DEFINE locked == [r EXCEPT !.lockedOut = TRUE]
           asked == [locked EXCEPT !.requested = "Off", !.source = "Safety"]
<1>1. /\ locked \in Snapshot /\ locked.lockedOut /\ locked.fault = r.fault
      /\ locked.applied = r.applied /\ locked.seq = r.seq /\ locked.output = r.output
  BY DEF Snapshot
<1>2. /\ asked \in Snapshot /\ asked.applied = r.applied /\ asked.seq = r.seq
  BY <1>1 DEF Snapshot, RelayState, CommandSource
<1>3. CASE r.applied = "Off" \/ write = "Applied"
  <2>1. LockOut(r, write) = Commit(locked, "Off", "Safety")
    BY <1>3 DEF LockOut
  <2>2. "Off" \in RelayState /\ "Safety" \in CommandSource
    BY DEF RelayState, CommandSource
  <2> HIDE DEF locked
  <2> QED BY <1>1, <2>1, <2>2, CommitEffect
<1>4. CASE ~(r.applied = "Off" \/ write = "Applied")
  <2>1. LockOut(r, write) = FailWrite(asked, write = "Forced")
    BY <1>4 DEF LockOut
  <2>3. asked.output \in RelayState /\ (write = "Forced") \in BOOLEAN
    BY <1>2 DEF Snapshot
  <2> HIDE DEF asked
  <2>4. LET w == FailWrite(asked, write = "Forced")
        IN  /\ w \in Snapshot /\ w.fault = "OutputFailure" /\ w.lockedOut
            /\ asked.applied = "Off" => w.applied = "Off"
            /\ w.seq = IF w.applied # asked.applied THEN IncrementSequence(asked.seq)
                       ELSE asked.seq
    BY <1>2, <2>3, FailWriteOwnEffect
  <2> QED BY <1>2, <2>1, <2>4
<1> QED BY <1>3, <1>4

----------------------------------------------------------------------------
(* One batch. *)

\* The four things a batch can do to a channel.
Untouched(c) == relay'[c] = relay[c]
WrittenBack(c) == relay'[c] = [relay[c] EXCEPT !.output = relay[c].applied]
Failed(c) ==
    \E d \in RelayState, forced \in BOOLEAN :
        relay'[c] = FailWrite([relay[c] EXCEPT !.output = d], forced)
Committed(c, cmd) ==
    /\ cmd.channel = c
    /\ Permitted(cmd)
    /\ relay'[c] = Commit(relay[c], RequestedState(relay[c].applied, cmd.action), cmd.source)

LEMMA IndexOfWorks ==
    ASSUME NEW b \in Seq(RelayCommand), NEW c \in Channels, HasChannel(b, c)
    PROVE  IndexOf(b, c) \in DOMAIN b /\ b[IndexOf(b, c)].channel = c
BY DEF HasChannel, IndexOf

LEMMA RollbackPerChannel ==
    ASSUME TypeOK, NEW b \in Seq(RelayCommand), NEW k \in Changed(b), NEW forced \in BOOLEAN,
           NEW lost \in SUBSET {i \in Changed(b) : i < k}, NEW saved \in SUBSET lost,
           BatchRolledBack(b, k, forced, lost, saved)
    PROVE  /\ relay' = [c \in Channels |-> relay'[c]]
           /\ \A c \in Channels : Untouched(c) \/ WrittenBack(c) \/ Failed(c)
<1>1. ASSUME NEW c \in Channels
      PROVE  Untouched(c) \/ WrittenBack(c) \/ Failed(c)
  <2> DEFINE i == IndexOf(b, c)
  <2>1. CASE ~HasChannel(b, c) \/ i \notin Changed(b) \/ i > k
    BY <2>1 DEF BatchRolledBack, Untouched
  <2>2. CASE ~(~HasChannel(b, c) \/ i \notin Changed(b) \/ i > k) /\ i = k
    <3>1. relay'[c] = FailWrite(relay[c], forced)
      BY <2>2 DEF BatchRolledBack
    <3>2. relay[c] \in Snapshot /\ relay[c].output \in RelayState
      BY DEF TypeOK, Snapshot
    <3> QED BY <3>1, <3>2, FailWriteSame DEF Failed
  <2>3. CASE ~(~HasChannel(b, c) \/ i \notin Changed(b) \/ i > k) /\ i # k /\ i \in lost
    <3>1. relay'[c] = FailWrite([relay[c] EXCEPT !.output = Desired(b, i)], i \in saved)
      BY <2>3 DEF BatchRolledBack
    <3>2. Desired(b, i) \in RelayState /\ (i \in saved) \in BOOLEAN
      BY DesiredType DEF Desired
    <3> QED BY <3>1, <3>2 DEF Failed
  <2>4. CASE ~(~HasChannel(b, c) \/ i \notin Changed(b) \/ i > k) /\ i # k /\ i \notin lost
    BY <2>4 DEF BatchRolledBack, WrittenBack
  <2> QED BY <2>1, <2>2, <2>3, <2>4
<1> QED BY <1>1 DEF BatchRolledBack

LEMMA BatchPerChannel ==
    ASSUME TypeOK, NEW b \in Seq(RelayCommand), NEW op, ExecuteBatch(b, op)
    PROVE  /\ relay' = [c \in Channels |-> relay'[c]]
           /\ \A c \in Channels :
                \/ Untouched(c) \/ WrittenBack(c) \/ Failed(c)
                \/ \E i \in DOMAIN b : Committed(c, b[i])
<1>1. CASE UNCHANGED relay
  BY <1>1 DEF Untouched, TypeOK
<1>2. CASE Refusal(b) = "None" /\ BatchApplied(b)
  <2>1. ASSUME NEW c \in Channels, HasChannel(b, c)
        PROVE  \E i \in DOMAIN b : Committed(c, b[i])
    <3> DEFINE i == IndexOf(b, c)
    <3>1. i \in DOMAIN b /\ b[i].channel = c
      BY <2>1, IndexOfWorks
    <3>2. Permitted(b[i])
      BY <1>2, <3>1 DEF Refusal, Objections
    <3>3. relay'[c] = Commit(relay[c], RequestedState(relay[c].applied, b[i].action), b[i].source)
      BY <1>2, <2>1, <3>1 DEF BatchApplied, Desired
    <3> QED BY <3>1, <3>2, <3>3 DEF Committed
  <2>2. ASSUME NEW c \in Channels, ~HasChannel(b, c)
        PROVE  Untouched(c)
    BY <1>2, <2>2 DEF BatchApplied, Untouched
  <2> QED BY <1>2, <2>1, <2>2 DEF BatchApplied
<1> QED BY <1>1, <1>2, RollbackPerChannel DEF ExecuteBatch

\* What every step but a reset keeps of a channel: its type, its truthfulness, its lockout
\* flag, its lockout and fault, and the count of its transitions.
ChannelKept(c) ==
    /\ lockout'[c] \in BOOLEAN
    /\ lockout[c] => lockout'[c]
    /\ relay'[c] \in Snapshot
    /\ relay'[c].fault = "None" => relay'[c].applied = relay'[c].output
    /\ relay'[c].lockedOut <=> (lockout'[c] \/ relay'[c].fault # "None")
    /\ relay[c].fault # "None" => relay'[c].fault # "None"
    /\ relay'[c].seq = IF relay'[c].applied # relay[c].applied
                       THEN IncrementSequence(relay[c].seq) ELSE relay[c].seq

LEMMA BatchKeepsChannels ==
    ASSUME TypeOK, SnapshotTruthful, LockoutFlagExact,
           NEW b \in Seq(RelayCommand), NEW op, ExecuteBatch(b, op), UNCHANGED lockout
    PROVE  \A c \in Channels : ChannelKept(c)
<1> SUFFICES ASSUME NEW c \in Channels PROVE ChannelKept(c)
  OBVIOUS
<1> DEFINE r == relay[c]
<1>1. /\ r \in Snapshot
      /\ r.fault = "None" => r.applied = r.output
      /\ r.lockedOut <=> (lockout[c] \/ r.fault # "None")
      /\ lockout[c] \in BOOLEAN /\ lockout'[c] = lockout[c]
  BY DEF TypeOK, SnapshotTruthful, LockoutFlagExact
<1>2. \/ Untouched(c) \/ WrittenBack(c) \/ Failed(c)
      \/ \E i \in DOMAIN b : Committed(c, b[i])
  BY BatchPerChannel
<1>3. CASE Untouched(c)
  BY <1>1, <1>3 DEF Untouched, ChannelKept
<1>4. CASE WrittenBack(c)
  BY <1>1, <1>4 DEF WrittenBack, ChannelKept, Snapshot
<1>5. CASE Failed(c)
  <2>1. PICK d \in RelayState, forced \in BOOLEAN :
          relay'[c] = FailWrite([r EXCEPT !.output = d], forced)
    BY <1>5 DEF Failed
  <2>2. /\ relay'[c] \in Snapshot
        /\ relay'[c].fault = "OutputFailure"
        /\ relay'[c].lockedOut
        /\ relay'[c].seq = IF relay'[c].applied # r.applied THEN IncrementSequence(r.seq)
                           ELSE r.seq
    BY <1>1, <2>1, FailWriteEffect
  <2> QED BY <1>1, <2>2 DEF ChannelKept
<1>6. CASE \E i \in DOMAIN b : Committed(c, b[i])
  <2>1. PICK i \in DOMAIN b : Committed(c, b[i])
    BY <1>6
  <2> DEFINE d == RequestedState(r.applied, b[i].action)
  <2>2. d \in RelayState /\ b[i].source \in CommandSource
    <3>1. b[i] \in RelayCommand
      OBVIOUS
    <3>2. b[i].source \in CommandSource
      BY <3>1 DEF RelayCommand
    <3> QED BY <3>2, DesiredType
  <2>3. relay'[c] = Commit(r, d, b[i].source)
    BY <2>1 DEF Committed
  <2> HIDE DEF d
  <2>4. /\ relay'[c] \in Snapshot
        /\ relay'[c].fault = r.fault
        /\ relay'[c].lockedOut = r.lockedOut
        /\ relay'[c].applied = d
        /\ r.applied = r.output => relay'[c].output = d
        /\ relay'[c].seq = IF relay'[c].applied # r.applied THEN IncrementSequence(r.seq)
                           ELSE r.seq
    BY <1>1, <2>2, <2>3, CommitEffect
  <2>5. r.lockedOut \in BOOLEAN /\ relay'[c].lockedOut \in BOOLEAN
    BY <1>1, <2>4 DEF Snapshot
  <2>6. relay'[c].lockedOut <=> r.lockedOut
    BY <2>4, <2>5
  <2>7. relay'[c].lockedOut <=> (lockout'[c] \/ relay'[c].fault # "None")
    BY <1>1, <2>4, <2>6
  <2>8. relay'[c].fault = "None" => relay'[c].applied = relay'[c].output
    BY <1>1, <2>4
  <2> QED BY <1>1, <2>4, <2>7, <2>8 DEF ChannelKept
<1> QED BY <1>2, <1>3, <1>4, <1>5, <1>6

LEMMA ExecuteBatchResult ==
    ASSUME NEW b, NEW op \in {"Boot", "Batch"}, ExecuteBatch(b, op)
    PROVE  result' \in Result
BY DEF ExecuteBatch, Refusal, Report, Result, RelayCommandReason

----------------------------------------------------------------------------
(* Lockouts, and every step but a reset. *)

LEMMA LockOutKeepsChannels ==
    ASSUME TypeOK, SnapshotTruthful, LockoutFlagExact,
           NEW c \in Channels, NEW write,
           relay'[c] = LockOut(relay[c], write), lockout'[c] = TRUE
    PROVE  ChannelKept(c)
<1>1. /\ relay[c] \in Snapshot
      /\ relay[c].fault = "None" => relay[c].applied = relay[c].output
  BY DEF TypeOK, SnapshotTruthful
<1>2. /\ relay'[c] \in Snapshot
      /\ relay'[c].lockedOut
      /\ relay[c].fault # "None" => relay'[c].fault # "None"
      /\ relay'[c].fault = "None" =>
            relay'[c].fault = relay[c].fault
            /\ (relay[c].applied = relay[c].output => relay'[c].applied = relay'[c].output)
      /\ relay'[c].seq = IF relay'[c].applied # relay[c].applied
                         THEN IncrementSequence(relay[c].seq) ELSE relay[c].seq
  BY <1>1, LockOutEffect
<1> QED BY <1>1, <1>2 DEF ChannelKept

LEMMA UntouchedKeepsChannel ==
    ASSUME TypeOK, SnapshotTruthful, LockoutFlagExact,
           NEW c \in Channels, relay'[c] = relay[c], lockout'[c] = lockout[c]
    PROVE  ChannelKept(c)
<1>1. relay[c] \in Snapshot /\ lockout[c] \in BOOLEAN
  BY DEF TypeOK
<1> QED BY <1>1 DEF ChannelKept, SnapshotTruthful, LockoutFlagExact

LEMMA RestorePlanType ==
    ASSUME NEW plan
    PROVE  RestorePlan(plan) \in Seq(RelayCommand)
<1>1. ChannelCount \in Nat
  BY RelayConstants
<1>2. ASSUME NEW i \in 1 .. ChannelCount
      PROVE  [channel |-> i - 1, source |-> "Restore",
              action |-> IF plan[i - 1] = "On" THEN "SetOn" ELSE "SetOff"] \in RelayCommand
  BY <1>1 DEF RelayCommand, Channels, RelayAction, CommandSource
<1> QED BY <1>1, <1>2 DEF RestorePlan

LEMMA StepKeepsChannels ==
    ASSUME IInv, Next, phase' # "PoweredOn"
    PROVE  \A c \in Channels : ChannelKept(c)
<1> USE DEF IInv
<1>1. CASE BootAborted
  BY <1>1, UntouchedKeepsChannel DEF BootAborted
<1>2. CASE BootOutputFailure
  <2> SUFFICES ASSUME NEW c \in Channels PROVE ChannelKept(c)
    OBVIOUS
  <2>1. CASE relay'[c] = relay[c]
    BY <1>2, <2>1, UntouchedKeepsChannel DEF BootOutputFailure
  <2>2. CASE relay'[c] = FailWrite(relay[c], FALSE)
    <3>1. relay[c] \in Snapshot /\ lockout[c] \in BOOLEAN /\ lockout' = lockout
      BY <1>2 DEF TypeOK, BootOutputFailure
    <3> DEFINE w == FailWrite(relay[c], FALSE)
    <3>2. /\ w \in Snapshot
          /\ w.fault = "OutputFailure"
          /\ w.lockedOut
          /\ w.seq = IF w.applied # relay[c].applied THEN IncrementSequence(relay[c].seq)
                     ELSE relay[c].seq
      BY <3>1, FailWriteOwnEffect
    <3> QED BY <2>2, <3>1, <3>2 DEF ChannelKept
  <2> QED BY <1>2, <2>1, <2>2 DEF BootOutputFailure
<1>3. CASE BootRestore
  <2>1. PICK plan \in BootPlans : ExecuteBatch(RestorePlan(plan), "Boot")
    BY <1>3 DEF BootRestore
  <2>2. UNCHANGED lockout
    BY <1>3 DEF BootRestore
  <2> QED BY <2>1, <2>2, RestorePlanType, BatchKeepsChannels
<1>4. CASE \E b \in Requests : Request(b)
  BY <1>4, UntouchedKeepsChannel DEF Request
<1>5. CASE ProcessRelayCommand
  <2>1. Head(queue) \in Seq(RelayCommand)
    <3>1. queue \in Seq(Requests) /\ queue # <<>>
      BY <1>5 DEF ProcessRelayCommand, TypeOK
    <3>2. Head(queue) \in Requests
      BY <3>1
    <3> QED BY <3>2, RelayConstants
  <2>2. ExecuteBatch(Head(queue), "Batch") /\ UNCHANGED lockout
    BY <1>5 DEF ProcessRelayCommand
  <2> QED BY <2>1, <2>2, BatchKeepsChannels
<1>6. CASE FactoryReset
  <2> SUFFICES ASSUME NEW c \in Channels PROVE ChannelKept(c)
    OBVIOUS
  <2>1. PICK writes \in [Channels -> {"Applied", "Forced", "Stuck"}], reached \in SUBSET Channels :
          /\ lockout' = [d \in Channels |-> lockout[d] \/ d \in reached]
          /\ relay' = [d \in Channels |-> IF d \in reached THEN LockOut(relay[d], writes[d])
                                          ELSE relay[d]]
    BY <1>6 DEF FactoryReset
  <2>2. CASE c \in reached
    BY <2>1, <2>2, LockOutKeepsChannels
  <2>3. CASE c \notin reached
    <3>1. lockout'[c] = lockout[c]
      BY <2>1, <2>3 DEF TypeOK
    <3> QED BY <2>1, <2>3, <3>1, UntouchedKeepsChannel
  <2> QED BY <2>2, <2>3
<1>7. CASE WatchdogFailure
  <2> SUFFICES ASSUME NEW c \in Channels PROVE ChannelKept(c)
    OBVIOUS
  <2>1. PICK writes \in [Channels -> {"Applied", "Forced", "Stuck"}] :
          relay'[c] = LockOut(relay[c], writes[c])
    BY <1>7 DEF WatchdogFailure
  <2>2. lockout'[c] = TRUE
    BY <1>7 DEF WatchdogFailure
  <2> QED BY <2>1, <2>2, LockOutKeepsChannels
<1>8. ~Reset
  BY DEF Reset
<1> QED BY <1>1, <1>2, <1>3, <1>4, <1>5, <1>6, <1>7, <1>8 DEF Next

----------------------------------------------------------------------------
(* The invariant. *)

\* The conjuncts about channels, from what a step keeps of each.
LEMMA KeptChannelsInv ==
    ASSUME DOMAIN relay' = Channels, DOMAIN lockout' = Channels,
           relay' = [c \in Channels |-> relay'[c]],
           lockout' = [c \in Channels |-> lockout'[c]],
           \A c \in Channels : ChannelKept(c)
    PROVE  /\ relay' \in [Channels -> Snapshot]
           /\ lockout' \in [Channels -> BOOLEAN]
           /\ SnapshotTruthful'
           /\ LockoutFlagExact'
BY DEF ChannelKept, SnapshotTruthful, LockoutFlagExact

LEMMA StepShape ==
    ASSUME TypeOK, Next
    PROVE  /\ DOMAIN relay' = Channels /\ relay' = [c \in Channels |-> relay'[c]]
           /\ DOMAIN lockout' = Channels /\ lockout' = [c \in Channels |-> lockout'[c]]
           /\ phase' \in {"PoweredOn", "Running", "Halted"}
           /\ result' \in Result
<1>1. CASE BootAborted
  BY <1>1 DEF BootAborted, TypeOK
<1>2. CASE BootOutputFailure
  BY <1>2 DEF BootOutputFailure, TypeOK, Report, Result, RelayCommandReason
<1>3. CASE BootRestore
  <2>1. PICK plan \in BootPlans : ExecuteBatch(RestorePlan(plan), "Boot")
    BY <1>3 DEF BootRestore
  <2>2. relay' = [c \in Channels |-> relay'[c]]
    BY <2>1, RestorePlanType, BatchPerChannel
  <2>3. result' \in Result
    BY <2>1, ExecuteBatchResult
  <2>4. DOMAIN relay' = Channels
    BY <2>2
  <2> QED BY <1>3, <2>2, <2>3, <2>4 DEF BootRestore, TypeOK
<1>4. CASE \E b \in Requests : Request(b)
  BY <1>4 DEF Request, TypeOK, Report, Result, RelayCommandReason
<1>5. CASE ProcessRelayCommand
  <2>1. Head(queue) \in Seq(RelayCommand)
    <3>1. queue \in Seq(Requests) /\ queue # <<>>
      BY <1>5 DEF ProcessRelayCommand, TypeOK
    <3>2. Head(queue) \in Requests
      BY <3>1
    <3> QED BY <3>2, RelayConstants
  <2>2. ExecuteBatch(Head(queue), "Batch")
    BY <1>5 DEF ProcessRelayCommand
  <2>3. relay' = [c \in Channels |-> relay'[c]]
    BY <2>1, <2>2, BatchPerChannel
  <2>4. result' \in Result
    BY <2>2, ExecuteBatchResult
  <2>5. DOMAIN relay' = Channels
    BY <2>3
  <2> QED BY <1>5, <2>3, <2>4, <2>5 DEF ProcessRelayCommand, TypeOK
<1>6. CASE FactoryReset
  <2>1. /\ relay' = [c \in Channels |-> relay'[c]] /\ DOMAIN relay' = Channels
        /\ lockout' = [c \in Channels |-> lockout'[c]] /\ DOMAIN lockout' = Channels
        /\ phase' = phase
    BY <1>6 DEF FactoryReset
  <2>2. result' \in Result
    BY <1>6 DEF FactoryReset, Report, Result, RelayCommandReason
  <2> QED BY <2>1, <2>2 DEF TypeOK
<1>7. CASE WatchdogFailure
  BY <1>7 DEF WatchdogFailure, Report, Result, RelayCommandReason
<1>8. CASE Reset
  BY <1>8 DEF Reset, Report, Result, RelayCommandReason
<1> QED BY <1>1, <1>2, <1>3, <1>4, <1>5, <1>6, <1>7, <1>8 DEF Next

\* The queue keeps its type, its reserve and its purity: only Request appends to it.
LEMMA StepQueue ==
    ASSUME IInv, Next
    PROVE  /\ queue' \in Seq(Requests)
           /\ SafetyReserveHeld'
           /\ QueueSafetyPure'
<1>1. queue \in Seq(Requests)
  BY DEF IInv, TypeOK
<1>2. CASE UNCHANGED queue
  BY <1>1, <1>2 DEF IInv, SafetyReserveHeld, QueueSafetyPure
<1>3. CASE queue' = <<>>
  BY <1>3 DEF SafetyReserveHeld, QueueSafetyPure
<1>4. CASE queue # <<>> /\ queue' = Tail(queue)
  <2>1. /\ queue' \in Seq(Requests)
        /\ Len(queue') = Len(queue) - 1
        /\ \A i \in DOMAIN queue' : queue'[i] = queue[i + 1] /\ i + 1 \in DOMAIN queue
    BY <1>1, <1>4
  <2>2. Capacity - SafetyReserve \in Int
    BY RelayConstants
  <2>3. SafetyReserveHeld'
    <3> SUFFICES ASSUME NEW i \in DOMAIN queue', ~IsSafetyOff(queue'[i])
                 PROVE  i <= Capacity - SafetyReserve
      BY DEF SafetyReserveHeld
    <3>1. i + 1 <= Capacity - SafetyReserve
      BY <2>1 DEF IInv, SafetyReserveHeld
    <3>2. i \in Nat
      BY <2>1
    <3> QED BY <2>2, <3>1, <3>2
  <2>4. QueueSafetyPure'
    BY <2>1 DEF IInv, QueueSafetyPure
  <2> QED BY <2>1, <2>3, <2>4
<1>5. ASSUME NEW b \in Requests, Admits(b), queue' = Append(queue, b)
      PROVE  /\ queue' \in Seq(Requests)
             /\ SafetyReserveHeld'
             /\ QueueSafetyPure'
  <2>1. /\ queue' \in Seq(Requests)
        /\ DOMAIN queue' = 1 .. (Len(queue) + 1)
        /\ \A i \in DOMAIN queue' :
              \/ i \in DOMAIN queue /\ queue'[i] = queue[i]
              \/ i = Len(queue) + 1 /\ queue'[i] = b
    BY <1>1, <1>5
  <2>2. ~IsSafetyOff(b) => Len(queue) + 1 <= Capacity - SafetyReserve
    BY <1>1, <1>5, RelayConstants DEF Admits
  <2>3. SafetyReserveHeld'
    <3> SUFFICES ASSUME NEW i \in DOMAIN queue', ~IsSafetyOff(queue'[i])
                 PROVE  i <= Capacity - SafetyReserve
      BY DEF SafetyReserveHeld
    <3> QED BY <2>1, <2>2 DEF IInv, SafetyReserveHeld
  <2>4. QueueSafetyPure'
    BY <1>5, <2>1 DEF IInv, QueueSafetyPure, Admits
  <2> QED BY <2>1, <2>3, <2>4
<1>6. ASSUME NEW b \in Requests, Request(b)
      PROVE  UNCHANGED queue \/ (Admits(b) /\ queue' = Append(queue, b))
  BY <1>6 DEF Request, AcceptableRequest
<1>7. \/ UNCHANGED queue \/ queue' = <<>>
      \/ (queue # <<>> /\ queue' = Tail(queue))
      \/ \E b \in Requests : Request(b)
  BY DEF Next, BootAborted, BootOutputFailure, BootRestore, ProcessRelayCommand,
         FactoryReset, WatchdogFailure, Reset
<1> QED BY <1>2, <1>3, <1>4, <1>5, <1>6, <1>7

LEMMA InitInv == Init => IInv
<1> SUFFICES ASSUME Init PROVE IInv
  OBVIOUS
<1>1. FreshSnapshot \in Snapshot
  BY RelayConstants DEF FreshSnapshot, Snapshot, RelayState, CommandSource
<1>2. TypeOK
  BY <1>1 DEF Init, TypeOK, Report, Result, RelayCommandReason
<1>3. SnapshotTruthful /\ LockoutFlagExact
  BY DEF Init, SnapshotTruthful, LockoutFlagExact, FreshSnapshot
<1>4. SafetyReserveHeld /\ QueueSafetyPure
  BY DEF Init, SafetyReserveHeld, QueueSafetyPure
<1> QED BY <1>2, <1>3, <1>4 DEF IInv

LEMMA StepInv == IInv /\ [Next]_vars => IInv'
<1> SUFFICES ASSUME IInv, [Next]_vars PROVE IInv'
  OBVIOUS
<1>1. CASE UNCHANGED vars
  BY <1>1 DEF vars, IInv, TypeOK, SnapshotTruthful, LockoutFlagExact,
              SafetyReserveHeld, QueueSafetyPure
<1>2. CASE Next /\ phase' # "PoweredOn"
  <2>1. TypeOK
    BY DEF IInv
  <2>2. \A c \in Channels : ChannelKept(c)
    BY <1>2, StepKeepsChannels
  <2>3. /\ relay' \in [Channels -> Snapshot] /\ lockout' \in [Channels -> BOOLEAN]
        /\ SnapshotTruthful' /\ LockoutFlagExact'
    BY <1>2, <2>1, <2>2, StepShape, KeptChannelsInv
  <2>4. TypeOK'
    BY <1>2, <2>1, <2>3, StepShape, StepQueue DEF TypeOK
  <2> QED BY <1>2, <2>3, <2>4, StepQueue DEF IInv
<1>3. CASE Next /\ phase' = "PoweredOn"
  <2>1. Reset
    BY <1>3 DEF Next, BootAborted, BootOutputFailure, BootRestore, Request,
                ProcessRelayCommand, FactoryReset, WatchdogFailure
  <2>2. FreshSnapshot \in Snapshot
    BY RelayConstants DEF FreshSnapshot, Snapshot, RelayState, CommandSource
  <2>3. TypeOK'
    BY <2>1, <2>2 DEF Reset, TypeOK, Report, Result, RelayCommandReason
  <2>4. SnapshotTruthful' /\ LockoutFlagExact'
    BY <2>1 DEF Reset, SnapshotTruthful, LockoutFlagExact, FreshSnapshot
  <2>5. SafetyReserveHeld' /\ QueueSafetyPure'
    BY <2>1 DEF Reset, SafetyReserveHeld, QueueSafetyPure
  <2> QED BY <2>3, <2>4, <2>5 DEF IInv
<1> QED BY <1>1, <1>2, <1>3

\* The inductive invariant holds in every reachable state.
THEOREM Invariance == Spec => []IInv
BY InitInv, StepInv, PTL DEF Spec

\* Every variable keeps its type; in particular the transition counters never leave
\* 0 .. MaxSequence and only accepted requests stand in the queue.
THEOREM TypeCorrect == Spec => []TypeOK
<1>1. IInv => TypeOK
  BY DEF IInv
<1> QED BY <1>1, Invariance, PTL

\* A channel without a fault is at the level its snapshot reports (the rollback of
\* executeBatch and forceSafeOff), for every number of channels and every batch.
THEOREM SnapshotsAreTruthful == Spec => []SnapshotTruthful
<1>1. IInv => SnapshotTruthful
  BY DEF IInv
<1> QED BY <1>1, Invariance, PTL

\* The lockedOut flag is exactly "locked by the arbiter or faulted".
THEOREM LockoutFlagsAreExact == Spec => []LockoutFlagExact
<1>1. IInv => LockoutFlagExact
  BY DEF IInv
<1> QED BY <1>1, Invariance, PTL

\* Ordinary batches never take the reserved slots, for every queue size and reserve.
THEOREM ReserveIsHeld == Spec => []SafetyReserveHeld
<1>1. IInv => SafetyReserveHeld
  BY DEF IInv
<1> QED BY <1>1, Invariance, PTL

----------------------------------------------------------------------------
(* What a step never does. *)

\* No lockout is lifted and no output failure forgotten before the device restarts.
THEOREM FaultsAreLatched == Spec => FaultLatched
<1>1. IInv /\ [Next]_vars =>
        (phase' # "PoweredOn" =>
           \A c \in Channels :
              /\ lockout[c] => lockout'[c]
              /\ relay[c].fault # "None" => relay'[c].fault # "None")
        \/ UNCHANGED vars
  BY StepKeepsChannels DEF ChannelKept
<1> QED BY <1>1, Invariance, PTL DEF Spec, FaultLatched

\* The sequence number of a channel moves by one exactly when its applied state
\* changes, unless it is saturated.
THEOREM SequencesCount == Spec => SequenceCountsTransitions
<1> DEFINE Counted ==
      phase' # "PoweredOn" =>
        \A c \in Channels :
          relay'[c].seq = IF relay'[c].applied # relay[c].applied /\ relay[c].seq < MaxSequence
                          THEN relay[c].seq + 1 ELSE relay[c].seq
<1>1. IInv /\ [Next]_vars => Counted \/ UNCHANGED vars
  <2> SUFFICES ASSUME IInv, Next, phase' # "PoweredOn", NEW c \in Channels
               PROVE  relay'[c].seq =
                        IF relay'[c].applied # relay[c].applied /\ relay[c].seq < MaxSequence
                        THEN relay[c].seq + 1 ELSE relay[c].seq
    OBVIOUS
  <2>1. ChannelKept(c)
    BY StepKeepsChannels
  <2> QED BY <2>1 DEF ChannelKept, IncrementSequence
<1> QED BY <1>1, Invariance, PTL DEF Spec, SequenceCountsTransitions

\* What executes without a Safety command that switches on never switches on a channel
\* that the arbiter locks or that has failed.
LEMMA BatchLeavesLockedOff ==
    ASSUME TypeOK, NEW b \in Seq(RelayCommand), NEW op, ExecuteBatch(b, op),
           \A i \in DOMAIN b : b[i].source = "Safety" => b[i].action = "SetOff",
           NEW c \in Channels, lockout[c] \/ relay[c].fault # "None",
           relay[c].applied = "Off"
    PROVE  relay'[c].applied = "Off"
<1>0. relay[c] \in Snapshot
  BY DEF TypeOK
<1>1. \/ Untouched(c) \/ WrittenBack(c) \/ Failed(c)
      \/ \E i \in DOMAIN b : Committed(c, b[i])
  BY BatchPerChannel
<1>2. CASE Untouched(c)
  BY <1>2 DEF Untouched
<1>3. CASE WrittenBack(c)
  BY <1>0, <1>3 DEF WrittenBack, Snapshot
<1>4. CASE Failed(c)
  <2>1. PICK d \in RelayState, forced \in BOOLEAN :
          relay'[c] = FailWrite([relay[c] EXCEPT !.output = d], forced)
    BY <1>4 DEF Failed
  <2> QED BY <1>0, <2>1, FailWriteEffect
<1>5. CASE \E i \in DOMAIN b : Committed(c, b[i])
  <2>1. PICK i \in DOMAIN b : Committed(c, b[i])
    BY <1>5
  <2> DEFINE cmd == b[i]
  <2>2. cmd \in RelayCommand
    OBVIOUS
  <2>3. cmd.action = "SetOff"
    BY <2>1, <2>2 DEF Committed, Permitted, Arbitrated
  <2>4. RequestedState(relay[c].applied, cmd.action) = "Off"
    BY <2>3 DEF RequestedState
  <2>5. relay'[c] = Commit(relay[c], "Off", cmd.source)
    BY <2>1, <2>4 DEF Committed
  <2>6. "Off" \in RelayState /\ cmd.source \in CommandSource
    BY <2>2 DEF RelayState, RelayCommand
  <2> QED BY <1>0, <2>5, <2>6, CommitEffect
<1> QED BY <1>1, <1>2, <1>3, <1>4, <1>5

LEMMA StepLeavesLockedOff ==
    ASSUME IInv, Next, NEW c \in Channels, lockout[c] \/ relay[c].fault # "None",
           relay[c].applied = "Off"
    PROVE  relay'[c].applied = "Off"
<1> USE DEF IInv
<1>0. relay[c] \in Snapshot
  BY DEF TypeOK
<1>1. CASE UNCHANGED relay
  BY <1>1
<1>2. CASE BootOutputFailure
  BY <1>0, <1>2, FailWriteOwnEffect DEF BootOutputFailure
<1>3. CASE BootRestore
  <2>1. PICK plan \in BootPlans : ExecuteBatch(RestorePlan(plan), "Boot")
    BY <1>3 DEF BootRestore
  <2>2. \A i \in DOMAIN RestorePlan(plan) : RestorePlan(plan)[i].source # "Safety"
    BY DEF RestorePlan
  <2> QED BY <2>1, <2>2, RestorePlanType, BatchLeavesLockedOff
<1>4. CASE ProcessRelayCommand
  <2>1. Head(queue) = queue[1] /\ 1 \in DOMAIN queue
    BY <1>4 DEF ProcessRelayCommand, TypeOK
  <2>2. Head(queue) \in Seq(RelayCommand)
    BY <2>1, RelayConstants DEF TypeOK
  <2>3. \A i \in DOMAIN Head(queue) :
          Head(queue)[i].source = "Safety" => Head(queue)[i].action = "SetOff"
    BY <2>1 DEF QueueSafetyPure, ContainsSafety, IsSafetyOff
  <2>4. ExecuteBatch(Head(queue), "Batch")
    BY <1>4 DEF ProcessRelayCommand
  <2> QED BY <2>2, <2>3, <2>4, BatchLeavesLockedOff
<1>5. CASE FactoryReset
  <2>1. relay'[c] = relay[c] \/ \E write : relay'[c] = LockOut(relay[c], write)
    BY <1>5 DEF FactoryReset
  <2> QED BY <1>0, <2>1, LockOutEffect
<1>6. CASE WatchdogFailure
  <2>1. \E write : relay'[c] = LockOut(relay[c], write)
    BY <1>6 DEF WatchdogFailure
  <2> QED BY <1>0, <2>1, LockOutEffect
<1>7. CASE Reset
  BY <1>7 DEF Reset, FreshSnapshot
<1> QED BY <1>1, <1>2, <1>3, <1>4, <1>5, <1>6, <1>7
        DEF Next, BootAborted, Request

\* A locked-out or faulted channel that is off stays off, whatever was queued before it
\* was locked: validate runs again when the batch is executed.
THEOREM LockedChannelsStayOff == Spec => LockedNeverSwitchedOn
<1>1. IInv /\ [Next]_vars =>
        (\A c \in Channels :
           (lockout[c] \/ relay[c].fault # "None") /\ relay[c].applied = "Off"
              => relay'[c].applied = "Off")
        \/ UNCHANGED vars
  BY StepLeavesLockedOff
<1> QED BY <1>1, Invariance, PTL DEF Spec, LockedNeverSwitchedOn

----------------------------------------------------------------------------
(* All or nothing. *)

\* An accepted batch names no channel twice, so each of its commands is what happened
\* to the channel it names.
LEMMA AcceptedBatch ==
    ASSUME TypeOK, SnapshotTruthful, NEW b \in Seq(RelayCommand),
           Refusal(b) = "None", BatchApplied(b),
           NEW i \in DOMAIN b, relay[b[i].channel].fault = "None"
    PROVE  relay'[b[i].channel].output =
              RequestedState(relay[b[i].channel].output, b[i].action)
<1> DEFINE c == b[i].channel
           j == IndexOf(b, c)
<1>0. b[i] \in RelayCommand
  OBVIOUS
<1>1. c \in Channels /\ b[i].source \in CommandSource
  BY <1>0 DEF RelayCommand
<1>2. HasChannel(b, c)
  BY DEF HasChannel
<1>3. j \in DOMAIN b /\ b[j].channel = c
  BY <1>1, <1>2, IndexOfWorks
<1>4. j = i
  <2>1. ~RepeatsChannel(b, i) /\ ~RepeatsChannel(b, j)
    BY <1>3 DEF Refusal, Objections
  <2>2. i \in Nat /\ j \in Nat /\ i >= 1 /\ j >= 1
    BY <1>3
  <2> QED BY <1>3, <2>1, <2>2 DEF RepeatsChannel
<1>5. relay'[c] = Commit(relay[c], RequestedState(relay[c].applied, b[i].action), b[i].source)
  BY <1>1, <1>2, <1>4 DEF BatchApplied, Desired
<1>6. relay[c] \in Snapshot /\ relay[c].applied = relay[c].output
  BY <1>1 DEF TypeOK, SnapshotTruthful
<1> QED BY <1>5, <1>6 DEF Commit, Snapshot

\* A batch that was refused or rolled back leaves every channel without a fault as it was.
LEMMA RejectedBatch ==
    ASSUME TypeOK, SnapshotTruthful, NEW b \in Seq(RelayCommand), NEW op,
           ExecuteBatch(b, op), result'.status # "Accepted",
           NEW c \in Channels, relay'[c].fault = "None"
    PROVE  relay'[c] = relay[c]
<1>1. relay[c] \in Snapshot
  BY DEF TypeOK
<1>2. Untouched(c) \/ WrittenBack(c) \/ Failed(c)
  <2>1. CASE UNCHANGED relay
    BY <2>1 DEF Untouched
  <2>2. CASE ~UNCHANGED relay
    BY <2>2, RollbackPerChannel DEF ExecuteBatch, Report
  <2> QED BY <2>1, <2>2
<1>3. CASE Untouched(c)
  BY <1>3 DEF Untouched
<1>4. CASE WrittenBack(c)
  <2>1. relay'[c].fault = relay[c].fault
    BY <1>1, <1>4 DEF WrittenBack, Snapshot
  <2>2. relay[c].applied = relay[c].output
    BY <2>1 DEF SnapshotTruthful
  <2> QED BY <1>1, <1>4, <2>2 DEF WrittenBack, Snapshot
<1>5. CASE Failed(c)
  <2>1. PICK d \in RelayState, forced \in BOOLEAN :
          relay'[c] = FailWrite([relay[c] EXCEPT !.output = d], forced)
    BY <1>5 DEF Failed
  <2>2. relay'[c].fault = "OutputFailure"
    BY <1>1, <2>1, FailWriteEffect
  <2> QED BY <2>2
<1> QED BY <1>2, <1>3, <1>4, <1>5

\* Only processRelayCommand takes a batch from the queue and reports on it.
LEMMA StepTakesBatch ==
    ASSUME IInv, Next, result'.op = "Batch", queue # <<>>, queue' = Tail(queue)
    PROVE  ProcessRelayCommand
<1>1. queue' # queue
  <2>1. queue \in Seq(Requests)
    BY DEF IInv, TypeOK
  <2>2. Len(queue') # Len(queue)
    BY <2>1
  <2> QED BY <2>2
<1>2. ~BootAborted /\ ~BootOutputFailure /\ ~BootRestore
  BY <1>1 DEF BootAborted, BootOutputFailure, BootRestore
<1>3. ASSUME NEW b \in Requests PROVE ~Request(b)
  BY DEF Request, Report
<1>4. ~FactoryReset /\ ~WatchdogFailure /\ ~Reset
  BY DEF FactoryReset, WatchdogFailure, Reset, Report
<1> QED BY <1>2, <1>3, <1>4 DEF Next

\* A batch is carried out on all its channels that work, or on none.
THEOREM BatchesAreAtomic == Spec => BatchAllOrNothing
<1> DEFINE Atomic ==
      (result'.op = "Batch" /\ queue # <<>> /\ queue' = Tail(queue)) =>
        LET b == Head(queue)
        IN  IF result'.status = "Accepted"
            THEN \A i \in DOMAIN b : relay[b[i].channel].fault = "None" =>
                   relay'[b[i].channel].output =
                      RequestedState(relay[b[i].channel].output, b[i].action)
            ELSE \A c \in Channels : relay'[c].fault = "None" => relay'[c] = relay[c]
<1>1. IInv /\ [Next]_vars => Atomic \/ UNCHANGED vars
  <2> SUFFICES ASSUME IInv, Next, result'.op = "Batch", queue # <<>>, queue' = Tail(queue)
               PROVE  Atomic
    OBVIOUS
  <2> DEFINE b == Head(queue)
  <2>1. ExecuteBatch(b, "Batch")
    BY StepTakesBatch DEF ProcessRelayCommand
  <2>2. b \in Seq(RelayCommand)
    BY RelayConstants DEF IInv, TypeOK
  <2>3. TypeOK /\ SnapshotTruthful
    BY DEF IInv
  <2>4. CASE result'.status = "Accepted"
    <3>1. Refusal(b) = "None" /\ BatchApplied(b)
      BY <2>1, <2>4 DEF ExecuteBatch, Report
    <3> QED BY <2>2, <2>3, <2>4, <3>1, AcceptedBatch
  <2>5. CASE result'.status # "Accepted"
    BY <2>1, <2>2, <2>3, <2>5, RejectedBatch
  <2> QED BY <2>4, <2>5
<1> QED BY <1>1, Invariance, PTL DEF Spec, BatchAllOrNothing

============================================================================
