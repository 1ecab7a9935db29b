-------------------------- MODULE WebAccessProofs --------------------------
(***************************************************************************)
(* Proofs about WebAccess for every number of users, sessions, identities  *)
(* and queued requests: sessions are current, administrators and erasures  *)
(* last, the two stores agree, the identity survives, and only an          *)
(* administrator makes another.                                            *)
(***************************************************************************)
EXTENDS WebAccess, SequenceTheorems, TLAPS

----------------------------------------------------------------------------
(* The inductive invariant. *)

\* A request in the queue was authorized for an administrator's session.
Edit == [user : UserIds \cup {NewUser}, kind : Kind, by : {"Administrator"}]
QueueInv == queue \in Seq(Edit)

\* The identity in use is the one in flash.
IdentityKept ==
    IdentityIsValid(security.record) =>
        store.newest # NoRecord /\ store.newest.identity = security.record.identity

\* Nothing else than the stored flag is in doubt once a two-store operation has
\* completed, and the server then runs on that flag.
FlagInv ==
    history.tidy =>
        /\ config.doubt \subseteq {config.stored}
        /\ web => config.active = config.stored

StoredAdministrator == store.newest # NoRecord /\ HasAdministrator(store.newest)

\* What the first half of a two-store operation has left for the second.
LoopInv ==
    /\ loop # "Idle" => ~history.tidy
    /\ loop = "SetFlag" => security.initialized /\ StoredAdministrator
    /\ loop = "ResetConfiguration" => ~security.initialized /\ ~StoredAdministrator
    /\ loop = "EraseUsers" => ~config.active /\ (config.doubt = {} => ~config.stored)

\* The inductive invariant.
IInv ==
    /\ TypeOK
    /\ QueueInv
    /\ SessionsCurrent
    /\ AdministratorKept
    /\ ErasedStaysErased
    /\ ProvisionedUsable
    /\ IdentityKept
    /\ FlagInv
    /\ LoopInv

----------------------------------------------------------------------------
(* The operators. *)

LEMMA NobodyAdministers ==
    /\ NoUsers \in [UserIds -> Kind]
    /\ EmptyRecord \in Record /\ ~HasAdministrator(EmptyRecord) /\ ~IdentityIsValid(EmptyRecord)
    /\ \A r \in Record : /\ [r EXCEPT !.users = NoUsers] \in Record
                         /\ ~HasAdministrator([r EXCEPT !.users = NoUsers])
                         /\ [r EXCEPT !.users = NoUsers].identity = r.identity
BY DEF NoUsers, EmptyRecord, Record, Kind, HasAdministrator, IdentityIsValid

\* A save keeps the old newest record or has the new one, and reports only the latter.
LEMMA SaveEffect ==
    ASSUME NEW s \in Store, NEW r \in Record, NEW o \in SaveOutcomes(s, r)
    PROVE  /\ o.store \in Store
           /\ o.applied \in BOOLEAN
           /\ o.applied => o.store.newest = r
           /\ o.store.newest \in {s.newest, r}
<1>1. s.newest \in Record \cup {NoRecord} /\ s.open \in BOOLEAN
  BY DEF Store
<1>2. /\ Torn(s) \in Store /\ Torn(s).newest = s.newest
      /\ Written(s, r) \in Store /\ Written(s, r).newest = r
  BY <1>1 DEF Torn, Written, Store
<1>3. \/ o = [store |-> s, applied |-> FALSE]
      \/ o = [store |-> Torn(s), applied |-> FALSE]
      \/ o = [store |-> Written(s, r), applied |-> FALSE]
      \/ o = [store |-> Written(s, r), applied |-> TRUE]
  BY <1>1 DEF SaveOutcomes
<1>4. CASE o = [store |-> s, applied |-> FALSE]
  BY <1>4
<1>5. CASE o = [store |-> Torn(s), applied |-> FALSE]
  BY <1>2, <1>5
<1>6. CASE \E a \in BOOLEAN : o = [store |-> Written(s, r), applied |-> a]
  BY <1>2, <1>6
<1> QED BY <1>3, <1>4, <1>5, <1>6

LEMMA EraseOutcomesEffect ==
    ASSUME NEW s \in Store, NEW t \in EraseOutcomes(s)
    PROVE  t \in Store /\ t.newest \in {s.newest, NoRecord}
BY DEF EraseOutcomes, Store

\* The user an edit is about is unique.
LEMMA TargetUnique ==
    ASSUME NEW r \in Record, NEW user, NEW u \in Target(r, user), NEW v \in Target(r, user)
    PROVE  u = v /\ u \in UserIds
<1>1. u \in UserIds /\ v \in UserIds /\ u \in Nat /\ v \in Nat
  BY WebAccessAssumption DEF Target, FreeIds
<1>2. CASE user = NewUser
  <2>1. u <= v /\ v <= u
    BY <1>2 DEF Target
  <2> QED BY <1>1, <2>1
<1>3. CASE user # NewUser
  BY <1>1, <1>3 DEF Target
<1> QED BY <1>2, <1>3

LEMMA ReplacementEffect ==
    ASSUME security \in Security, NEW user, NEW kind \in Kind, NEW r \in Replacements(user, kind)
    PROVE  /\ security.initialized /\ r \in Record /\ HasAdministrator(r)
           /\ r.identity = security.record.identity
           /\ LET u == CHOOSE u \in Target(security.record, user) : TRUE
              IN  \A v \in UserIds : v # u => r.users[v] = security.record.users[v]
<1> DEFINE t == Target(security.record, user)
<1>0. security.record \in Record
  BY DEF Security
<1>1. PICK u \in t : r = [security.record EXCEPT !.users[u] = kind]
  BY DEF Replacements
<1>2. security.initialized /\ HasAdministrator(r)
  BY DEF Replacements, KeepsAdministrator
<1>3. u = CHOOSE w \in t : TRUE
  <2> DEFINE w == CHOOSE w \in t : TRUE
  <2>1. w \in t
    BY <1>1
  <2> HIDE DEF w
  <2>2. u = w
    BY <1>0, <1>1, <2>1, TargetUnique
  <2> QED BY <2>2 DEF w
<1>4. u \in UserIds
  BY <1>0, <1>1, TargetUnique
<1>5. /\ r \in Record /\ r.identity = security.record.identity
      /\ \A v \in UserIds : v # u => r.users[v] = security.record.users[v]
  BY <1>0, <1>1, <1>4 DEF Record
<1> QED BY <1>2, <1>3, <1>5

LEMMA InitialRecordEffect ==
    ASSUME security \in Security, NEW r \in InitialRecords
    PROVE  /\ r \in Record /\ HasAdministrator(r)
           /\ IdentityIsValid(security.record) => r.identity = security.record.identity
<1>1. PICK i \in ProvisionIdentity(security.record) :
        r = [identity |-> i, users |-> [NoUsers EXCEPT ![1] = "Administrator"]]
  BY DEF InitialRecords
<1>2. i \in Identities \cup {NoIdentity}
  BY DEF ProvisionIdentity, Security, Record
<1>3. [NoUsers EXCEPT ![1] = "Administrator"] \in [UserIds -> Kind]
      /\ [NoUsers EXCEPT ![1] = "Administrator"][1] = "Administrator"
  BY WebAccessAssumption DEF NoUsers, Kind
<1>4. r \in Record /\ r.identity = i /\ r.users[1] = "Administrator"
  BY <1>1, <1>2, <1>3 DEF Record
<1> QED BY <1>1, <1>4, WebAccessAssumption DEF HasAdministrator, ProvisionIdentity

\* Erasing the users keeps the identity; success leaves no administrator anywhere,
\* failure leaves memory as it was.
LEMMA EraseUsersEffect ==
    ASSUME store \in Store, security \in Security, NEW e \in EraseUsersPreservingIdentity
    PROVE  /\ e.store \in Store /\ e.applied \in BOOLEAN
           /\ \/ e.store.newest = store.newest
              \/ /\ store.newest # NoRecord
                 /\ e.store.newest \in Record
                 /\ ~HasAdministrator(e.store.newest)
                 /\ e.store.newest.identity = store.newest.identity
           /\ ~e.applied => e.security = security /\ e.sessions = sessions
           /\ e.applied =>
                /\ e.sessions = NoSessions
                /\ e.security \in Security /\ ~e.security.initialized
                /\ ~HasAdministrator(e.security.record)
                /\ e.store.newest # NoRecord => ~HasAdministrator(e.store.newest)
                /\ IdentityIsValid(e.security.record) =>
                     /\ e.store.newest # NoRecord
                     /\ e.store.newest.identity = e.security.record.identity
<1> DEFINE r == [store.newest EXCEPT !.users = NoUsers]
<1>0. store.newest \in Record \cup {NoRecord} /\ store.open \in BOOLEAN
  BY DEF Store
<1>1. CASE Load(store) = "NotFound"
  <2>1. e = Erasure(store, [record |-> EmptyRecord, initialized |-> FALSE], NoSessions, TRUE)
    BY <1>1 DEF EraseUsersPreservingIdentity
  <2>2. store.newest = NoRecord
    BY <1>0, <1>1 DEF Load
  <2> QED BY <2>1, <2>2, NobodyAdministers DEF Erasure, Security
<1>2. CASE Load(store) \in {"IoFailure", "InvalidRecord"}
  <2>1. e = Erasure(store, security, sessions, FALSE)
    BY <1>2 DEF EraseUsersPreservingIdentity
  <2> QED BY <2>1 DEF Erasure
<1>3. CASE Load(store) = "Applied"
  <2>1. store.newest \in Record /\ store.newest # NoRecord
    BY <1>0, <1>3 DEF Load
  <2>2. r \in Record /\ ~HasAdministrator(r) /\ r.identity = store.newest.identity /\ r # NoRecord
    BY <2>1, NobodyAdministers, NothingIsNoData
  <2>3. PICK o \in SaveOutcomes(store, r) :
          e = IF o.applied
              THEN Erasure(o.store, [record |-> r, initialized |-> FALSE], NoSessions, TRUE)
              ELSE Erasure(o.store, security, sessions, FALSE)
    BY <1>3 DEF EraseUsersPreservingIdentity
  <2> HIDE DEF r
  <2>4. /\ o.store \in Store /\ o.applied \in BOOLEAN
        /\ o.applied => o.store.newest = r
        /\ o.store.newest \in {store.newest, r}
    BY <2>2, SaveEffect
  <2>5. CASE o.applied
    <3>1. e = Erasure(o.store, [record |-> r, initialized |-> FALSE], NoSessions, TRUE)
      BY <2>3, <2>5
    <3> QED BY <2>1, <2>2, <2>4, <2>5, <3>1 DEF Erasure, Security
  <2>6. CASE ~o.applied
    <3>1. e = Erasure(o.store, security, sessions, FALSE)
      BY <2>3, <2>6
    <3> QED BY <2>1, <2>2, <2>4, <3>1 DEF Erasure
  <2> QED BY <2>5, <2>6
<1>4. Load(store) \in {"NotFound", "IoFailure", "InvalidRecord", "Applied"}
  BY <1>0 DEF Load
<1> QED BY <1>1, <1>2, <1>3, <1>4

\* What initialize makes of the store.
LEMMA InitializedEffect ==
    ASSUME NEW s \in Store
    PROVE  /\ Initialized(s) \in Security
           /\ Initialized(s).record = EmptyRecord
                \/ (s.newest # NoRecord /\ Initialized(s).record = s.newest)
           /\ Initialized(s).initialized =>
                s.newest # NoRecord /\ Initialized(s).record = s.newest
                /\ HasAdministrator(s.newest)
<1>0. s.newest \in Record \cup {NoRecord} /\ s.open \in BOOLEAN
  BY DEF Store
<1>1. CASE Load(s) = "Applied"
  <2>1. s.newest \in Record /\ s.newest # NoRecord
    BY <1>0, <1>1 DEF Load
  <2>2. (IdentityIsValid(s.newest) /\ HasAdministrator(s.newest)) \in BOOLEAN
    BY DEF IdentityIsValid, HasAdministrator
  <2> QED BY <1>1, <2>1, <2>2 DEF Initialized, Security
<1>2. CASE Load(s) # "Applied"
  BY <1>2, NobodyAdministers DEF Initialized, Security
<1> QED BY <1>1, <1>2

\* What a save of the flag may leave.
LEMMA FlagEffect ==
    ASSUME config \in Config, NEW flag \in BOOLEAN,
           NEW c \in FlagSaved(flag) \cup FlagNotSaved(flag)
    PROVE  /\ c \in Config
           /\ c.stored \in {config.stored, flag} \cup config.doubt
           /\ c.doubt \subseteq config.doubt \cup {flag}
           /\ c \in FlagSaved(flag) => c.active = flag /\ (c.doubt = {} => c.stored = flag)
           /\ c \in FlagNotSaved(flag) => c.active = config.active /\ c.doubt # {}
<1>1. config.active \in BOOLEAN /\ config.stored \in BOOLEAN /\ config.doubt \in SUBSET BOOLEAN
  BY DEF Config
<1>2. ASSUME c \in FlagSaved(flag)
      PROVE  /\ c \in Config /\ c.active = flag /\ (c.doubt = {} => c.stored = flag)
             /\ c.stored \in {config.stored, flag} \cup config.doubt
             /\ c.doubt \subseteq {flag}
  BY <1>1, <1>2 DEF FlagSaved, Config
<1>3. ASSUME c \in FlagNotSaved(flag)
      PROVE  /\ c \in Config /\ c.active = config.active /\ c.doubt = config.doubt \cup {flag}
             /\ c.stored \in {config.stored, flag} \cup config.doubt
  <2>1. PICK f \in {config.stored, flag} \cup config.doubt :
          c = [config EXCEPT !.stored = f, !.doubt = @ \cup {flag}]
    BY <1>3 DEF FlagNotSaved
  <2>2. f \in BOOLEAN
    BY <1>1
  <2> QED BY <1>1, <2>1, <2>2 DEF Config
<1> QED BY <1>2, <1>3

----------------------------------------------------------------------------
(* The HTTPS task. *)

LEMMA InitIInv == Init => IInv
<1> SUFFICES ASSUME Init PROVE IInv
  OBVIOUS
<1>0. security.record = EmptyRecord /\ security.initialized = FALSE /\ store.newest = NoRecord
      /\ loop = "Idle" /\ queue = <<>> /\ web = FALSE /\ history = [erased |-> FALSE, tidy |-> TRUE]
      /\ config = [active |-> FALSE, stored |-> FALSE, doubt |-> {}]
      /\ \A s \in SessionSlots : sessions[s] = NoSession
  BY DEF Init, NoSessions
<1>1. TypeOK
  <2>1. store \in Store /\ security \in Security
    BY NobodyAdministers DEF Init, Store, Security
  <2>2. config \in Config /\ history \in [erased : BOOLEAN, tidy : BOOLEAN]
    BY <1>0 DEF Config
  <2>3. sessions \in [SessionSlots -> Session \cup {NoSession}]
    BY DEF Init, NoSessions
  <2>4. Len(queue) = 0
    BY <1>0, EmptySeq
  <2>5. 0 <= QueueCapacity /\ 1 .. 0 = {}
    BY WebAccessAssumption
  <2>6. web \in BOOLEAN /\ loop = "Idle"
    BY <1>0
  <2> QED BY <2>1, <2>2, <2>3, <2>4, <2>5, <2>6 DEF TypeOK
<1>2. QueueInv
  BY <1>0, EmptySeq DEF QueueInv
<1>3. SessionsCurrent /\ AdministratorKept /\ ErasedStaysErased /\ IdentityKept
  BY <1>0, NobodyAdministers
     DEF SessionsCurrent, AdministratorKept, ErasedStaysErased, IdentityKept
<1>4. ProvisionedUsable /\ FlagInv /\ LoopInv
  BY <1>0 DEF ProvisionedUsable, FlagInv, LoopInv
<1> QED BY <1>1, <1>2, <1>3, <1>4 DEF IInv

\* A request that is appended, and the rest of the queue.
LEMMA QueueTyped ==
    ASSUME NEW q \in Seq(Edit), Len(q) <= QueueCapacity
    PROVE  \A i \in 1 .. Len(q) :
             q[i] \in [user : UserIds \cup {NewUser}, kind : Kind, by : Roles]
<1> SUFFICES ASSUME NEW i \in 1 .. Len(q)
             PROVE  q[i] \in [user : UserIds \cup {NewUser}, kind : Kind, by : Roles]
  OBVIOUS
<1>1. q[i] \in Edit
  BY ElementOfSeq
<1> QED BY <1>1 DEF Edit, Roles

\* A step that moves sessions only to ones that are current.
LEMMA SessionStepKeeps ==
    ASSUME IInv, UNCHANGED <<store, security, config, web, queue, loop, history>>,
           sessions' \in [SessionSlots -> Session \cup {NoSession}],
           \A s \in SessionSlots : sessions'[s] # NoSession =>
              \/ sessions'[s] = sessions[s]
              \/ /\ security.initialized
                 /\ security.record.users[sessions'[s].user] = sessions'[s].role
    PROVE  IInv'
<1>1. TypeOK'
  BY DEF IInv, TypeOK
<1>2. SessionsCurrent'
  BY DEF IInv, SessionsCurrent
<1>3. (QueueInv /\ AdministratorKept /\ ErasedStaysErased /\ ProvisionedUsable /\ IdentityKept
        /\ FlagInv /\ LoopInv)'
  BY DEF IInv, QueueInv, AdministratorKept, ErasedStaysErased, ProvisionedUsable, IdentityKept,
         FlagInv, LoopInv, StoredAdministrator
<1> QED BY <1>1, <1>2, <1>3 DEF IInv

LEMMA CreateSessionKeeps == ASSUME IInv, NEW user \in UserIds, CreateSession(user) PROVE IInv'
<1> DEFINE new == [user |-> user, role |-> security.record.users[user]]
<1>0. PICK s \in SessionSlots : sessions' = [sessions EXCEPT ![s] = new]
  BY DEF CreateSession
<1>1. /\ security.initialized /\ security.record.users[user] \in Roles
      /\ UNCHANGED <<store, security, config, web, queue, loop, history>>
  BY DEF CreateSession
<1>2. new \in Session /\ new.user = user /\ new.role = security.record.users[user]
  BY <1>1 DEF Session
<1> HIDE DEF new
<1>3. /\ sessions' \in [SessionSlots -> Session \cup {NoSession}]
      /\ \A t \in SessionSlots : sessions'[t] = sessions[t] \/ sessions'[t] = new
  BY <1>0, <1>2 DEF IInv, TypeOK
<1> QED BY <1>1, <1>2, <1>3, SessionStepKeeps

LEMMA ExpireSessionKeeps == ASSUME IInv, NEW s \in SessionSlots, ExpireSession(s) PROVE IInv'
<1>1. /\ sessions' \in [SessionSlots -> Session \cup {NoSession}]
      /\ \A t \in SessionSlots : sessions'[t] = sessions[t] \/ sessions'[t] = NoSession
  BY DEF ExpireSession, IInv, TypeOK
<1> QED BY <1>1, SessionStepKeeps DEF ExpireSession

LEMMA EnqueueSaveUserKeeps ==
    ASSUME IInv, NEW s \in SessionSlots, NEW recovery \in BOOLEAN,
           NEW user \in UserIds \cup {NewUser}, NEW kind \in Kind \ {"None"},
           EnqueueSaveUser(s, recovery, user, kind)
    PROVE  IInv'
<1> DEFINE e == [user |-> user, kind |-> kind, by |-> sessions[s].role]
<1>0. /\ Len(queue) < QueueCapacity /\ queue' = Append(queue, e)
      /\ UNCHANGED <<store, security, sessions, config, web, loop, history>>
  BY DEF EnqueueSaveUser, HasRoom
<1>1. e \in Edit
  <2>1. "UsersManage" \in PermissionsFor(sessions[s].role)
    BY DEF EnqueueSaveUser, Authorizes, SaveUser, Route
  <2>2. sessions[s].role = "Administrator"
    BY <2>1 DEF PermissionsFor
  <2> QED BY <2>2 DEF Edit
<1> HIDE DEF e
<1>2. queue' \in Seq(Edit) /\ Len(queue') = Len(queue) + 1
  BY <1>0, <1>1, AppendProperties DEF IInv, QueueInv
<1>3. Len(queue') <= QueueCapacity
  BY <1>0, <1>2, LenProperties, WebAccessAssumption DEF IInv, QueueInv
<1>4. TypeOK'
  BY <1>0, <1>2, <1>3, QueueTyped DEF IInv, TypeOK
<1>5. (SessionsCurrent /\ AdministratorKept /\ ErasedStaysErased /\ ProvisionedUsable
        /\ IdentityKept /\ FlagInv /\ LoopInv)'
  BY <1>0 DEF IInv, SessionsCurrent, AdministratorKept, ErasedStaysErased, ProvisionedUsable,
              IdentityKept, FlagInv, LoopInv, StoredAdministrator
<1> QED BY <1>2, <1>4, <1>5 DEF IInv, QueueInv

LEMMA ServeOtherKeeps ==
    ASSUME IInv, NEW s \in SessionSlots, NEW route, NEW recovery, ServeOther(s, route, recovery)
    PROVE  IInv'
<1>0. /\ web
      /\ config' \in {config} \cup FlagSaved(config.active) \cup FlagNotSaved(config.active)
      /\ UNCHANGED <<store, security, sessions, web, queue, loop, history>>
  BY DEF ServeOther, Authorizes
<1>1. config \in Config /\ config.active \in BOOLEAN /\ config.stored \in BOOLEAN
      /\ config.doubt \in SUBSET BOOLEAN
  BY DEF IInv, TypeOK, Config
<1>2. /\ config' \in Config
      /\ config'.stored \in {config.stored, config.active} \cup config.doubt
      /\ config'.doubt \subseteq config.doubt \cup {config.active}
      /\ config'.active = config.active
      /\ config' = config \/ (config'.doubt = {} => config'.stored = config.active)
  BY <1>0, <1>1, FlagEffect
<1>3. history.tidy => config'.stored = config.stored /\ config'.doubt \subseteq {config.stored}
  BY <1>0, <1>2 DEF IInv, FlagInv
<1>4. TypeOK'
  BY <1>0, <1>2 DEF IInv, TypeOK
<1>5. (QueueInv /\ SessionsCurrent /\ AdministratorKept /\ ErasedStaysErased /\ IdentityKept)'
  BY <1>0 DEF IInv, QueueInv, SessionsCurrent, AdministratorKept, ErasedStaysErased, IdentityKept
<1>6. ProvisionedUsable' /\ FlagInv'
  BY <1>0, <1>2, <1>3 DEF IInv, ProvisionedUsable, FlagInv
<1>7. LoopInv'
  BY <1>0, <1>2 DEF IInv, LoopInv, StoredAdministrator
<1> QED BY <1>4, <1>5, <1>6, <1>7 DEF IInv

----------------------------------------------------------------------------
(* The loop. *)

LEMMA ProcessSaveUserKeeps == ASSUME IInv, ProcessSaveUser PROVE IInv'
<1> DEFINE e == Head(queue)
<1>0. /\ loop = "Idle" /\ queue # <<>> /\ queue' = Tail(queue)
      /\ UNCHANGED <<config, web, loop, history>>
  BY DEF ProcessSaveUser, Idle
<1>1. e \in Edit /\ queue' \in Seq(Edit) /\ Len(queue') = Len(queue) - 1
  BY <1>0, HeadTailProperties DEF IInv, QueueInv
<1>2. Len(queue') <= QueueCapacity
  <2>1. Len(queue) \in Nat /\ Len(queue) <= QueueCapacity
    BY LenProperties DEF IInv, QueueInv, TypeOK
  <2> QED BY <1>1, <2>1, WebAccessAssumption
<1>3. \A i \in 1 .. Len(queue') :
        queue'[i] \in [user : UserIds \cup {NewUser}, kind : Kind, by : Roles]
  BY <1>1, <1>2, QueueTyped
<1>4. QueueInv' /\ FlagInv'
  BY <1>0, <1>1 DEF IInv, QueueInv, FlagInv
<1>5. CASE UNCHANGED <<store, security, sessions>>
  <2>1. TypeOK'
    BY <1>0, <1>2, <1>3, <1>5 DEF IInv, TypeOK
  <2>2. (SessionsCurrent /\ AdministratorKept /\ ErasedStaysErased /\ ProvisionedUsable
          /\ IdentityKept /\ LoopInv)'
    BY <1>0, <1>5 DEF IInv, SessionsCurrent, AdministratorKept, ErasedStaysErased,
                      ProvisionedUsable, IdentityKept, LoopInv, StoredAdministrator
  <2> QED BY <1>4, <2>1, <2>2 DEF IInv
<1>6. CASE ~UNCHANGED <<store, security, sessions>>
  <2> DEFINE u == CHOOSE u \in Target(security.record, e.user) : TRUE
  <2> DEFINE Saved(r, o) ==
               /\ store' = o.store
               /\ IF o.applied
                  THEN /\ security' = [security EXCEPT !.record = r]
                       /\ sessions' = RevokeUserSessions(sessions, u)
                  ELSE UNCHANGED <<security, sessions>>
  <2>r. PICK r \in Replacements(e.user, e.kind) : \E o \in SaveOutcomes(store, r) : Saved(r, o)
    BY <1>6 DEF ProcessSaveUser
  <2>0. PICK o \in SaveOutcomes(store, r) : Saved(r, o)
    BY <2>r
  <2>1. /\ security.initialized /\ r \in Record /\ HasAdministrator(r) /\ r # NoRecord
        /\ r.identity = security.record.identity
        /\ \A v \in UserIds : v # u => r.users[v] = security.record.users[v]
    <3>1. security \in Security /\ e.kind \in Kind
      BY <1>1 DEF IInv, TypeOK, Edit
    <3> QED BY <3>1, ReplacementEffect, NothingIsNoData
  <2> HIDE DEF u, e
  <2>2. /\ store' \in Store /\ o.applied \in BOOLEAN /\ (o.applied => store'.newest = r)
        /\ store'.newest \in {store.newest, r}
    <3>1. store \in Store
      BY DEF IInv, TypeOK
    <3> QED BY <2>0, <2>1, <3>1, SaveEffect
  <2>3. /\ security' \in Security /\ security'.initialized
        /\ security'.record.identity = security.record.identity
        /\ security'.record \in {security.record, r}
        /\ security' # security => store'.newest = r /\ security'.record = r
    <3>1. CASE o.applied
      <4>1. security' = [security EXCEPT !.record = r] /\ security \in Security
        BY <2>0, <3>1 DEF IInv, TypeOK
      <4>2. security' \in Security /\ security'.record = r
        BY <2>1, <4>1 DEF Security
      <4>3. security'.initialized
        BY <2>1, <4>1 DEF Security
      <4>4. store'.newest = r
        BY <2>2, <3>1
      <4> QED BY <2>1, <4>2, <4>3, <4>4
    <3>2. CASE ~o.applied
      BY <2>0, <2>1, <3>2 DEF IInv, TypeOK
    <3> QED BY <3>1, <3>2
  <2>4. sessions' \in [SessionSlots -> Session \cup {NoSession}]
        /\ \A s \in SessionSlots :
             sessions'[s] # NoSession =>
               /\ sessions'[s] = sessions[s]
               /\ security' = security \/ sessions[s].user # u
    <3>1. CASE o.applied
      BY <2>0, <3>1 DEF RevokeUserSessions, IInv, TypeOK
    <3>2. CASE ~o.applied
      BY <2>0, <3>2 DEF IInv, TypeOK
    <3> QED BY <3>1, <3>2
  <2>5. security'.record \in {security.record} \/ security'.record = r
    BY <2>3
  <2>a. TypeOK'
    <3>1. store' \in Store /\ security' \in Security
          /\ sessions' \in [SessionSlots -> Session \cup {NoSession}]
      BY <2>2, <2>3, <2>4
    <3>2. /\ config' \in Config /\ web' \in BOOLEAN
          /\ loop' \in {"Idle", "SetFlag", "ResetConfiguration", "EraseUsers"}
          /\ history' \in [erased : BOOLEAN, tidy : BOOLEAN]
      BY <1>0 DEF IInv, TypeOK
    <3> QED BY <1>2, <1>3, <3>1, <3>2 DEF TypeOK
  <2>b. SessionsCurrent'
    <3> SUFFICES ASSUME NEW s \in SessionSlots, sessions'[s] # NoSession
                 PROVE  security'.record.users[sessions'[s].user] = sessions'[s].role
      BY <2>3 DEF SessionsCurrent
    <3>1. /\ sessions'[s] = sessions[s] /\ (security' = security \/ sessions[s].user # u)
          /\ security.record.users[sessions[s].user] = sessions[s].role
      BY <2>4 DEF IInv, SessionsCurrent
    <3>2. sessions[s].user \in UserIds
      BY <2>4, <3>1 DEF IInv, TypeOK, Session
    <3> QED BY <2>1, <2>3, <3>1, <3>2
  <2>c. HasAdministrator(security.record) /\ ~history.erased
    BY <2>1 DEF IInv, AdministratorKept, ErasedStaysErased
  <2>d. AdministratorKept' /\ ErasedStaysErased'
    BY <1>0, <2>1, <2>2, <2>3, <2>c DEF IInv, AdministratorKept, ErasedStaysErased
  <2>e. ProvisionedUsable'
    BY <1>0, <2>1, <2>2 DEF IInv, ProvisionedUsable, AdministratorKept
  <2>f. IdentityKept'
    BY <2>1, <2>2, <2>3 DEF IInv, IdentityKept, IdentityIsValid
  <2>g. LoopInv'
    BY <1>0 DEF LoopInv
  <2> QED BY <1>4, <2>a, <2>b, <2>d, <2>e, <2>f, <2>g DEF IInv
<1> QED BY <1>5, <1>6

LEMMA ProvisionKeeps == ASSUME IInv, Provision PROVE IInv'
<1> DEFINE Saved(r, o) ==
             /\ store' = o.store
             /\ IF o.applied
                THEN /\ security' = [record |-> r, initialized |-> TRUE]
                     /\ sessions' = NoSessions
                     /\ loop' = "SetFlag"
                ELSE UNCHANGED <<security, sessions, loop>>
<1>r. PICK r \in InitialRecords : \E o \in SaveOutcomes(store, r) : Saved(r, o)
  BY DEF Provision
<1>0. PICK o \in SaveOutcomes(store, r) : Saved(r, o)
  BY <1>r
<1>1. /\ loop = "Idle" /\ history' = [erased |-> FALSE, tidy |-> FALSE]
      /\ UNCHANGED <<config, web, queue>>
  BY DEF Provision, Idle
<1>2. /\ r \in Record /\ HasAdministrator(r) /\ r # NoRecord
      /\ IdentityIsValid(security.record) => r.identity = security.record.identity
  BY InitialRecordEffect, NothingIsNoData DEF IInv, TypeOK
<1>3. /\ store' \in Store /\ o.applied \in BOOLEAN /\ (o.applied => store'.newest = r)
      /\ store'.newest \in {store.newest, r}
  <2>1. store \in Store
    BY DEF IInv, TypeOK
  <2> QED BY <1>0, <1>2, <2>1, SaveEffect
<1>4. history'.erased = FALSE /\ history'.tidy = FALSE
      /\ history' \in [erased : BOOLEAN, tidy : BOOLEAN]
  BY <1>1
<1>5. QueueInv' /\ ErasedStaysErased' /\ ProvisionedUsable' /\ FlagInv'
  BY <1>1, <1>4 DEF IInv, QueueInv, ErasedStaysErased, ProvisionedUsable, FlagInv
<1>t. /\ config' \in Config /\ web' \in BOOLEAN
      /\ Len(queue') <= QueueCapacity
      /\ \A i \in 1 .. Len(queue') :
           queue'[i] \in [user : UserIds \cup {NewUser}, kind : Kind, by : Roles]
  BY <1>1 DEF IInv, TypeOK
<1>6. CASE o.applied
  <2>0. /\ security' = [record |-> r, initialized |-> TRUE] /\ loop' = "SetFlag"
        /\ sessions' = NoSessions
    BY <1>0, <1>6
  <2>n. store'.newest = r
    BY <1>3, <1>6
  <2>1. security' \in Security /\ security'.record = r /\ security'.initialized
        /\ sessions' \in [SessionSlots -> Session \cup {NoSession}]
        /\ \A s \in SessionSlots : sessions'[s] = NoSession
    BY <1>2, <2>0 DEF Security, NoSessions
  <2>2. TypeOK'
    BY <1>3, <1>4, <1>t, <2>0, <2>1 DEF TypeOK
  <2>3. SessionsCurrent' /\ AdministratorKept' /\ IdentityKept' /\ LoopInv'
    BY <1>2, <1>4, <2>0, <2>1, <2>n
       DEF SessionsCurrent, AdministratorKept, IdentityKept, LoopInv, StoredAdministrator
  <2> QED BY <1>5, <2>2, <2>3 DEF IInv
<1>7. CASE ~o.applied
  <2>0. UNCHANGED <<security, sessions, loop>>
    BY <1>0, <1>7
  <2>1. /\ security' \in Security /\ sessions' \in [SessionSlots -> Session \cup {NoSession}]
        /\ loop' \in {"Idle", "SetFlag", "ResetConfiguration", "EraseUsers"}
    BY <2>0 DEF IInv, TypeOK
  <2>2. TypeOK'
    BY <1>3, <1>4, <1>t, <2>1 DEF TypeOK
  <2>3. SessionsCurrent' /\ AdministratorKept' /\ IdentityKept' /\ LoopInv'
    BY <1>1, <1>2, <1>3, <1>4, <2>0
       DEF IInv, SessionsCurrent, AdministratorKept, IdentityKept, LoopInv
  <2> QED BY <1>5, <2>2, <2>3 DEF IInv
<1> QED BY <1>3, <1>6, <1>7

LEMMA SetFlagKeeps == ASSUME IInv, SetFlag PROVE IInv'
<1>0. /\ loop = "SetFlag" /\ loop' = "Idle" /\ config' \in FlagSaved(TRUE)
      /\ history' = [history EXCEPT !.tidy = Tidy(config')]
      /\ UNCHANGED <<store, security, sessions, web, queue>>
  BY DEF SetFlag
<1>1. /\ config' \in Config /\ config'.active = TRUE
      /\ config'.doubt = {} => config'.stored = TRUE
  BY <1>0, FlagEffect DEF IInv, TypeOK
<1>2. /\ history' \in [erased : BOOLEAN, tidy : BOOLEAN] /\ history'.erased = history.erased
      /\ history'.tidy => config'.doubt = {} /\ config'.stored = TRUE
  BY <1>0, <1>1 DEF IInv, TypeOK, Tidy
<1>3. security.initialized /\ StoredAdministrator
  BY <1>0 DEF IInv, LoopInv
<1>a. TypeOK'
  BY <1>0, <1>1, <1>2 DEF IInv, TypeOK
<1>b. QueueInv' /\ SessionsCurrent' /\ IdentityKept' /\ ErasedStaysErased'
  BY <1>0, <1>2 DEF IInv, QueueInv, SessionsCurrent, IdentityKept, ErasedStaysErased
<1>c. AdministratorKept' /\ ProvisionedUsable'
  BY <1>0, <1>2, <1>3 DEF IInv, AdministratorKept, ProvisionedUsable, StoredAdministrator
<1>d. FlagInv' /\ LoopInv'
  BY <1>0, <1>1, <1>2 DEF FlagInv, LoopInv
<1> QED BY <1>a, <1>b, <1>c, <1>d DEF IInv

LEMMA ProvisionFailsKeeps == ASSUME IInv, ProvisionFails PROVE IInv'
<1>0. /\ loop = "SetFlag" /\ loop' = "Idle" /\ store' \in EraseOutcomes(store)
      /\ config' \in {config} \cup FlagNotSaved(TRUE)
      /\ security' = [record |-> EmptyRecord, initialized |-> FALSE]
      /\ sessions' = NoSessions
      /\ UNCHANGED <<web, queue, history>>
  BY DEF ProvisionFails
<1>1. config' \in Config
  BY <1>0, FlagEffect DEF IInv, TypeOK
<1>2. store' \in Store /\ store'.newest \in {store.newest, NoRecord}
  BY <1>0, EraseOutcomesEffect DEF IInv, TypeOK
<1>3. /\ security' \in Security /\ ~security'.initialized /\ security'.record = EmptyRecord
      /\ sessions' \in [SessionSlots -> Session \cup {NoSession}]
      /\ \A s \in SessionSlots : sessions'[s] = NoSession
  BY <1>0, NobodyAdministers DEF Security, NoSessions
<1>4. ~history.tidy
  BY <1>0 DEF IInv, LoopInv
<1>a. TypeOK'
  BY <1>0, <1>1, <1>2, <1>3 DEF IInv, TypeOK
<1>b. QueueInv' /\ SessionsCurrent' /\ IdentityKept' /\ AdministratorKept'
  BY <1>0, <1>3, NobodyAdministers
     DEF IInv, QueueInv, SessionsCurrent, IdentityKept, AdministratorKept
<1>c. ErasedStaysErased' /\ ProvisionedUsable' /\ FlagInv' /\ LoopInv'
  BY <1>0, <1>2, <1>3, <1>4, NobodyAdministers
     DEF IInv, ErasedStaysErased, ProvisionedUsable, FlagInv, LoopInv
<1> QED BY <1>a, <1>b, <1>c DEF IInv

\* Erasing the users, whatever it answers, and whatever step of the loop it is part of.
LEMMA EraseKeeps ==
    ASSUME IInv, NEW e \in EraseUsersPreservingIdentity,
           store' = e.store, security' = e.security, sessions' = e.sessions,
           history'.erased = (history.erased \/ e.applied),
           history' \in [erased : BOOLEAN, tidy : BOOLEAN],
           history'.tidy => e.applied, loop # "SetFlag",
           queue' = queue, web' \in BOOLEAN, config' = config,
           loop' \in {"Idle", "ResetConfiguration"}
    PROVE  /\ (TypeOK /\ QueueInv /\ SessionsCurrent /\ AdministratorKept /\ ErasedStaysErased
                 /\ IdentityKept)'
           /\ e.applied => ~StoredAdministrator' /\ ~security'.initialized
<1>0. store \in Store /\ security \in Security /\ store.newest \in Record \cup {NoRecord}
  BY DEF IInv, TypeOK, Store
<1>1. /\ store' \in Store /\ e.applied \in BOOLEAN
      /\ \/ store'.newest = store.newest
         \/ /\ store.newest # NoRecord
            /\ store'.newest \in Record /\ store'.newest # NoRecord
            /\ ~HasAdministrator(store'.newest)
            /\ store'.newest.identity = store.newest.identity
      /\ ~e.applied => security' = security /\ sessions' = sessions
      /\ e.applied =>
           /\ sessions' = NoSessions
           /\ security' \in Security /\ ~security'.initialized
           /\ ~HasAdministrator(security'.record)
           /\ store'.newest # NoRecord => ~HasAdministrator(store'.newest)
           /\ IdentityIsValid(security'.record) =>
                store'.newest # NoRecord /\ store'.newest.identity = security'.record.identity
  BY <1>0, EraseUsersEffect, NothingIsNoData
<1>2. sessions' \in [SessionSlots -> Session \cup {NoSession}] /\ security' \in Security
      /\ (e.applied => \A s \in SessionSlots : sessions'[s] = NoSession)
  BY <1>1 DEF IInv, TypeOK, NoSessions
<1>a. TypeOK'
  BY <1>1, <1>2 DEF IInv, TypeOK
<1>b. QueueInv' /\ SessionsCurrent'
  BY <1>1, <1>2 DEF IInv, QueueInv, SessionsCurrent
<1>c. AdministratorKept'
  BY <1>1 DEF IInv, AdministratorKept
<1>d. ErasedStaysErased'
  BY <1>1 DEF IInv, ErasedStaysErased
<1>e. IdentityKept'
  BY <1>1 DEF IInv, IdentityKept
<1> QED BY <1>1, <1>a, <1>b, <1>c, <1>d, <1>e DEF StoredAdministrator

LEMMA FactoryResetKeeps == ASSUME IInv, FactoryReset PROVE IInv'
<1>0. PICK e \in EraseUsersPreservingIdentity :
        /\ store' = e.store /\ security' = e.security /\ sessions' = e.sessions
        /\ loop' = IF e.applied THEN "ResetConfiguration" ELSE "Idle"
        /\ history' = [erased |-> history.erased \/ e.applied, tidy |-> FALSE]
  BY DEF FactoryReset
<1>1. loop = "Idle" /\ web' = FALSE /\ UNCHANGED <<config, queue>>
  BY DEF FactoryReset, Idle
<1>2. /\ history'.erased = (history.erased \/ e.applied) /\ history'.tidy = FALSE
      /\ history' \in [erased : BOOLEAN, tidy : BOOLEAN]
      /\ loop' \in {"Idle", "ResetConfiguration"}
      /\ loop' = "ResetConfiguration" => e.applied
  BY <1>0
<1>3. /\ (TypeOK /\ QueueInv /\ SessionsCurrent /\ AdministratorKept /\ ErasedStaysErased
            /\ IdentityKept)'
      /\ e.applied => ~StoredAdministrator' /\ ~security'.initialized
  BY <1>0, <1>1, <1>2, EraseKeeps
<1>4. ProvisionedUsable' /\ FlagInv' /\ LoopInv'
  BY <1>2, <1>3 DEF ProvisionedUsable, FlagInv, LoopInv
<1> QED BY <1>3, <1>4 DEF IInv

LEMMA ResetConfigurationKeeps == ASSUME IInv, ResetConfiguration PROVE IInv'
<1>0. /\ loop = "ResetConfiguration" /\ loop' = "Idle"
      /\ config' \in FlagSaved(FALSE) \cup FlagNotSaved(FALSE)
      /\ \/ config' \in FlagSaved(FALSE) /\ history' = [history EXCEPT !.tidy = Tidy(config')]
         \/ UNCHANGED history
      /\ UNCHANGED <<store, security, sessions, web, queue>>
  BY DEF ResetConfiguration
<1>1. /\ config' \in Config
      /\ config' \in FlagSaved(FALSE) =>
           config'.active = FALSE /\ (config'.doubt = {} => config'.stored = FALSE)
  BY <1>0, FlagEffect DEF IInv, TypeOK
<1>2. ~history.tidy /\ ~security.initialized /\ ~StoredAdministrator
  BY <1>0 DEF IInv, LoopInv
<1>3. /\ history' \in [erased : BOOLEAN, tidy : BOOLEAN] /\ history'.erased = history.erased
      /\ history'.tidy =>
           config'.doubt = {} /\ config'.stored = FALSE /\ config'.active = FALSE
  BY <1>0, <1>1, <1>2 DEF IInv, TypeOK, Tidy
<1>a. TypeOK'
  BY <1>0, <1>1, <1>3 DEF IInv, TypeOK
<1>b. QueueInv' /\ SessionsCurrent' /\ IdentityKept' /\ ErasedStaysErased'
  BY <1>0, <1>3 DEF IInv, QueueInv, SessionsCurrent, IdentityKept, ErasedStaysErased
<1>c. AdministratorKept' /\ ProvisionedUsable'
  BY <1>0, <1>2, <1>3 DEF AdministratorKept, ProvisionedUsable, StoredAdministrator
<1>d. FlagInv' /\ LoopInv'
  BY <1>0, <1>3 DEF FlagInv, LoopInv
<1> QED BY <1>a, <1>b, <1>c, <1>d DEF IInv

LEMMA EraseUserConfigurationKeeps == ASSUME IInv, EraseUserConfiguration PROVE IInv'
<1>0. /\ loop = "Idle"
      /\ \/ config' \in FlagSaved(FALSE) /\ loop' = "EraseUsers"
         \/ config' \in FlagNotSaved(FALSE) /\ loop' = "Idle"
      /\ history' = [history EXCEPT !.tidy = FALSE]
      /\ UNCHANGED <<store, security, sessions, web, queue>>
  BY DEF EraseUserConfiguration, Idle
<1>1. /\ config' \in Config
      /\ config' \in FlagSaved(FALSE) =>
           config'.active = FALSE /\ (config'.doubt = {} => config'.stored = FALSE)
  BY <1>0, FlagEffect DEF IInv, TypeOK
<1>2. /\ history' \in [erased : BOOLEAN, tidy : BOOLEAN] /\ history'.erased = history.erased
      /\ history'.tidy = FALSE
  BY <1>0 DEF IInv, TypeOK
<1>a. TypeOK'
  BY <1>0, <1>1, <1>2 DEF IInv, TypeOK
<1>b. QueueInv' /\ SessionsCurrent' /\ IdentityKept' /\ ErasedStaysErased'
  BY <1>0, <1>2 DEF IInv, QueueInv, SessionsCurrent, IdentityKept, ErasedStaysErased
<1>c. AdministratorKept' /\ ProvisionedUsable' /\ FlagInv'
  BY <1>0, <1>2 DEF IInv, AdministratorKept, ProvisionedUsable, FlagInv
<1>d. LoopInv'
  BY <1>0, <1>1, <1>2 DEF LoopInv
<1> QED BY <1>a, <1>b, <1>c, <1>d DEF IInv

LEMMA EraseUsersKeeps == ASSUME IInv, EraseUsers PROVE IInv'
<1>0. PICK e \in EraseUsersPreservingIdentity :
        /\ store' = e.store /\ security' = e.security /\ sessions' = e.sessions
        /\ history' = [erased |-> history.erased \/ e.applied,
                       tidy |-> e.applied /\ Tidy(config)]
  BY DEF EraseUsers
<1>1. loop = "EraseUsers" /\ loop' = "Idle" /\ UNCHANGED <<config, web, queue>>
  BY DEF EraseUsers
<1>2. /\ history'.erased = (history.erased \/ e.applied)
      /\ history'.tidy = (e.applied /\ Tidy(config))
      /\ history' \in [erased : BOOLEAN, tidy : BOOLEAN]
  <2>1. (e.applied /\ Tidy(config)) \in BOOLEAN /\ (history.erased \/ e.applied) \in BOOLEAN
    BY DEF Tidy
  <2> QED BY <1>0, <2>1
<1>3. web' \in BOOLEAN /\ config.active \in BOOLEAN /\ config.stored \in BOOLEAN
  BY <1>1 DEF IInv, TypeOK, Config
<1>4. /\ (TypeOK /\ QueueInv /\ SessionsCurrent /\ AdministratorKept /\ ErasedStaysErased
            /\ IdentityKept)'
      /\ e.applied => ~StoredAdministrator' /\ ~security'.initialized
  BY <1>0, <1>1, <1>2, <1>3, EraseKeeps
<1>5. history'.tidy =>
        config.doubt = {} /\ config.stored = FALSE /\ config.active = FALSE /\ ~StoredAdministrator'
  BY <1>1, <1>2, <1>3, <1>4 DEF IInv, LoopInv, Tidy
<1>6. ProvisionedUsable' /\ FlagInv' /\ LoopInv'
  BY <1>1, <1>5 DEF ProvisionedUsable, FlagInv, LoopInv, StoredAdministrator
<1> QED BY <1>4, <1>6 DEF IInv

LEMMA LoadConfigKeeps == ASSUME IInv, LoadConfig PROVE IInv'
<1>0. /\ loop = "Idle" /\ history' = [history EXCEPT !.tidy = FALSE]
      /\ UNCHANGED <<store, security, sessions, web, queue, loop>>
  BY DEF LoadConfig, Idle
<1>1. config' \in Config
  BY FlagEffect DEF LoadConfig, IInv, TypeOK
<1>2. /\ history' \in [erased : BOOLEAN, tidy : BOOLEAN] /\ history'.erased = history.erased
      /\ history'.tidy = FALSE
  BY <1>0 DEF IInv, TypeOK
<1>a. TypeOK'
  BY <1>0, <1>1, <1>2 DEF IInv, TypeOK
<1>b. QueueInv' /\ SessionsCurrent' /\ IdentityKept' /\ ErasedStaysErased'
  BY <1>0, <1>2 DEF IInv, QueueInv, SessionsCurrent, IdentityKept, ErasedStaysErased
<1>c. AdministratorKept' /\ ProvisionedUsable' /\ FlagInv' /\ LoopInv'
  BY <1>0, <1>2 DEF IInv, AdministratorKept, ProvisionedUsable, FlagInv, LoopInv
<1> QED BY <1>a, <1>b, <1>c DEF IInv

LEMMA RestartKeeps == ASSUME IInv, Restart PROVE IInv'
<1>0. PICK open \in BOOLEAN, active \in {FALSE, config.stored} :
        LET s == [store EXCEPT !.open = open]
        IN  /\ store' = s
            /\ security' = Initialized(s)
            /\ config' = [config EXCEPT !.active = active]
            /\ web' \in {FALSE, active /\ IdentityIsValid(Initialized(s).record)}
            /\ sessions' = NoSessions
            /\ queue' = <<>>
            /\ loop' = "Idle"
            /\ UNCHANGED history
  BY DEF Restart
<1>1. store' \in Store /\ store'.newest = store.newest
  BY <1>0 DEF IInv, TypeOK, Store
<1>2. security' = Initialized(store')
  BY <1>0
<1>3. /\ security' \in Security
      /\ security'.record = EmptyRecord
           \/ (store.newest # NoRecord /\ security'.record = store.newest)
      /\ security'.initialized =>
           store.newest # NoRecord /\ security'.record = store.newest
           /\ HasAdministrator(store.newest)
  BY <1>1, <1>2, InitializedEffect
<1>4. config.stored \in BOOLEAN /\ active \in BOOLEAN
  BY DEF IInv, TypeOK, Config
<1>5. /\ config' \in Config /\ config'.stored = config.stored /\ config'.doubt = config.doubt
      /\ config'.active = active /\ active \in {FALSE, config.stored}
  BY <1>0, <1>4 DEF IInv, TypeOK, Config
<1>6. web' \in BOOLEAN /\ (web' => active)
  <2>1. (active /\ IdentityIsValid(Initialized([store EXCEPT !.open = open]).record)) \in BOOLEAN
    BY DEF IdentityIsValid
  <2> QED BY <1>0, <2>1
<1>7. /\ sessions' \in [SessionSlots -> Session \cup {NoSession}]
      /\ \A s \in SessionSlots : sessions'[s] = NoSession
      /\ loop' = "Idle" /\ history' = history /\ queue' = <<>>
  BY <1>0 DEF NoSessions
<1>8. queue' \in Seq(Edit) /\ Len(queue') = 0
  BY <1>7, EmptySeq
<1>a. TypeOK'
  BY <1>1, <1>3, <1>5, <1>6, <1>7, <1>8, WebAccessAssumption DEF IInv, TypeOK
<1>b. QueueInv' /\ SessionsCurrent' /\ LoopInv'
  BY <1>7, <1>8 DEF QueueInv, SessionsCurrent, LoopInv
<1>c. AdministratorKept' /\ ErasedStaysErased' /\ ProvisionedUsable' /\ IdentityKept'
  BY <1>1, <1>3, <1>5, <1>7, NobodyAdministers
     DEF IInv, AdministratorKept, ErasedStaysErased, ProvisionedUsable, IdentityKept
<1>d. FlagInv'
  BY <1>4, <1>5, <1>6, <1>7 DEF IInv, FlagInv
<1> QED BY <1>a, <1>b, <1>c, <1>d DEF IInv

----------------------------------------------------------------------------
(* Every step, and the theorems. *)

LEMMA HttpsTaskKeeps == ASSUME IInv, HttpsTask PROVE IInv'
<1>1. ASSUME NEW user \in UserIds, CreateSession(user) PROVE IInv'
  BY <1>1, CreateSessionKeeps
<1>2. ASSUME NEW s \in SessionSlots, DeleteSession(s) PROVE IInv'
  BY <1>2, ExpireSessionKeeps DEF DeleteSession
<1>3. ASSUME NEW s \in SessionSlots, NEW recovery \in BOOLEAN,
             NEW user \in UserIds \cup {NewUser}, NEW kind \in Kind \ {"None"},
             EnqueueSaveUser(s, recovery, user, kind)
      PROVE  IInv'
  BY <1>3, EnqueueSaveUserKeeps
<1>4. ASSUME NEW s \in SessionSlots, NEW recovery \in BOOLEAN,
             NEW route \in Reads \cup OtherMutations, ServeOther(s, route, recovery)
      PROVE  IInv'
  BY <1>4, ServeOtherKeeps
<1> QED BY <1>1, <1>2, <1>3, <1>4 DEF HttpsTask

LEMMA StepKeepsIInv == IInv /\ [Next]_vars => IInv'
<1> SUFFICES ASSUME IInv, [Next]_vars PROVE IInv'
  OBVIOUS
<1>1. CASE HttpsTask
  BY <1>1, HttpsTaskKeeps
<1>2. CASE LoopStep
  BY <1>2, ProcessSaveUserKeeps, ProvisionKeeps, SetFlagKeeps, ProvisionFailsKeeps,
     FactoryResetKeeps, ResetConfigurationKeeps, EraseUserConfigurationKeeps, EraseUsersKeeps,
     LoadConfigKeeps
     DEF LoopStep
<1>3. CASE Restart
  BY <1>3, RestartKeeps
<1>4. CASE UNCHANGED vars
  BY <1>4 DEF vars, IInv, TypeOK, QueueInv, SessionsCurrent, AdministratorKept,
              ErasedStaysErased, ProvisionedUsable, IdentityKept, FlagInv, LoopInv,
              StoredAdministrator
<1> QED BY <1>1, <1>2, <1>3, <1>4 DEF Next

\* The inductive invariant holds in every state: what IInv joins together about the
\* stores, the memory of WebSecurityService, the flag and the loop is kept by every call.
THEOREM Invariance == Spec => []IInv
BY InitIInv, StepKeepsIInv, PTL DEF Spec

\* Every variable of the users, the sessions and the flag holds a value of its type, and
\* the queue of edits keeps to its capacity.
THEOREM TypeCorrect == Spec => []TypeOK
<1>1. IInv => TypeOK
  BY DEF IInv
<1> QED BY <1>1, Invariance, PTL

\* A session acts for a user that is still enabled, in the role the user has now:
\* saveUser, the erasures and provisioning end the sessions they must.
THEOREM SessionsAreCurrent == Spec => []SessionsCurrent
<1>1. IInv => SessionsCurrent
  BY DEF IInv
<1> QED BY <1>1, Invariance, PTL

\* No edit of the users that saveUser takes, refuses or half stores locks everybody out.
THEOREM NobodyLockedOut == Spec => []AdministratorKept
<1>1. IInv => AdministratorKept
  BY DEF IInv
<1> QED BY <1>1, Invariance, PTL

\* Users that eraseUsersPreservingIdentity reported as erased do not come back before
\* somebody provisions the device again.
THEOREM ErasureLasts == Spec => []ErasedStaysErased
<1>1. IInv => ErasedStaysErased
  BY DEF IInv
<1> QED BY <1>1, Invariance, PTL

\* After an operation on both stores has completed, the flag in the configuration says
\* provisioned exactly when the security store holds an administrator.
THEOREM StoresAgree == Spec => []ProvisionedUsable
<1>1. IInv => ProvisionedUsable
  BY DEF IInv
<1> QED BY <1>1, Invariance, PTL

----------------------------------------------------------------------------
(* What a step may do to the record that the next boot will find. *)

Erased ==
    /\ store.newest # NoRecord /\ store'.newest \in Record /\ store'.newest # NoRecord
    /\ ~HasAdministrator(store'.newest)
    /\ store'.newest.identity = store.newest.identity

Edited ==
    /\ queue # queue' /\ Head(queue).by = "Administrator"
    /\ store'.newest # NoRecord
    /\ store'.newest.identity = security.record.identity

Provisioned ==
    /\ ~history'.tidy /\ UNCHANGED <<config, web, queue>>
    /\ store'.newest # NoRecord
    /\ IdentityIsValid(security.record) => store'.newest.identity = security.record.identity

LEMMA NewestChanges ==
    ASSUME IInv, [Next]_vars
    PROVE  \/ store'.newest = store.newest
           \/ loop = "SetFlag" /\ store'.newest = NoRecord
           \/ Erased \/ Edited \/ Provisioned
<1>0. store \in Store /\ security \in Security
  BY DEF IInv, TypeOK
<1>1. CASE HttpsTask \/ SetFlag \/ ResetConfiguration \/ EraseUserConfiguration \/ LoadConfig
            \/ UNCHANGED vars
  BY <1>1 DEF HttpsTask, CreateSession, DeleteSession, ExpireSession, EnqueueSaveUser, ServeOther,
              SetFlag, ResetConfiguration, EraseUserConfiguration, LoadConfig, vars
<1>2. CASE FactoryReset \/ EraseUsers
  <2>1. PICK e \in EraseUsersPreservingIdentity : store' = e.store
    BY <1>2 DEF FactoryReset, EraseUsers
  <2> QED BY <1>0, <2>1, EraseUsersEffect, NothingIsNoData DEF Erased
<1>3. CASE ProvisionFails
  BY <1>0, <1>3, EraseOutcomesEffect DEF ProvisionFails
<1>4. CASE Restart
  BY <1>0, <1>4 DEF Restart, Store
<1>5. CASE Provision
  <2>1. PICK r \in InitialRecords : \E o \in SaveOutcomes(store, r) : store' = o.store
    BY <1>5 DEF Provision
  <2>2. PICK o \in SaveOutcomes(store, r) : store' = o.store
    BY <2>1
  <2>3. /\ r \in Record /\ r # NoRecord
        /\ IdentityIsValid(security.record) => r.identity = security.record.identity
    BY <1>0, InitialRecordEffect, NothingIsNoData
  <2>4. store'.newest \in {store.newest, r}
    BY <1>0, <2>2, <2>3, SaveEffect
  <2>5. ~history'.tidy /\ UNCHANGED <<config, web, queue>>
    BY <1>5 DEF Provision
  <2> QED BY <2>3, <2>4, <2>5 DEF Provisioned
<1>6. CASE ProcessSaveUser
  <2> DEFINE e == Head(queue)
  <2>0. queue # <<>> /\ queue' = Tail(queue) /\ queue \in Seq(Edit)
    BY <1>6 DEF ProcessSaveUser, IInv, QueueInv
  <2>1. e \in Edit /\ Len(queue') = Len(queue) - 1 /\ Len(queue) \in Nat
    BY <2>0, HeadTailProperties, LenProperties
  <2>2. queue # queue'
    BY <2>1
  <2>3. e.by = "Administrator" /\ e.kind \in Kind
    BY <2>1 DEF Edit
  <2>4. CASE UNCHANGED store
    BY <2>4
  <2>5. CASE ~UNCHANGED store
    <3>1. PICK r \in Replacements(e.user, e.kind) :
            \E o \in SaveOutcomes(store, r) : store' = o.store
      BY <1>6, <2>5 DEF ProcessSaveUser
    <3>2. PICK o \in SaveOutcomes(store, r) : store' = o.store
      BY <3>1
    <3>3. r \in Record /\ r # NoRecord /\ r.identity = security.record.identity
      BY <1>0, <2>3, ReplacementEffect, NothingIsNoData
    <3>4. store'.newest \in {store.newest, r}
      BY <1>0, <3>2, <3>3, SaveEffect
    <3> QED BY <2>2, <2>3, <3>3, <3>4 DEF Edited
  <2> QED BY <2>4, <2>5
<1> QED BY <1>1, <1>2, <1>3, <1>4, <1>5, <1>6 DEF Next, LoopStep

\* The identity in use survives every call and every restart, except that a provisioning
\* whose second store fails erases it.
THEOREM IdentitySurvives == Spec => IdentityPreserved
<1> DEFINE Kept == IdentityIsValid(security.record) /\ loop # "SetFlag" =>
                     /\ store'.newest # NoRecord
                     /\ store'.newest.identity = security.record.identity
<1>1. ASSUME IInv, [Next]_vars PROVE Kept
  BY <1>1, NewestChanges DEF IInv, IdentityKept, Erased, Edited, Provisioned
<1>2. IInv /\ [Next]_vars => [Kept]_vars
  BY <1>1
<1> QED BY <1>2, Invariance, PTL DEF Spec, IdentityPreserved

\* No step makes a stored user an administrator but the edit an administrator's session
\* was authorized for, or a provisioning at the device.
THEOREM PromotionIsAuthorized == Spec => OnlyAdministratorsPromote
<1> DEFINE Promoted == store'.newest # NoRecord =>
             \A u \in UserIds :
                store'.newest.users[u] = "Administrator" =>
                    \/ store.newest # NoRecord /\ store.newest.users[u] = "Administrator"
                    \/ queue # queue' /\ Head(queue).by = "Administrator"
                    \/ ~history'.tidy /\ UNCHANGED <<config, web, queue>>
<1>1. ASSUME IInv, [Next]_vars PROVE Promoted
  BY <1>1, NewestChanges DEF Erased, Edited, Provisioned, HasAdministrator
<1>2. IInv /\ [Next]_vars => [Promoted]_vars
  BY <1>1
<1> QED BY <1>2, Invariance, PTL DEF Spec, OnlyAdministratorsPromote
============================================================================
