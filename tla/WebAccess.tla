------------------------------ MODULE WebAccess ------------------------------
(***************************************************************************)
(* Who may use the web interface: the users and sessions of                *)
(* WebSecurityService, the two slots its record is kept in, and the flag   *)
(* web.securityProvisioned, which is kept in another store, the            *)
(* configuration.  Provisioning, user erasure and factory reset change     *)
(* both stores, one after the other, and anything may fail or lose power   *)
(* in between.  The configuration is what ConfigurationContract promises,  *)
(* reduced to the flag.  WebSecurityService holds its mutex through every  *)
(* call, so a call is one step of the HTTPS task or of the loop.           *)
(***************************************************************************)
EXTENDS FiniteSets, Naturals, Sequences

CONSTANTS
    UserIds,       \* 1 .. webUserCapacity
    SessionSlots,
    Identities,    \* signing key and certificate, as generated
    QueueCapacity, \* of WebRequestQueue
    Production,    \* deploymentProfile = DeploymentProfile::Production
    NoIdentity, NoRecord, Corrupt, NoSession

ASSUME WebAccessAssumption ==
    /\ 1 \in UserIds /\ UserIds \subseteq Nat \ {0}
    /\ QueueCapacity \in Nat \ {0}
    /\ Production \in BOOLEAN

VARIABLES
    store,    \* the slots of NvsWebSecurityStore
    security, \* record_ and initialized_
    sessions, \* sessions_
    config,   \* web.securityProvisioned: in use, in flash, and in doubt
    web,      \* whether the HTTPS server runs
    queue,    \* SaveUser requests between the HTTPS task and the loop
    loop,     \* the second half of a two-store operation the loop is in
    history   \* what was erased and completed, for the properties

vars == <<store, security, sessions, config, web, queue, loop, history>>

Kind == {"None", "Administrator", "Guest", "Disabled"}
Roles == {"Administrator", "Guest"}

Record == [identity : Identities \cup {NoIdentity}, users : [UserIds -> Kind]]

ASSUME NothingIsNoData == NoRecord \notin Record /\ NoIdentity \notin Identities

NoUsers == [u \in UserIds |-> "None"]
EmptyRecord == [identity |-> NoIdentity, users |-> NoUsers]

IdentityIsValid(r) == r.identity # NoIdentity
HasAdministrator(r) == \E u \in UserIds : r.users[u] = "Administrator"

----------------------------------------------------------------------------
(* NvsWebSecurityStore.  A save goes to the slot that load would not take, *)
(* with a generation above both, so newest is what load takes.             *)

Store == [newest : Record \cup {NoRecord}, other : Record \cup {NoRecord, Corrupt},
          open : BOOLEAN]

Load(s) ==
    CASE ~s.open -> "IoFailure"
      [] s.open /\ s.newest # NoRecord -> "Applied"
      [] s.open /\ s.newest = NoRecord /\ s.other = NoRecord -> "NotFound"
      [] s.open /\ s.newest = NoRecord /\ s.other # NoRecord -> "InvalidRecord"

\* The slot with the new record, and the one it leaves in place.
Written(s, r) == [s EXCEPT !.newest = r, !.other = s.newest]
Torn(s) == [s EXCEPT !.other = Corrupt]

\* What save may leave, and whether it answers Applied: not written, torn,
\* written with a failure of the marker, which load never reads, or written.
SaveOutcomes(s, r) ==
    IF ~s.open THEN {[store |-> s, applied |-> FALSE]}
    ELSE {[store |-> s, applied |-> FALSE],
          [store |-> Torn(s), applied |-> FALSE],
          [store |-> Written(s, r), applied |-> FALSE],
          [store |-> Written(s, r), applied |-> TRUE]}

EraseOutcomes(s) ==
    IF ~s.open THEN {s} ELSE {s, [s EXCEPT !.newest = NoRecord, !.other = NoRecord]}

----------------------------------------------------------------------------
(* WebSecurityService. *)

Security == [record : Record, initialized : BOOLEAN]

Session == [user : UserIds, role : Roles]
NoSessions == [s \in SessionSlots |-> NoSession]

Initialized(s) ==
    IF Load(s) # "Applied" THEN [record |-> EmptyRecord, initialized |-> FALSE]
    ELSE [record |-> s.newest,
          initialized |-> IdentityIsValid(s.newest) /\ HasAdministrator(s.newest)]

\* Slip: guests manage users.
PermissionsWide(role) ==
    {"RelayRead", "DiagnosticsRead", "ConfigurationRead", "RelayCommand",
     "ConfigurationWrite", "UsersManage"}

PermissionsFor(role) ==
    {"RelayRead", "DiagnosticsRead", "ConfigurationRead"}
    \cup (IF role = "Administrator"
          THEN {"RelayCommand", "ConfigurationWrite", "UsersManage"} ELSE {})

\* Slip: sessions outlive the change of their user.
RevokeNothing(ss, user) == ss

RevokeUserSessions(ss, user) ==
    [s \in SessionSlots |->
        IF ss[s] # NoSession /\ ss[s].user = user THEN NoSession ELSE ss[s]]

\* The identifier of a new user is one above the greatest.
NewUser == 0
FreeIds(r) == {u \in UserIds : \A v \in UserIds : v >= u => r.users[v] = "None"}
Target(r, user) ==
    IF user = NewUser
    THEN {u \in FreeIds(r) : \A v \in FreeIds(r) : u <= v}
    ELSE {u \in UserIds : u = user /\ r.users[u] # "None"}

\* Slip: the last administrator may go.
KeepsNobody(r) == TRUE

KeepsAdministrator(r) == HasAdministrator(r)

\* The records saveUser would save: one, or none when it refuses.
Replacements(user, kind) ==
    {r \in {[security.record EXCEPT !.users[u] = kind] : u \in Target(security.record, user)} :
        security.initialized /\ KeepsAdministrator(r)}

\* Slip: provisioning always makes an identity of its own.
NewIdentity(r) == Identities \ {r.identity}

ProvisionIdentity(r) == IF IdentityIsValid(r) THEN {r.identity} ELSE Identities

\* provisionInitialAdministrator replaces every user by one administrator.
InitialRecords ==
    {[identity |-> i, users |-> [NoUsers EXCEPT ![1] = "Administrator"]] :
        i \in ProvisionIdentity(security.record)}

\* The states eraseUsersPreservingIdentity may leave, and whether it answers
\* Applied.  It starts from the store, not from the record in memory.
Erasure(s, sec, ss, applied) ==
    [store |-> s, security |-> sec, sessions |-> ss, applied |-> applied]

\* Slip: what the store answers to the save is not looked at.
EraseUnchecked ==
    {Erasure(o.store, [record |-> [store.newest EXCEPT !.users = NoUsers],
                       initialized |-> FALSE], NoSessions, TRUE) :
        o \in IF Load(store) = "Applied"
              THEN SaveOutcomes(store, [store.newest EXCEPT !.users = NoUsers]) ELSE {}}

EraseUsersPreservingIdentity ==
    CASE Load(store) = "NotFound" ->
            {Erasure(store, [record |-> EmptyRecord, initialized |-> FALSE],
                     NoSessions, TRUE)}
      [] Load(store) \in {"IoFailure", "InvalidRecord"} ->
            {Erasure(store, security, sessions, FALSE)}
      [] Load(store) = "Applied" ->
            LET r == [store.newest EXCEPT !.users = NoUsers]
            IN  {IF o.applied
                 THEN Erasure(o.store, [record |-> r, initialized |-> FALSE], NoSessions, TRUE)
                 ELSE Erasure(o.store, security, sessions, FALSE) : o \in SaveOutcomes(store, r)}

----------------------------------------------------------------------------
(* The flag in the configuration, as ConfigurationContract has it. *)

Config == [active : BOOLEAN, stored : BOOLEAN, doubt : SUBSET BOOLEAN]

\* Slip: the flag is staged and never committed.
FlagStaged(flag) == {[config EXCEPT !.active = flag]}

\* A save that is reported is durable unless an earlier one is in doubt.
FlagSaved(flag) ==
    {[active |-> flag, stored |-> f, doubt |-> {flag} \ {f}] :
        f \in IF config.doubt = {} THEN {flag} ELSE {config.stored, flag} \cup config.doubt}

FlagNotSaved(flag) ==
    {[config EXCEPT !.stored = f, !.doubt = @ \cup {flag}] :
        f \in {config.stored, flag} \cup config.doubt}

Locked == Production /\ config.active

\* A two-store operation that completes leaves no doubt if its save had none.
Tidy(c) == c.doubt = {}

----------------------------------------------------------------------------
(* The HTTPS task. *)

\* A route: the permission it asks authorize for, and whether it is a mutation,
\* whose origin, CSRF token and rate are checked.
Route(permission, mutation) == [permission |-> permission, mutation |-> mutation]

SendCapabilities == Route("RelayRead", FALSE)
SendRelays == Route("RelayRead", FALSE)
GetCommandResult == Route("RelayRead", FALSE)
AuthorizeWebSocket == Route("RelayRead", FALSE)
SendDevice == Route("DiagnosticsRead", FALSE)
SendDiagnostics == Route("DiagnosticsRead", FALSE)
SendNetwork == Route("DiagnosticsRead", FALSE)
SendWifi == Route("ConfigurationRead", FALSE)
SendModbusConfiguration == Route("ConfigurationRead", FALSE)
SendKnxConfiguration == Route("ConfigurationRead", FALSE)
GetOperationResult == Route("ConfigurationRead", FALSE)
SendUsers == Route("UsersManage", FALSE)

Reads ==
    {SendCapabilities, SendRelays, GetCommandResult, AuthorizeWebSocket, SendDevice,
     SendDiagnostics, SendNetwork, SendWifi, SendModbusConfiguration,
     SendKnxConfiguration, GetOperationResult, SendUsers}

SubmitRelayCommand == Route("RelayCommand", TRUE)
SaveModbusConfiguration == Route("ConfigurationWrite", TRUE)
SetModbusRole == Route("ConfigurationWrite", TRUE)
SaveKnxConfiguration == Route("ConfigurationWrite", TRUE)
StartWifiScan == Route("ConfigurationWrite", TRUE)
SaveWifiProfile == Route("ConfigurationWrite", TRUE)
RemoveWifiProfile == Route("ConfigurationWrite", TRUE)
MoveWifiProfile == Route("ConfigurationWrite", TRUE)
ConnectWifiProfile == Route("ConfigurationWrite", TRUE)
SaveRecoveryAp == Route("ConfigurationWrite", TRUE)
RequestRestart == Route("ConfigurationWrite", TRUE)
SaveUser == Route("UsersManage", TRUE)

\* Mutations whose effect is outside this module; a save keeps the flag.
OtherMutations ==
    {SubmitRelayCommand, SaveModbusConfiguration, SetModbusRole, SaveKnxConfiguration,
     StartWifiScan, SaveWifiProfile, RemoveWifiProfile, MoveWifiProfile,
     ConnectWifiProfile, SaveRecoveryAp, RequestRestart}

\* While the recovery access point is up, only the configuration is served.
AllowedInRecovery(route) == route.permission \in {"ConfigurationRead", "ConfigurationWrite"}

\* What a session is authorized for; origin, CSRF token and rate may still refuse.
Authorizes(s, route, recovery) ==
    /\ web /\ sessions[s] # NoSession
    /\ recovery => AllowedInRecovery(route)
    /\ route.permission \in PermissionsFor(sessions[s].role)

\* validateSession: a token is looked up after its session has expired.
ExpireSession(s) ==
    /\ web /\ sessions[s] # NoSession
    /\ sessions' = [sessions EXCEPT ![s] = NoSession]
    /\ UNCHANGED <<store, security, config, web, queue, loop, history>>

\* createSession.  The first free slot is taken.
CreateSession(user) ==
    /\ web /\ security.initialized
    /\ security.record.users[user] \in Roles
    /\ \E s \in SessionSlots :
         /\ sessions[s] = NoSession
         /\ sessions' = [sessions EXCEPT ![s] = [user |-> user, role |-> security.record.users[user]]]
    /\ UNCHANGED <<store, security, config, web, queue, loop, history>>

\* deleteSession, asked for by the session's own client.
DeleteSession(s) == ExpireSession(s)

\* Slip: the queue is not bounded.
HasRoomAlways(q) == TRUE

HasRoom(q) == Len(q) < QueueCapacity

\* A mutation of the users: authorized, then queued.  Nothing the loop does in
\* between can tell this from a request that waits in the queue.
EnqueueSaveUser(s, recovery, user, kind) ==
    /\ Authorizes(s, SaveUser, recovery)
    /\ HasRoom(queue)
    /\ queue' = Append(queue, [user |-> user, kind |-> kind, by |-> sessions[s].role])
    /\ UNCHANGED <<store, security, sessions, config, web, loop, history>>

\* Routes that change a configuration, relays or the network: the save of the
\* configuration they may end in succeeds or fails with the flag as it is.
ServeOther(s, route, recovery) ==
    /\ Authorizes(s, route, recovery)
    /\ config' \in {config} \cup IF route.permission = "ConfigurationWrite"
                                 THEN FlagSaved(config.active) \cup FlagNotSaved(config.active)
                                 ELSE {}
    /\ UNCHANGED <<store, security, sessions, web, queue, loop, history>>

----------------------------------------------------------------------------
(* The loop. *)

Idle == loop = "Idle"

\* processWebRequest, SaveUser.
ProcessSaveUser ==
    /\ Idle /\ queue # <<>>
    /\ queue' = Tail(queue)
    /\ \/ /\ Replacements(Head(queue).user, Head(queue).kind) = {}
          /\ UNCHANGED <<store, security, sessions>>
       \/ \E r \in Replacements(Head(queue).user, Head(queue).kind) :
          \E o \in SaveOutcomes(store, r) :
            /\ store' = o.store
            /\ IF o.applied
               THEN /\ security' = [security EXCEPT !.record = r]
                    /\ sessions' = RevokeUserSessions(sessions,
                            CHOOSE u \in Target(security.record, Head(queue).user) : TRUE)
               ELSE UNCHANGED <<security, sessions>>
    /\ UNCHANGED <<config, web, loop, history>>

\* handleProvisionWeb, up to the save of the record.
Provision ==
    /\ Idle /\ ~Locked /\ ~config.active
    /\ \E r \in InitialRecords : \E o \in SaveOutcomes(store, r) :
         /\ store' = o.store
         /\ IF o.applied
            THEN /\ security' = [record |-> r, initialized |-> TRUE]
                 /\ sessions' = NoSessions
                 /\ loop' = "SetFlag"
            ELSE UNCHANGED <<security, sessions, loop>>
    /\ history' = [erased |-> FALSE, tidy |-> FALSE]
    /\ UNCHANGED <<config, web, queue>>

\* handleProvisionWeb from there on.
SetFlag ==
    /\ loop = "SetFlag"
    /\ config' \in FlagSaved(TRUE)
    /\ history' = [history EXCEPT !.tidy = Tidy(config')]
    /\ loop' = "Idle"
    /\ UNCHANGED <<store, security, sessions, web, queue>>

\* No fingerprint, or the flag is not saved: the security record is erased.
ProvisionFails ==
    /\ loop = "SetFlag"
    /\ config' \in {config} \cup FlagNotSaved(TRUE)
    /\ store' \in EraseOutcomes(store)
    /\ security' = [record |-> EmptyRecord, initialized |-> FALSE]
    /\ sessions' = NoSessions
    /\ loop' = "Idle"
    /\ UNCHANGED <<web, queue, history>>

\* performFactoryReset: the server is stopped and the users are erased, first.
FactoryReset ==
    /\ Idle
    /\ web' = FALSE
    /\ \E e \in EraseUsersPreservingIdentity :
         /\ store' = e.store /\ security' = e.security /\ sessions' = e.sessions
         /\ loop' = IF e.applied THEN "ResetConfiguration" ELSE "Idle"
         /\ history' = [erased |-> history.erased \/ e.applied, tidy |-> FALSE]
    /\ UNCHANGED <<config, queue>>

\* The configuration follows.
ResetConfiguration ==
    /\ loop = "ResetConfiguration"
    /\ \/ config' \in FlagSaved(FALSE) /\ history' = [history EXCEPT !.tidy = Tidy(config')]
       \/ config' \in FlagNotSaved(FALSE) /\ UNCHANGED history
    /\ loop' = "Idle"
    /\ UNCHANGED <<store, security, sessions, web, queue>>

\* service erase-user-configuration: the configuration first, then the users.
EraseUserConfiguration ==
    /\ Idle
    /\ \/ config' \in FlagSaved(FALSE) /\ loop' = "EraseUsers"
       \/ config' \in FlagNotSaved(FALSE) /\ UNCHANGED loop
    /\ history' = [history EXCEPT !.tidy = FALSE]
    /\ UNCHANGED <<store, security, sessions, web, queue>>

EraseUsers ==
    /\ loop = "EraseUsers"
    /\ \E e \in EraseUsersPreservingIdentity :
         /\ store' = e.store /\ security' = e.security /\ sessions' = e.sessions
         /\ history' = [erased |-> history.erased \/ e.applied,
                        tidy |-> e.applied /\ Tidy(config)]
    /\ loop' = "Idle"
    /\ UNCHANGED <<config, web, queue>>

\* load-config: the files say whether the web is provisioned.
LoadConfig ==
    /\ Idle /\ ~Locked
    /\ \E flag \in BOOLEAN : config' \in FlagSaved(flag) \cup FlagNotSaved(flag)
    /\ history' = [history EXCEPT !.tidy = FALSE]
    /\ UNCHANGED <<store, security, sessions, web, queue, loop>>

\* Power is cut or the device restarts; what was in flash stays, and initialize
\* finds it.  Either store may not open; the server may not start.
Restart ==
    \E open \in BOOLEAN, active \in {FALSE, config.stored} :
      LET s == [store EXCEPT !.open = open]
      IN  /\ store' = s
          /\ security' = Initialized(s)
          /\ config' = [config EXCEPT !.active = active]
          /\ web' \in {FALSE, active /\ IdentityIsValid(Initialized(s).record)}
          /\ sessions' = NoSessions
          /\ queue' = <<>>
          /\ loop' = "Idle"
          /\ UNCHANGED history

----------------------------------------------------------------------------
Init ==
    /\ store = [newest |-> NoRecord, other |-> NoRecord, open |-> TRUE]
    /\ security = [record |-> EmptyRecord, initialized |-> FALSE]
    /\ sessions = NoSessions
    /\ config = [active |-> FALSE, stored |-> FALSE, doubt |-> {}]
    /\ web = FALSE
    /\ queue = <<>>
    /\ loop = "Idle"
    /\ history = [erased |-> FALSE, tidy |-> TRUE]

HttpsTask ==
    \/ \E user \in UserIds : CreateSession(user)
    \/ \E s \in SessionSlots :
         \/ DeleteSession(s)
         \/ \E recovery \in BOOLEAN :
              \/ \E user \in UserIds \cup {NewUser}, kind \in Kind \ {"None"} :
                    EnqueueSaveUser(s, recovery, user, kind)
              \/ \E route \in Reads \cup OtherMutations : ServeOther(s, route, recovery)

LoopStep ==
    \/ ProcessSaveUser
    \/ Provision \/ SetFlag \/ ProvisionFails
    \/ FactoryReset \/ ResetConfiguration
    \/ EraseUserConfiguration \/ EraseUsers
    \/ LoadConfig

Next == HttpsTask \/ LoopStep \/ Restart

Spec == Init /\ [][Next]_vars

----------------------------------------------------------------------------
(* Properties. *)

\* Every variable holds a value of its type; the queue keeps to its capacity.
TypeOK ==
    /\ store \in Store
    /\ security \in Security
    /\ sessions \in [SessionSlots -> Session \cup {NoSession}]
    /\ config \in Config
    /\ web \in BOOLEAN
    /\ Len(queue) <= QueueCapacity
    /\ \A i \in 1 .. Len(queue) :
         queue[i] \in [user : UserIds \cup {NewUser}, kind : Kind, by : Roles]
    /\ loop \in {"Idle", "SetFlag", "ResetConfiguration", "EraseUsers"}
    /\ history \in [erased : BOOLEAN, tidy : BOOLEAN]

\* No edit of the users, applied, refused or half stored, locks everybody out: while
\* users can log in there is an administrator among them, and unless an erasure is
\* under way or has failed, also among those the next boot will find.
AdministratorKept ==
    security.initialized =>
        /\ HasAdministrator(security.record)
        /\ history.tidy => store.newest # NoRecord /\ HasAdministrator(store.newest)

\* A session acts for a user who is still enabled, in the role the user has now:
\* disabling or demoting a user ends the user's sessions, and so does erasing.
SessionsCurrent ==
    \A s \in SessionSlots :
        sessions[s] # NoSession =>
            security.initialized /\ security.record.users[sessions[s].user] = sessions[s].role

\* Users that were reported as erased do not come back, in memory or at a later boot,
\* whatever fails afterwards, until somebody provisions the device again.
ErasedStaysErased ==
    history.erased =>
        /\ ~HasAdministrator(security.record)
        /\ store.newest # NoRecord => ~HasAdministrator(store.newest)

\* After a provisioning or an erasure that completed, the configuration says
\* provisioned exactly when the other store holds an administrator: the device is
\* neither open to a second provisioning nor closed to everybody.
ProvisionedUsable ==
    history.tidy =>
        (config.stored <=> store.newest # NoRecord /\ HasAdministrator(store.newest))

\* The identity that the service has taken up, which clients may have pinned,
\* survives user edits, erasure, factory reset, provisioning and restart; only a
\* provisioning that fails after its first store loses it.
IdentityPreserved ==
    [][IdentityIsValid(security.record) /\ loop # "SetFlag" =>
         store'.newest # NoRecord
         /\ store'.newest.identity = security.record.identity]_vars

\* Nobody becomes an administrator but by a request an administrator's session was
\* authorized for, or by provisioning at the device.
OnlyAdministratorsPromote ==
    [][store'.newest # NoRecord =>
         \A u \in UserIds :
            store'.newest.users[u] = "Administrator" =>
                \/ store.newest # NoRecord /\ store.newest.users[u] = "Administrator"
                \/ queue # queue' /\ Head(queue).by = "Administrator"
                \/ ~history'.tidy /\ UNCHANGED <<config, web, queue>>]_vars
=============================================================================
