----------------------------- MODULE StoreProofs -----------------------------
(***************************************************************************)
(* Proofs about the application store: its connections, for any number of  *)
(* driver objects and metadata loads, and what the window keeps on this    *)
(* machine, the connection profiles with their passwords and the workspace.*)
(***************************************************************************)
EXTENDS ConnectionStore, Workspace, ConnectionProfiles, ListsProofs

-----------------------------------------------------------------------------
(* Connections.                                                            *)

\* The registry's connection at each await of the call that asked for it.
Stage(d) ==
  /\ flow[d] = "idle" => native[d] = "none" /\ d \notin probing
  /\ flow[d] = "connecting" =>
       \/ reply[d] = "none" /\ native[d] \in {"requested", "forwarding"}
       \/ reply[d] = "ok" /\ native[d] = "open"
       \/ reply[d] = "error" /\ native[d] = "gone"
  /\ flow[d] \in {"loading", "replacing"} => native[d] = "open" /\ d \in hasId
  /\ flow[d] = "closing" =>
       \/ reply[d] = "none" /\ (native[d] = "open" \/ (native[d] = "closing" /\ closer[d] = d))
       \/ reply[d] # "none" /\ native[d] = "gone"
  /\ flow[d] = "settled" =>
       /\ native[d] \in {"open", "closing", "gone"}
       /\ native[d] # "gone" => d = current /\ d \in hasId

\* What each call knows of its own connection.
Known(d) ==
  /\ d \in hasId => flow[d] \notin {"idle", "connecting"}
  /\ promise[d] = "resolved" => flow[d] \notin {"idle", "connecting"}
  /\ flow[d] \in {"loading", "replacing"} => promise[d] = "resolved"
  /\ flow[d] = "replacing" => d \notin probing /\ flow[replaces[d]] = "settled"
  /\ d = First => flow[d] \in {"connecting", "settled"} /\ d \notin probing

\* The store's driver is one whose call is over, or the first.
StoreInv ==
  /\ flow[ready] # "idle"
  /\ flow[current] \in {"connecting", "settled"}
  /\ flow[current] = "connecting" => current = First

\* Call e's disconnect of the prior connection is served.
Takes(e) ==
  /\ flow[e] = "replacing"
  /\ reply[e] = "ok" \/ (native[replaces[e]] = "closing" /\ closer[replaces[e]] = e)

\* A call awaits the disconnect it asked for, and the one that replaces the
\* prior connection finds it still the store's.
CloserInv ==
  /\ \A d \in Driver : native[d] = "closing" =>
       /\ reply[closer[d]] = "none"
       /\ \/ closer[d] = d /\ flow[d] = "closing"
          \/ flow[closer[d]] = "replacing" /\ replaces[closer[d]] = d
  /\ \A e \in Driver : Takes(e) =>
       /\ replaces[e] = current /\ current \in hasId
       /\ reply[e] = "ok" => native[current] = "gone"
  /\ \A e, f \in Driver : Takes(e) /\ Takes(f) => e = f

\* Until the first connection is settled nothing can replace it: the status
\* keeps the dialog's button disabled.
BootInv ==
  flow[First] = "connecting" =>
    /\ status = "connecting" /\ ready = First /\ current = First
    /\ promise[First] = "pending"
    /\ \A d \in Driver \ probing : d # First => flow[d] = "idle"
    /\ \A j \in Job : at[j] \in {"idle", "waiting"} /\ (at[j] = "waiting" => on[j] = First)

\* A pooled connection of the store that is gone has a successor.
PriorInv ==
  current \in Pooled /\ promise[current] = "resolved" /\ native[current] = "gone" =>
    \E e \in Driver : flow[e] = "replacing" /\ replaces[e] = current /\ reply[e] = "ok"

TunnelInv ==
  /\ TunnelEndsWithConnection
  /\ \A d \in Driver :
       /\ native[d] = "forwarding" => d \in ssh
       /\ d \in tunnels => native[d] \in {"open", "closing"}
       /\ native[d] \in {"open", "closing"} /\ d \in ssh => d \in tunnels

CallInv == (\A d \in Driver : Stage(d) /\ Known(d)) /\ StoreInv
ConnectionsInv == TypeOK /\ CallInv /\ CloserInv /\ BootInv /\ PriorInv /\ TunnelInv

-----------------------------------------------------------------------------
LEMMA ConnectionsInitInv == Init => ConnectionsInv
  BY DriversAreKnown, QueryIsNoLoad
  DEF Init, ConnectionsInv, TypeOK, CallInv, Stage, Known, StoreInv, CloserInv, Takes, BootInv, PriorInv,
      TunnelInv, TunnelEndsWithConnection, Job

LEMMA CallStepInv ==
  ASSUME NEW d \in Driver, ConnectionsInv, ConnectDatabase(d) \/ ProbeConnection(d) \/ Renderer(d)
  PROVE  ConnectionsInv'
<1> USE DriversAreKnown, QueryIsNoLoad DEF Goto, nativeVars, storeVars, jobVars, Job
<1> USE DEF ConnectionsInv, TypeOK, CallInv, Stage, Known, StoreInv, CloserInv, Takes, BootInv, PriorInv,
       TunnelInv, TunnelEndsWithConnection
<1>1. CASE ConnectDatabase(d) BY <1>1 DEF ConnectDatabase, Request
<1>2. CASE ProbeConnection(d) BY <1>2 DEF ProbeConnection, Request
<1>3. CASE Connected(d) BY <1>3 DEF Connected, Settle, Waiting, Replaces
<1>4. CASE Refused(d) BY <1>4 DEF Refused, Settle, Waiting, Replaces
<1>5. CASE MetadataLoaded(d)
  <2>1. CASE current \in hasId
    <3> USE <1>5, <2>1 DEF MetadataLoaded, Replaces
    <3>1. TypeOK' OBVIOUS
    <3>2. CallInv' OBVIOUS
    <3>3. CloserInv' OBVIOUS
    <3>4. BootInv' /\ PriorInv' /\ TunnelInv' OBVIOUS
    <3>5. QED BY <3>1, <3>2, <3>3, <3>4
  <2>2. CASE current \notin hasId BY <1>5, <2>2 DEF MetadataLoaded, Replaces, Install
  <2>3. QED BY <2>1, <2>2
<1>6. CASE GiveUp(d) BY <1>6 DEF GiveUp, MustGiveUp, Replaces
<1>7. CASE Replaced(d) BY <1>7 DEF Replaced, Install
<1>8. CASE Closed(d) BY <1>8 DEF Closed, Replaces
<1>9. QED BY <1>1, <1>2, <1>3, <1>4, <1>5, <1>6, <1>7, <1>8 DEF Renderer

LEMMA JobStepInv ==
  ASSUME NEW j \in Job, ConnectionsInv, Start(j) \/ JobStep(j)
  PROVE  ConnectionsInv'
<1> USE DriversAreKnown, QueryIsNoLoad DEF Step, callVars, storeVars, jobVars, nativeVars, Job
<1> USE DEF ConnectionsInv, TypeOK, CallInv, Stage, Known, StoreInv, CloserInv, Takes, BootInv, PriorInv,
       TunnelInv, TunnelEndsWithConnection
<1>1. CASE Start(j) BY <1>1 DEF Start
<1>2. CASE ServeJob(j) BY <1>2 DEF ServeJob, connections
<1>3. CASE JobEnds(j) BY <1>3 DEF JobEnds
<1>4. CASE JobAnswered(j) BY <1>4 DEF JobAnswered
<1>5. QED BY <1>1, <1>2, <1>3, <1>4 DEF JobStep

LEMMA RegistryStepInv ==
  ASSUME NEW d \in Driver, ConnectionsInv, Registry(d)
  PROVE  ConnectionsInv'
<1> USE DriversAreKnown, QueryIsNoLoad
<1> USE DEF Answer, Native, nonNativeVars, storeVars, jobVars, nativeVars, Job
<1> USE DEF ConnectionsInv, TypeOK, CallInv, Stage, Known, StoreInv, CloserInv, Takes, BootInv, PriorInv,
       TunnelInv, TunnelEndsWithConnection
<1>1. CASE StartTunnel(d) BY <1>1 DEF StartTunnel
<1>2. CASE TunnelFails(d) BY <1>2 DEF TunnelFails
<1>3. CASE OpenFails(d) BY <1>3 DEF OpenFails, CanOpen
<1>4. CASE Opened(d) BY <1>4 DEF Opened, CanOpen
<1>5. CASE ServeMetadata(d) BY <1>5 DEF ServeMetadata, connections
<1>6. CASE ServeDisconnect(d) BY <1>6 DEF ServeDisconnect, Disconnecting, Target, connections
<1>7. CASE DriverClosed(d) BY <1>7 DEF DriverClosed
<1>8. QED BY <1>1, <1>2, <1>3, <1>4, <1>5, <1>6, <1>7 DEF Registry

LEMMA ConnectionsNextInv == ConnectionsInv /\ [Next]_vars => ConnectionsInv'
<1> SUFFICES ASSUME ConnectionsInv, [Next]_vars PROVE ConnectionsInv'
  OBVIOUS
<1>1. CASE UNCHANGED vars
  BY <1>1 DEF vars, callVars, storeVars, jobVars, nativeVars, ConnectionsInv, TypeOK, CallInv, Stage, Known,
       StoreInv, CloserInv, Takes, BootInv, PriorInv, TunnelInv, TunnelEndsWithConnection
<1>2. ASSUME NEW d \in Driver,
             ConnectDatabase(d) \/ ProbeConnection(d) \/ Renderer(d) \/ Registry(d)
      PROVE  ConnectionsInv'
  BY <1>2, CallStepInv, RegistryStepInv
<1>3. ASSUME NEW j \in Job, Start(j) \/ JobStep(j) PROVE ConnectionsInv'
  BY <1>3, JobStepInv
<1>4. QED BY <1>1, <1>2, <1>3 DEF Next

LEMMA ConnectionsInvHolds == Spec => []ConnectionsInv
  BY ConnectionsInitInv, ConnectionsNextInv, PTL DEF Spec

\* The store's and the registry's variables keep their types, and tunnels in
\* the registry are live processes.
THEOREM StoreTypeCorrect == Spec => []TypeOK
<1>1. ConnectionsInv => TypeOK BY DEF ConnectionsInv
<1>2. QED BY <1>1, ConnectionsInvHolds, PTL

\* No connection is left in the registry that neither the store nor a call in
\* progress can close, whatever overlaps or fails.
THEOREM NoConnectionLeaks == Spec => []NoConnectionLeak
<1>1. ConnectionsInv => NoConnectionLeak
  BY DEF ConnectionsInv, CallInv, Stage, NoConnectionLeak, connections
<1>2. QED BY <1>1, ConnectionsInvHolds, PTL

\* The prior connection stays in the registry until a replacement that has
\* loaded asks for its end.
THEOREM PriorStays == Spec => []PriorStaysConnected
<1>1. ConnectionsInv => PriorStaysConnected
  <2> SUFFICES ASSUME ConnectionsInv, current \in Pooled, promise[current] = "resolved",
                      native[current] # "open"
               PROVE  \E d \in Driver \ probing :
                        /\ flow[d] = "replacing" /\ replaces[d] = current
                        /\ promise[d] = "resolved" /\ native[d] = "open"
    BY DEF PriorStaysConnected, connections, ConnectionsInv, TypeOK
  <2>1. flow[current] = "settled" /\ native[current] \in {"closing", "gone"}
    BY DEF ConnectionsInv, TypeOK, CallInv, Stage, Known, StoreInv
  <2>2. PICK e \in Driver : flow[e] = "replacing" /\ replaces[e] = current
    BY <2>1 DEF ConnectionsInv, TypeOK, CloserInv, PriorInv
  <2>3. QED BY <2>2 DEF ConnectionsInv, CallInv, Stage, Known
<1>2. QED BY <1>1, ConnectionsInvHolds, PTL

\* The tunnel of a connection that was established ends with it.
THEOREM TunnelsEnd == Spec => []TunnelEndsWithConnection
<1>1. ConnectionsInv => TunnelEndsWithConnection BY DEF ConnectionsInv, TunnelInv
<1>2. QED BY <1>1, ConnectionsInvHolds, PTL

-----------------------------------------------------------------------------
(* Connection profiles.                                                    *)

TaskSteps ==
  {"load", "idle", "saveUnmarked", "savePassword", "saveMarked", "dropPassword",
   "deletePassword", "deleteProfile", "duplicate"}

ProfilesTypeOK ==
  /\ list \in Seq(ConnectionProfile)
  /\ stored \in Seq(ConnectionProfile) \cup {NoProfile}
  /\ imported \in Seq(ConnectionProfile) \cup {NoProfile}
  /\ keychain \subseteq Ids /\ fetching \subseteq Ids /\ forgotten \subseteq Ids
  /\ form \in [id : Ids \cup {NoProfile}, typed : BOOLEAN, remember : BOOLEAN]
  /\ task \in [step : TaskSteps, profile : ConnectionProfile \cup {NoProfile},
               profiles : Seq(ConnectionProfile), captured : BOOLEAN]
  /\ task.step \notin {"load", "idle"} => task.profile \in ConnectionProfile

\* A list that will be written has the profile of the handler in front, where
\* the cap of the table leaves it.
SavesInFront ==
  task.step = "saveUnmarked" => task.profiles # <<>> /\ task.profiles[1].id = task.profile.id

\* The password is stored for a profile that is in the table, or fell out.
SavesForStored == task.step = "savePassword" => task.profile.id \in StoredIds \cup forgotten

\* The profile goes when its password is gone.
DeletesWithoutSecret == task.step = "deleteProfile" => task.profile.id \notin keychain

ProfilesInv ==
  ProfilesTypeOK /\ SavesInFront /\ SavesForStored /\ DeletesWithoutSecret /\ NoOrphanSecret

LEMMA NoList == NoProfile \notin Seq(ConnectionProfile)
BY ProfilesAssumption DEF ConnectionProfile

LEMMA ProfileLists ==
  ASSUME NEW profiles \in Seq(ConnectionProfile)
  PROVE  /\ IdsOf(profiles) \subseteq Ids /\ Entries(profiles) \subseteq ConnectionProfile
         /\ NormalizeConnectionProfiles(profiles) \in Seq(ConnectionProfile)
         /\ profiles # <<>> => profiles[1].id \in IdsOf(NormalizeConnectionProfiles(profiles))
<1> DEFINE kept == NormalizeConnectionProfiles(profiles)
<1>1. DOMAIN profiles = 1..Len(profiles) /\ \A i \in 1..Len(profiles) : profiles[i] \in ConnectionProfile OBVIOUS
<1>2. IdsOf(profiles) \subseteq Ids /\ Entries(profiles) \subseteq ConnectionProfile
  BY <1>1 DEF IdsOf, Entries, ConnectionProfile
<1>3. MaxProfiles \in Nat /\ MaxProfiles > 0 BY ProfilesAssumption
<1>4. kept \in Seq(ConnectionProfile) /\ (profiles # <<>> => kept # <<>> /\ kept[1] = profiles[1])
  BY <1>3, TakeProperties DEF NormalizeConnectionProfiles
<1> HIDE DEF kept
<1>5. ASSUME profiles # <<>> PROVE profiles[1].id \in IdsOf(kept)
  <2>1. 1 \in DOMAIN kept BY <1>4, <1>5, EmptySeq
  <2>2. QED BY <2>1, <1>4, <1>5 DEF IdsOf
<1>6. QED BY <1>2, <1>4, <1>5 DEF kept

LEMMA OthersType ==
  ASSUME ProfilesTypeOK, NEW id
  PROVE  Others(id) \in Seq(ConnectionProfile)
BY OnlyProperties DEF Others, ProfilesTypeOK

LEMMA SavedType ==
  ASSUME ProfilesTypeOK, NEW profile \in ConnectionProfile
  PROVE  Saved(profile) \in Seq(ConnectionProfile) /\ Saved(profile) # <<>> /\ Saved(profile)[1] = profile
<1>1. Others(profile.id) \in Seq(ConnectionProfile) BY OthersType
<1> DEFINE others == Others(profile.id)
<1>2. others \in Seq(ConnectionProfile) BY <1>1
<1> HIDE DEF others
<1>3. <<profile>> \o others \in Seq(ConnectionProfile) /\ Len(<<profile>> \o others) = 1 + Len(others)
      /\ (<<profile>> \o others)[1] = profile
  BY <1>2
<1>4. Len(others) \in Nat BY <1>2
<1>5. <<profile>> \o others # <<>> BY <1>3, <1>4
<1>6. QED BY <1>3, <1>5 DEF Saved, others

\* Writing the table: who leaves it is forgotten, unless he was deleted.
LEMMA WriteTableKeeps ==
  ASSUME ProfilesTypeOK, NoOrphanSecret, NEW profiles \in Seq(ConnectionProfile), NEW deleted,
         WriteTable(profiles, deleted), deleted \cap keychain = {}, keychain' = keychain
  PROVE  /\ stored' \in Seq(ConnectionProfile) /\ forgotten' \subseteq Ids /\ NoOrphanSecret'
         /\ profiles # <<>> => profiles[1].id \in StoredIds'
<1>1. stored' \in Seq(ConnectionProfile) /\ stored' # NoProfile
  BY ProfileLists, NoList DEF WriteTable
<1>2. StoredIds' = IdsOf(stored') BY <1>1 DEF StoredIds
<1>3. StoredIds \subseteq Ids BY ProfileLists DEF StoredIds, ProfilesTypeOK
<1>4. forgotten' = (forgotten \cup (StoredIds \ IdsOf(stored'))) \ (deleted \cup IdsOf(stored'))
  BY DEF WriteTable
<1>5. forgotten' \subseteq Ids BY <1>3, <1>4 DEF ProfilesTypeOK
<1>6. keychain' \subseteq StoredIds' \cup forgotten'
  <2>1. keychain \subseteq StoredIds \cup forgotten BY DEF NoOrphanSecret
  <2>2. QED BY <2>1, <1>2, <1>4
<1>7. profiles # <<>> => profiles[1].id \in StoredIds'
  BY <1>2, ProfileLists DEF WriteTable
<1>8. QED BY <1>1, <1>5, <1>6, <1>7 DEF NoOrphanSecret

LEMMA ProfilesInitInv == ProfilesInit => ProfilesInv
<1> SUFFICES ASSUME ProfilesInit PROVE ProfilesInv OBVIOUS
<1> USE DEF ProfilesInit, Idle
<1>1. task = [step |-> "load", profile |-> NoProfile, profiles |-> <<>>, captured |-> FALSE]
  OBVIOUS
<1>2. imported \in Seq(ConnectionProfile) \cup {NoProfile}
  <2>1. \A id \in Ids : [id |-> id, marked |-> FALSE] \in ConnectionProfile BY DEF ConnectionProfile
  <2>2. \A p \in ConnectionProfile : <<p>> \in Seq(ConnectionProfile) OBVIOUS
  <2>3. imported = NoProfile \/ \E id \in Ids : imported = <<[id |-> id, marked |-> FALSE]>> OBVIOUS
  <2>4. QED BY <2>1, <2>2, <2>3, Zenon
<1>3. <<>> \in Seq(ConnectionProfile) OBVIOUS
<1>4. ProfilesTypeOK BY <1>1, <1>2, <1>3 DEF ProfilesTypeOK, TaskSteps, NewProfile
<1>5. QED BY <1>1, <1>4 DEF ProfilesInv, SavesInFront, SavesForStored, DeletesWithoutSecret, NoOrphanSecret

\* The window ends, or a new one loads its profiles.
LEMMA LoadKeepsInv ==
  ASSUME ProfilesInv, ProfilesRestart \/ LoadStoredProfiles \/ LoadLegacyProfiles \/ LoadNoProfiles
  PROVE  ProfilesInv'
<1> USE DEF ProfilesInv
<1>1. <<>> \in Seq(ConnectionProfile) OBVIOUS
<1>2. CASE ProfilesRestart
  <2> USE <1>2 DEF ProfilesRestart
  <2>1. ProfilesTypeOK' BY <1>1 DEF ProfilesTypeOK, Idle, TaskSteps, NewProfile
  <2>2. QED
    BY <2>1 DEF SavesInFront, SavesForStored, DeletesWithoutSecret, NoOrphanSecret, Idle, StoredIds
<1>3. CASE LoadStoredProfiles
  <2> USE <1>3 DEF LoadStoredProfiles
  <2>1. ProfilesTypeOK' BY <1>1, ProfileLists DEF ProfilesTypeOK, Idle, TaskSteps
  <2>2. QED
    BY <2>1 DEF SavesInFront, SavesForStored, DeletesWithoutSecret, NoOrphanSecret, Idle, StoredIds
<1>4. CASE LoadNoProfiles
  <2> USE <1>4 DEF LoadNoProfiles
  <2>1. ProfilesTypeOK' BY <1>1 DEF ProfilesTypeOK, Idle, TaskSteps
  <2>2. QED
    BY <2>1 DEF SavesInFront, SavesForStored, DeletesWithoutSecret, NoOrphanSecret, Idle, StoredIds
<1>5. CASE LoadLegacyProfiles
  <2> USE <1>5 DEF LoadLegacyProfiles
  <2>1. list' \in Seq(ConnectionProfile) /\ stored' \in Seq(ConnectionProfile) /\ stored' # NoProfile
    BY ProfileLists, NoList DEF ProfilesTypeOK
  <2>2. StoredIds' = IdsOf(stored') BY <2>1 DEF StoredIds
  <2>3. StoredIds \subseteq Ids BY ProfileLists DEF StoredIds, ProfilesTypeOK
  <2>4. ProfilesTypeOK' BY <1>1, <2>1, <2>3 DEF ProfilesTypeOK, Idle, TaskSteps
  <2>5. NoOrphanSecret' BY <2>2 DEF NoOrphanSecret
  <2>6. QED BY <2>4, <2>5 DEF SavesInFront, SavesForStored, DeletesWithoutSecret, Idle
<1>6. QED BY <1>2, <1>3, <1>4, <1>5

\* A handler begins.
LEMMA BeginKeepsInv ==
  ASSUME ProfilesInv, BeginSave \/ \E id \in Ids : BeginDelete(id) \/ BeginDuplicate(id)
  PROVE  ProfilesInv'
<1> USE DEF ProfilesInv
<1>1. \A id \in Ids : [id |-> id, marked |-> FALSE] \in ConnectionProfile BY DEF ConnectionProfile
<1>2. CASE BeginSave
  <2>1. PICK id \in Ids :
          task' = [step |-> "saveUnmarked", profile |-> [id |-> id, marked |-> FALSE],
                   profiles |-> Saved([id |-> id, marked |-> FALSE]),
                   captured |-> form.remember /\ form.typed]
    BY <1>2 DEF BeginSave
  <2> DEFINE profile == [id |-> id, marked |-> FALSE]
             captured == form.remember /\ form.typed
  <2>2. profile \in ConnectionProfile BY <1>1
  <2>3. Saved(profile) \in Seq(ConnectionProfile) /\ Saved(profile) # <<>> /\ Saved(profile)[1] = profile
    BY <2>2, SavedType
  <2>4. captured \in BOOLEAN OBVIOUS
  <2>5. task' = [step |-> "saveUnmarked", profile |-> profile, profiles |-> Saved(profile), captured |-> captured]
    BY <2>1
  <2> HIDE DEF profile, captured
  <2>6. task' \in [step : TaskSteps, profile : ConnectionProfile \cup {NoProfile},
                   profiles : Seq(ConnectionProfile), captured : BOOLEAN]
    BY <2>2, <2>3, <2>4, <2>5 DEF TaskSteps
  <2>7. ProfilesTypeOK' BY <2>2, <2>5, <2>6, <1>2 DEF ProfilesTypeOK, BeginSave
  <2>8. SavesInFront' BY <2>3, <2>5 DEF SavesInFront
  <2>9. QED BY <2>5, <2>7, <2>8, <1>2
         DEF BeginSave, SavesForStored, DeletesWithoutSecret, NoOrphanSecret, StoredIds
<1>3. ASSUME NEW id \in Ids, BeginDelete(id) PROVE ProfilesInv'
  <2> USE <1>3 DEF BeginDelete
  <2> DEFINE captured == form.id = id
  <2>1. task' = [step |-> "deletePassword", profile |-> [id |-> id, marked |-> FALSE],
                 profiles |-> <<>>, captured |-> captured]
    BY DEF Idle
  <2>2. captured \in BOOLEAN OBVIOUS
  <2> HIDE DEF captured
  <2>3. ProfilesTypeOK' BY <1>1, <2>1, <2>2 DEF ProfilesTypeOK, TaskSteps
  <2>4. QED BY <2>1, <2>3
         DEF SavesInFront, SavesForStored, DeletesWithoutSecret, NoOrphanSecret, StoredIds
<1>4. ASSUME NEW id \in Ids, BeginDuplicate(id) PROVE ProfilesInv'
  <2> USE <1>4 DEF BeginDuplicate
  <2>1. PICK copy \in Ids :
          task' = [Idle EXCEPT !.step = "duplicate", !.profile = [id |-> copy, marked |-> FALSE],
                               !.profiles = Saved([id |-> copy, marked |-> FALSE])]
    OBVIOUS
  <2>2. Saved([id |-> copy, marked |-> FALSE]) \in Seq(ConnectionProfile) BY <1>1, SavedType
  <2>3. task' = [step |-> "duplicate", profile |-> [id |-> copy, marked |-> FALSE],
                 profiles |-> Saved([id |-> copy, marked |-> FALSE]), captured |-> FALSE]
    BY <2>1 DEF Idle
  <2>4. ProfilesTypeOK' BY <1>1, <2>2, <2>3 DEF ProfilesTypeOK, TaskSteps
  <2>5. QED BY <2>3, <2>4
         DEF SavesInFront, SavesForStored, DeletesWithoutSecret, NoOrphanSecret, StoredIds
<1>5. QED BY <1>2, <1>3, <1>4

\* The password goes to the keychain once the profile is in the table, and
\* leaves it before the profile does.
LEMMA SecretKeepsInv ==
  ASSUME ProfilesInv, SavePassword \/ DropPassword \/ DeletePassword
  PROVE  ProfilesInv'
<1> USE DEF ProfilesInv
<1>0. task.profile \in ConnectionProfile
  BY DEF ProfilesTypeOK, SavePassword, DropPassword, DeletePassword
<1>1. CASE SavePassword
  <2> DEFINE marked == [task.profile EXCEPT !.marked = TRUE]
  <2>1. marked \in ConnectionProfile /\ marked.id = task.profile.id BY <1>0 DEF ConnectionProfile
  <2>2. Saved(marked) \in Seq(ConnectionProfile) BY <2>1, SavedType
  <2>3. task' = [task EXCEPT !.step = "saveMarked", !.profile = marked, !.profiles = Saved(marked)]
    BY <1>1, <1>0 DEF SavePassword, ProfilesTypeOK, ConnectionProfile
  <2> HIDE DEF marked
  <2>4. /\ task' \in [step : TaskSteps, profile : ConnectionProfile \cup {NoProfile},
                       profiles : Seq(ConnectionProfile), captured : BOOLEAN]
        /\ task'.step = "saveMarked" /\ task'.profile = marked
    BY <2>1, <2>2, <2>3 DEF ProfilesTypeOK, TaskSteps
  <2>5. task.profile.id \in Ids BY <1>0 DEF ConnectionProfile
  <2>6. ProfilesTypeOK' BY <2>1, <2>4, <2>5, <1>1 DEF ProfilesTypeOK, SavePassword
  <2>7. NoOrphanSecret' BY <1>1 DEF SavePassword, NoOrphanSecret, SavesForStored, StoredIds
  <2>8. QED BY <2>4, <2>6, <2>7 DEF SavesInFront, SavesForStored, DeletesWithoutSecret
<1>2. CASE DropPassword
  <2> USE <1>2 DEF DropPassword
  <2>1. task' = Idle /\ Idle.step = "idle" /\ Idle.profile = NoProfile /\ <<>> \in Seq(ConnectionProfile)
    BY DEF Idle
  <2>2. task.profile.id \in Ids BY <1>0 DEF ConnectionProfile
  <2>3. ProfilesTypeOK' BY <2>1, <2>2 DEF ProfilesTypeOK, TaskSteps, Idle
  <2>4. QED BY <2>1, <2>3
         DEF SavesInFront, SavesForStored, DeletesWithoutSecret, NoOrphanSecret, StoredIds
<1>3. CASE DeletePassword
  <2> USE <1>3 DEF DeletePassword
  <2>1. Others(task.profile.id) \in Seq(ConnectionProfile) BY OthersType
  <2>2. /\ task' \in [step : TaskSteps, profile : ConnectionProfile \cup {NoProfile},
                       profiles : Seq(ConnectionProfile), captured : BOOLEAN]
        /\ task'.step = "deleteProfile" /\ task'.profile = task.profile
    BY <2>1 DEF ProfilesTypeOK, TaskSteps
  <2>3. ProfilesTypeOK' BY <1>0, <2>2 DEF ProfilesTypeOK
  <2>4. QED BY <2>2, <2>3
         DEF SavesInFront, SavesForStored, DeletesWithoutSecret, NoOrphanSecret, StoredIds
<1>4. QED BY <1>1, <1>2, <1>3

\* The table is written.
LEMMA TableKeepsInv ==
  ASSUME ProfilesInv, SaveUnmarked \/ SaveMarked \/ Duplicate \/ DeleteProfile
  PROVE  ProfilesInv'
<1> USE DEF ProfilesInv
<1>0. task.profile \in ConnectionProfile /\ task.profile.id \in Ids /\ task.profiles \in Seq(ConnectionProfile)
  BY DEF ProfilesTypeOK, SaveUnmarked, SaveMarked, Duplicate, DeleteProfile, ConnectionProfile
<1>1. <<>> \in Seq(ConnectionProfile) OBVIOUS
<1>2. CASE SaveUnmarked
  <2> USE <1>2 DEF SaveUnmarked
  <2>1. /\ stored' \in Seq(ConnectionProfile) /\ forgotten' \subseteq Ids /\ NoOrphanSecret'
        /\ task.profiles # <<>> => task.profiles[1].id \in StoredIds'
    BY <1>0, WriteTableKeeps
  <2>2. /\ task' \in [step : TaskSteps, profile : ConnectionProfile \cup {NoProfile},
                       profiles : Seq(ConnectionProfile), captured : BOOLEAN]
        /\ task'.step \in {"savePassword", "dropPassword"} /\ task'.profile = task.profile
    BY DEF ProfilesTypeOK, TaskSteps
  <2>3. ProfilesTypeOK' BY <1>0, <2>1, <2>2 DEF ProfilesTypeOK
  <2>4. SavesForStored' BY <2>1, <2>2 DEF SavesInFront, SavesForStored
  <2>5. QED BY <2>1, <2>2, <2>3, <2>4 DEF SavesInFront, DeletesWithoutSecret
<1>3. CASE SaveMarked \/ Duplicate
  <2> USE <1>3 DEF SaveMarked, Duplicate
  <2>1. stored' \in Seq(ConnectionProfile) /\ forgotten' \subseteq Ids /\ NoOrphanSecret'
    BY <1>0, WriteTableKeeps
  <2>2. form' \in [id : Ids \cup {NoProfile}, typed : BOOLEAN, remember : BOOLEAN]
    <3>1. CASE SaveMarked BY <3>1, <1>0 DEF ProfilesTypeOK
    <3>2. CASE Duplicate BY <3>2, <1>0
    <3>3. QED BY <3>1, <3>2
  <2>3. /\ list' \in Seq(ConnectionProfile) /\ task' = Idle
        /\ UNCHANGED <<imported, keychain, fetching>>
    BY <1>0
  <2>4. ProfilesTypeOK' BY <1>1, <2>1, <2>2, <2>3 DEF ProfilesTypeOK, TaskSteps, Idle
  <2>5. QED BY <2>1, <2>3, <2>4 DEF SavesInFront, SavesForStored, DeletesWithoutSecret, Idle
<1>4. CASE DeleteProfile
  <2> USE <1>4 DEF DeleteProfile
  <2>1. {task.profile.id} \cap keychain = {} BY DEF DeletesWithoutSecret
  <2>2. stored' \in Seq(ConnectionProfile) /\ forgotten' \subseteq Ids /\ NoOrphanSecret'
    BY <1>0, <2>1, WriteTableKeeps
  <2>3. ProfilesTypeOK' BY <1>0, <1>1, <2>2 DEF ProfilesTypeOK, TaskSteps, Idle, NewProfile
  <2>4. QED BY <2>2, <2>3 DEF SavesInFront, SavesForStored, DeletesWithoutSecret, Idle
<1>5. QED BY <1>2, <1>3, <1>4

\* The handler stops, or the user works in the dialog.
LEMMA DialogKeepsInv ==
  ASSUME ProfilesInv,
         \/ FailTask \/ StartNewProfile \/ \E remember \in BOOLEAN : TypePassword(remember)
         \/ \E id \in Ids : PasswordArrives(id)
         \/ \E i \in DOMAIN list : ApplyProfile(list[i])
  PROVE  ProfilesInv'
<1> USE DEF ProfilesInv
<1> DEFINE Forms == [id : Ids \cup {NoProfile}, typed : BOOLEAN, remember : BOOLEAN]
<1>0. form \in Forms BY DEF ProfilesTypeOK
<1>1. CASE FailTask
  <2> USE <1>1 DEF FailTask
  <2>1. <<>> \in Seq(ConnectionProfile) OBVIOUS
  <2>2. ProfilesTypeOK' BY <2>1 DEF ProfilesTypeOK, TaskSteps, Idle
  <2>3. QED BY <2>2
         DEF SavesInFront, SavesForStored, DeletesWithoutSecret, NoOrphanSecret, StoredIds, Idle
<1>2. ASSUME form' \in Forms, fetching' \subseteq Ids,
             UNCHANGED <<list, stored, imported, keychain, task, forgotten>>
      PROVE  ProfilesInv'
  <2>1. ProfilesTypeOK' BY <1>2 DEF ProfilesTypeOK
  <2>2. QED BY <2>1, <1>2
         DEF SavesInFront, SavesForStored, DeletesWithoutSecret, NoOrphanSecret, StoredIds
<1>3. CASE StartNewProfile
  BY <1>2, <1>3 DEF StartNewProfile, NewProfile, ProfilesTypeOK
<1>4. ASSUME NEW remember \in BOOLEAN, TypePassword(remember) PROVE ProfilesInv'
  <2>1. form' \in Forms BY <1>0, <1>4 DEF TypePassword
  <2>2. QED BY <1>2, <1>4, <2>1 DEF TypePassword, ProfilesTypeOK
<1>5. ASSUME NEW id \in Ids, PasswordArrives(id) PROVE ProfilesInv'
  <2> DEFINE typed == id \in keychain
  <2>1. typed \in BOOLEAN /\ form' = [form EXCEPT !.typed = typed] BY <1>5 DEF PasswordArrives
  <2> HIDE DEF typed
  <2>2. form' \in Forms BY <1>0, <2>1
  <2>3. QED BY <1>2, <1>5, <2>2 DEF PasswordArrives, ProfilesTypeOK
<1>6. ASSUME NEW i \in DOMAIN list, ApplyProfile(list[i]) PROVE ProfilesInv'
  <2>1. list[i] \in ConnectionProfile BY DEF ProfilesTypeOK
  <2>2. list[i].id \in Ids /\ list[i].marked \in BOOLEAN BY <2>1 DEF ConnectionProfile
  <2>3. form' \in Forms BY <1>6, <2>2 DEF ApplyProfile
  <2>4. fetching' \subseteq Ids BY <1>6, <2>2 DEF ApplyProfile, ProfilesTypeOK
  <2>5. QED BY <1>2, <1>6, <2>3, <2>4 DEF ApplyProfile
<1>7. QED BY <1>1, <1>3, <1>4, <1>5, <1>6

THEOREM ProfilesInvHolds == ProfilesSpec => []ProfilesInv
<1>1. ProfilesInv /\ [ProfilesNext]_profileVars => ProfilesInv'
  <2> SUFFICES ASSUME ProfilesInv, [ProfilesNext]_profileVars PROVE ProfilesInv' OBVIOUS
  <2>1. CASE UNCHANGED profileVars
    BY <2>1 DEF profileVars, ProfilesInv, ProfilesTypeOK, SavesInFront, SavesForStored,
                DeletesWithoutSecret, NoOrphanSecret, StoredIds
  <2>2. CASE ProfilesNext
    BY <2>2, LoadKeepsInv, BeginKeepsInv, SecretKeepsInv, TableKeepsInv, DialogKeepsInv DEF ProfilesNext
  <2>3. QED BY <2>1, <2>2
<1>2. QED BY ProfilesInitInv, <1>1, PTL DEF ProfilesSpec

\* For any number of profiles and any cap of the table, wherever a handler is
\* interrupted: the keychain holds no password of a profile that was deleted or
\* never saved (App.tsx, handleSaveProfile and onDeleteProfile).
THEOREM NoOrphanSecretHolds == ProfilesSpec => []NoOrphanSecret
<1>1. ProfilesInv => NoOrphanSecret BY DEF ProfilesInv
<1>2. QED BY ProfilesInvHolds, <1>1, PTL

-----------------------------------------------------------------------------
(* The workspace.                                                          *)

IdsDistinct(tabs) == \A i, j \in DOMAIN tabs : tabs[i].id = tabs[j].id => i = j
GoodTabs(tabs) == tabs \in Seq(QueryTab) /\ IdsDistinct(tabs)

\* What may be written: lists without repetition, no audit without retention.
Storable(s) ==
  /\ GoodTabs(s.tabs)
  /\ s.history \in Seq(Texts) /\ Distinct(s.history)
  /\ s.favorites \in Seq(Texts) /\ Distinct(s.favorites)
  /\ s.migrations \in Seq(MigrationHistoryEntry)
  /\ s.audit \in Seq(BOOLEAN) /\ s.days \in {0, 1, 7, 30} /\ (s.days = 0 => s.audit = <<>>)

\* What a window may show: the active tab is an open one.
Coherent(s) ==
  s \in WorkspaceSnapshot /\ Storable(s) /\ s.tabs # <<>> /\ s.active \in Open(s.tabs)

\* What the database may hold: writing and reading it again changes nothing.
Normal(s) ==
  /\ Coherent(s)
  /\ Len(s.tabs) <= TabCap /\ Len(s.history) <= HistoryCap /\ Len(s.favorites) <= FavoriteCap
  /\ Len(s.migrations) <= MigrationCap /\ Len(s.audit) <= AuditCap
  /\ \A m \in Entries(s.migrations) : m.known
  /\ Entries(s.audit) \subseteq {TRUE}

GoodMirror(m) ==
  m \in MirrorSnapshot /\ GoodTabs(m.tabs) /\ Distinct(m.history) /\ Distinct(m.favorites)

StoredOK ==
  /\ disk = None \/ Normal(disk)
  /\ legacy = None \/ Coherent(legacy)
  /\ saves \in Seq({s \in WorkspaceSnapshot : Normal(s)})
  /\ local = None \/ GoodMirror(local)

\* What the window shows, and what the load falls back to.
ShownOK ==
  /\ Coherent(ws) /\ sql = ShowActive(ws)
  /\ phase \in {"starting", "loading", "loaded"} /\ strayed \in BOOLEAN
  /\ GoodTabs(fallback) /\ (phase = "loading" => fallback # <<>>)

\* As long as no tabs are in the mirror, the window has no more than it was
\* given: they fit the database without a cut.
FallbackFits ==
  local = None \/ local.tabs = <<>> => Len(ws.tabs) <= TabCap /\ Len(fallback) <= TabCap

\* The newest autosave in flight, or the database, holds what is shown.
LastSaveIsCurrent ==
  ~strayed =>
    IF phase # "loaded" THEN saves = <<>>
    ELSE IF saves = <<>> THEN disk = None \/ disk = NormalizeSnapshot(ws, ws)
    ELSE saves[Len(saves)] = NormalizeSnapshot(ws, ws)

WorkspaceInv == StoredOK /\ ShownOK /\ FallbackFits /\ LastSaveIsCurrent

LEMMA Caps ==
  /\ TabCap \in Nat \ {0} /\ HistoryCap \in Nat \ {0} /\ FavoriteCap \in Nat \ {0}
  /\ MigrationCap \in Nat \ {0} /\ AuditCap \in Nat \ {0}
BY WorkspaceAssumption

-----------------------------------------------------------------------------
(* Tabs.                                                                   *)

LEMMA TabFields ==
  ASSUME NEW tabs \in Seq(QueryTab)
  PROVE  /\ DOMAIN tabs = 1..Len(tabs) /\ Len(tabs) \in Nat
         /\ \A i \in DOMAIN tabs : tabs[i] \in QueryTab /\ tabs[i].id \in TabIds /\ tabs[i].sql \in Texts
         /\ Open(tabs) \subseteq TabIds /\ Entries(tabs) \subseteq QueryTab
         /\ tabs # <<>> => 1 \in DOMAIN tabs /\ tabs[1].id \in Open(tabs)
<1>1. DOMAIN tabs = 1..Len(tabs) /\ Len(tabs) \in Nat OBVIOUS
<1>2. \A i \in DOMAIN tabs : tabs[i] \in QueryTab OBVIOUS
<1>3. \A i \in DOMAIN tabs : tabs[i].id \in TabIds /\ tabs[i].sql \in Texts BY <1>2 DEF QueryTab
<1>4. Open(tabs) \subseteq TabIds BY <1>3 DEF Open
<1>5. Entries(tabs) \subseteq QueryTab BY <1>2 DEF Entries
<1>6. tabs # <<>> => 1 \in DOMAIN tabs BY <1>1, EmptySeq
<1>7. QED BY <1>1, <1>2, <1>3, <1>4, <1>5, <1>6 DEF Open

\* Some of the tabs, none of them twice.
LEMMA SomeTabs ==
  ASSUME NEW tabs, GoodTabs(tabs), NEW part \in Seq(QueryTab),
         Entries(part) \subseteq Entries(tabs), Distinct(tabs) => Distinct(part)
  PROVE  GoodTabs(part)
<1>1. \A i, j \in DOMAIN tabs : tabs[i].id = tabs[j].id => i = j BY DEF GoodTabs, IdsDistinct
<1>2. Distinct(tabs) BY <1>1 DEF Distinct
<1>3. Distinct(part) BY <1>2
<1>4. ASSUME NEW i \in DOMAIN part, NEW j \in DOMAIN part, part[i].id = part[j].id PROVE i = j
  <2>1. PICK k \in DOMAIN tabs : tabs[k] = part[i] BY DEF Entries
  <2>2. PICK l \in DOMAIN tabs : tabs[l] = part[j] BY DEF Entries
  <2>3. k = l BY <1>1, <1>4, <2>1, <2>2
  <2>4. part[i] = part[j] BY <2>1, <2>2, <2>3
  <2>5. QED BY <1>3, <2>4 DEF Distinct
<1>5. QED BY <1>4 DEF GoodTabs, IdsDistinct

LEMMA TabsTake ==
  ASSUME NEW tabs, GoodTabs(tabs), NEW n \in Nat \ {0}
  PROVE  /\ GoodTabs(Take(tabs, n)) /\ Len(Take(tabs, n)) <= n
         /\ tabs # <<>> => Take(tabs, n) # <<>>
         /\ Len(tabs) <= n => Take(tabs, n) = tabs
<1> DEFINE part == Take(tabs, n)
<1>1. tabs \in Seq(QueryTab) /\ n \in Nat /\ n > 0 BY DEF GoodTabs
<1>2. /\ part \in Seq(QueryTab) /\ Len(part) <= n
      /\ tabs # <<>> => part # <<>>
      /\ Entries(part) \subseteq Entries(tabs) /\ (Distinct(tabs) => Distinct(part))
      /\ Len(tabs) <= n => part = tabs
  BY <1>1, TakeProperties
<1> HIDE DEF part
<1>3. GoodTabs(part) BY <1>2, SomeTabs
<1>4. QED BY <1>2, <1>3 DEF part

LEMMA TabsOnly ==
  ASSUME NEW tabs, GoodTabs(tabs), NEW set
  PROVE  GoodTabs(Only(tabs, set)) /\ Entries(Only(tabs, set)) = Entries(tabs) \cap set
<1>1. tabs \in Seq(QueryTab) BY DEF GoodTabs
<1>2. /\ Only(tabs, set) \in Seq(QueryTab) /\ Entries(Only(tabs, set)) = Entries(tabs) \cap set
      /\ Distinct(tabs) => Distinct(Only(tabs, set))
  BY <1>1, OnlyProperties
<1>3. QED BY <1>2, SomeTabs

\* An open tab is found where it is.
LEMMA TabFound ==
  ASSUME NEW tabs, GoodTabs(tabs)
  PROVE  /\ \A id \in Open(tabs) : TabOf(tabs, id) \in DOMAIN tabs /\ tabs[TabOf(tabs, id)].id = id
         /\ \A i \in DOMAIN tabs : TabOf(tabs, tabs[i].id) = i
<1>1. ASSUME NEW id \in Open(tabs)
      PROVE  TabOf(tabs, id) \in DOMAIN tabs /\ tabs[TabOf(tabs, id)].id = id
  <2>1. \E i \in DOMAIN tabs : tabs[i].id = id BY DEF Open
  <2>2. QED BY <2>1 DEF TabOf
<1>2. ASSUME NEW i \in DOMAIN tabs PROVE TabOf(tabs, tabs[i].id) = i
  <2>1. tabs[i].id \in Open(tabs) BY DEF Open
  <2>2. QED BY <1>1, <2>1 DEF GoodTabs, IdsDistinct
<1>3. QED BY <1>1, <1>2

\* As many tabs as identities.
LEMMA OpenCardinality ==
  ASSUME NEW tabs, GoodTabs(tabs)
  PROVE  Cardinality(Open(tabs)) = Len(tabs) /\ IsFiniteSet(Open(tabs))
<1> DEFINE ids == [i \in 1..Len(tabs) |-> tabs[i].id]
<1>1. tabs \in Seq(QueryTab) BY DEF GoodTabs
<1>2. DOMAIN tabs = 1..Len(tabs) /\ Len(tabs) \in Nat /\ \A i \in DOMAIN tabs : tabs[i].id \in TabIds
  BY <1>1, TabFields
<1>3. ids \in Seq(TabIds) /\ Len(ids) = Len(tabs) /\ DOMAIN ids = 1..Len(tabs) BY <1>2
<1>4. Entries(ids) = Open(tabs) BY <1>2, <1>3 DEF Entries, Open
<1>5. Distinct(ids) BY <1>2, <1>3 DEF Distinct, GoodTabs, IdsDistinct
<1> HIDE DEF ids
<1>6. QED BY <1>3, <1>4, <1>5, DistinctCardinality

-----------------------------------------------------------------------------
(* normalizeSnapshot.                                                      *)

LEMMA NormalizeActiveOpen ==
  ASSUME NEW tabs \in Seq(QueryTab), tabs # <<>>, NEW id
  PROVE  /\ NormalizeActive(tabs, id) \in Open(tabs) /\ NormalizeActive(tabs, id) \in TabIds
         /\ id \in Open(tabs) => NormalizeActive(tabs, id) = id
BY TabFields DEF NormalizeActive

\* The migrations that are kept.
LEMMA MigrationsNormal ==
  ASSUME NEW migrations \in Seq(MigrationHistoryEntry)
  PROVE  /\ NormalizeMigrations(migrations) \in Seq(MigrationHistoryEntry)
         /\ Len(NormalizeMigrations(migrations)) <= MigrationCap
         /\ \A m \in Entries(NormalizeMigrations(migrations)) : m.known
         /\ Len(migrations) <= MigrationCap /\ (\A m \in Entries(migrations) : m.known)
              => NormalizeMigrations(migrations) = migrations
<1> DEFINE set == {m \in Entries(migrations) : m.known}
           kept == Only(migrations, set)
<1>1. /\ kept \in Seq(MigrationHistoryEntry) /\ Entries(kept) = Entries(migrations) \cap set
      /\ Entries(migrations) \subseteq set => kept = migrations
  BY OnlyProperties
<1>2. \A m \in set : m.known OBVIOUS
<1>3. (\A m \in Entries(migrations) : m.known) => Entries(migrations) \subseteq set OBVIOUS
<1>4. NormalizeMigrations(migrations) = Take(kept, MigrationCap) BY DEF NormalizeMigrations
<1> HIDE DEF set, kept
<1>5. MigrationCap \in Nat BY Caps
<1>6. /\ Take(kept, MigrationCap) \in Seq(MigrationHistoryEntry) /\ Len(Take(kept, MigrationCap)) <= MigrationCap
      /\ Entries(Take(kept, MigrationCap)) \subseteq Entries(kept)
      /\ Len(kept) <= MigrationCap => Take(kept, MigrationCap) = kept
  BY <1>1, <1>5, TakeProperties
<1>7. QED BY <1>1, <1>2, <1>3, <1>4, <1>6

\* The observations that are kept.
LEMMA AuditNormal ==
  ASSUME NEW audit \in Seq(BOOLEAN)
  PROVE  /\ NormalizeAudit(audit) \in Seq(BOOLEAN) /\ Len(NormalizeAudit(audit)) <= AuditCap
         /\ Entries(NormalizeAudit(audit)) \subseteq {TRUE}
         /\ Len(audit) <= AuditCap /\ Entries(audit) \subseteq {TRUE} => NormalizeAudit(audit) = audit
         /\ audit = <<>> => NormalizeAudit(audit) = <<>>
<1> DEFINE kept == Only(audit, {TRUE})
<1>1. /\ kept \in Seq(BOOLEAN) /\ Entries(kept) \subseteq {TRUE}
      /\ Entries(audit) \subseteq {TRUE} => kept = audit
  <2> DEFINE B == BOOLEAN
             true == {TRUE}
  <2>1. audit \in Seq(B) OBVIOUS
  <2> HIDE DEF B, true
  <2>2. /\ Only(audit, true) \in Seq(B) /\ Entries(Only(audit, true)) = Entries(audit) \cap true
        /\ Entries(audit) \subseteq true => Only(audit, true) = audit
    BY <2>1, OnlyProperties
  <2>3. Entries(Only(audit, true)) \subseteq true BY <2>2
  <2>4. QED BY <2>2, <2>3 DEF B, true
<1>2. NormalizeAudit(audit) = Take(kept, AuditCap) BY DEF NormalizeAudit
<1> HIDE DEF kept
<1>3. AuditCap \in Nat BY Caps
<1>4. /\ Take(kept, AuditCap) \in Seq(BOOLEAN) /\ Len(Take(kept, AuditCap)) <= AuditCap
      /\ Entries(Take(kept, AuditCap)) \subseteq Entries(kept)
      /\ Len(kept) <= AuditCap => Take(kept, AuditCap) = kept
  BY <1>1, <1>3, TakeProperties
<1>5. Len(audit) <= AuditCap /\ Entries(audit) \subseteq {TRUE} => NormalizeAudit(audit) = audit
  BY <1>1, <1>2, <1>4
<1>6. audit = <<>> => Len(audit) <= AuditCap /\ Entries(audit) = {} BY <1>3 DEF Entries
<1>7. QED BY <1>1, <1>2, <1>4, <1>5, <1>6

\* A list of texts is cut.
LEMMA TextsNormal ==
  ASSUME NEW texts \in Seq(Texts), NEW cap \in Nat \ {0}
  PROVE  /\ Take(texts, cap) \in Seq(Texts) /\ Len(Take(texts, cap)) <= cap
         /\ Distinct(texts) => Distinct(Take(texts, cap))
         /\ Len(texts) <= cap => Take(texts, cap) = texts
BY TakeProperties

\* What is written is normal, whatever the window or a file holds.
LEMMA NormalizeIsNormal ==
  ASSUME NEW s, Storable(s), NEW other, GoodTabs(other.tabs), other.tabs # <<>>,
         s.tabs = <<>> => Len(other.tabs) <= TabCap
  PROVE  Normal(NormalizeSnapshot(s, other))
<1> DEFINE tabs == NormalizeTabs(s.tabs, other.tabs)
           active == NormalizeActive(tabs, s.active)
           history == NormalizeHistory(s.history)
           favorites == NormalizeFavorites(s.favorites)
           migrations == NormalizeMigrations(s.migrations)
           audit == NormalizeAudit(s.audit)
           days == NormalizeDays(s.days)
           n == NormalizeSnapshot(s, other)
<1>1. n = [tabs |-> tabs, active |-> active, history |-> history, favorites |-> favorites,
           migrations |-> migrations, audit |-> audit, days |-> days]
  BY DEF NormalizeSnapshot
<1>2. GoodTabs(tabs) /\ tabs # <<>> /\ Len(tabs) <= TabCap
  BY TabsTake, Caps DEF NormalizeTabs, Storable
<1>3. tabs \in Seq(QueryTab) BY <1>2 DEF GoodTabs
<1>4. active \in Open(tabs) /\ active \in TabIds BY <1>2, <1>3, NormalizeActiveOpen
<1>5. history \in Seq(Texts) /\ Distinct(history) /\ Len(history) <= HistoryCap
  BY TextsNormal, Caps DEF NormalizeHistory, Storable
<1>6. favorites \in Seq(Texts) /\ Distinct(favorites) /\ Len(favorites) <= FavoriteCap
  BY TextsNormal, Caps DEF NormalizeFavorites, Storable
<1>7. /\ migrations \in Seq(MigrationHistoryEntry) /\ Len(migrations) <= MigrationCap
      /\ \A m \in Entries(migrations) : m.known
  BY MigrationsNormal DEF Storable
<1>8. /\ audit \in Seq(BOOLEAN) /\ Len(audit) <= AuditCap /\ Entries(audit) \subseteq {TRUE}
      /\ s.audit = <<>> => audit = <<>>
  BY AuditNormal DEF Storable
<1>9. days \in {0, 1, 7, 30} /\ days = s.days BY DEF NormalizeDays, Storable
<1>10. days = 0 => audit = <<>> BY <1>8, <1>9 DEF Storable
<1> HIDE DEF tabs, active, history, favorites, migrations, audit, days, n
<1>11. /\ n.tabs = tabs /\ n.active = active /\ n.history = history /\ n.favorites = favorites
       /\ n.migrations = migrations /\ n.audit = audit /\ n.days = days
       /\ n \in WorkspaceSnapshot
  BY <1>1, <1>3, <1>4, <1>5, <1>6, <1>7, <1>8, <1>9 DEF WorkspaceSnapshot
<1>12. Storable(n) BY <1>2, <1>5, <1>6, <1>7, <1>8, <1>9, <1>10, <1>11 DEF Storable
<1>13. Coherent(n) BY <1>2, <1>4, <1>11, <1>12 DEF Coherent
<1>14. QED BY <1>2, <1>5, <1>6, <1>7, <1>8, <1>11, <1>13 DEF Normal, n

\* Reading it back and writing it again changes nothing.
LEMMA NormalIsFixed ==
  ASSUME NEW s, Normal(s), NEW other
  PROVE  NormalizeSnapshot(s, other) = s
<1>1. s \in WorkspaceSnapshot /\ Storable(s) /\ s.tabs # <<>> /\ s.active \in Open(s.tabs)
  BY DEF Normal, Coherent
<1>2. NormalizeTabs(s.tabs, other.tabs) = s.tabs
  BY <1>1, TabsTake, Caps DEF NormalizeTabs, Normal, Storable
<1>3. NormalizeActive(s.tabs, s.active) = s.active BY <1>1 DEF NormalizeActive
<1>4. NormalizeHistory(s.history) = s.history /\ NormalizeFavorites(s.favorites) = s.favorites
  BY <1>1, TextsNormal, Caps DEF NormalizeHistory, NormalizeFavorites, Normal, Storable
<1>5. NormalizeMigrations(s.migrations) = s.migrations BY <1>1, MigrationsNormal DEF Normal, Storable
<1>6. NormalizeAudit(s.audit) = s.audit BY <1>1, AuditNormal DEF Normal, Storable
<1>7. NormalizeDays(s.days) = s.days BY <1>1 DEF NormalizeDays, Storable
<1>8. NormalizeSnapshot(s, other) =
        [tabs |-> s.tabs, active |-> s.active, history |-> s.history, favorites |-> s.favorites,
         migrations |-> s.migrations, audit |-> s.audit, days |-> s.days]
  BY <1>2, <1>3, <1>4, <1>5, <1>6, <1>7 DEF NormalizeSnapshot
<1>9. QED BY <1>1, <1>8 DEF WorkspaceSnapshot

-----------------------------------------------------------------------------
(* Handlers of the store.                                                  *)

NormalSnapshot == {s \in WorkspaceSnapshot : Normal(s)}

LEMMA MirrorGood == ASSUME StoredOK PROVE GoodMirror(Mirror)
<1>1. CASE local = None
  <2>1. Mirror = Blank BY <1>1 DEF Mirror
  <2>2. /\ <<>> \in Seq(QueryTab) /\ <<>> \in Seq(Texts) /\ <<>> \in Seq(MigrationHistoryEntry)
        /\ DOMAIN <<>> = {}
    OBVIOUS
  <2>3. Blank \in MirrorSnapshot BY <2>2 DEF Blank, MirrorSnapshot
  <2>4. Blank.tabs = <<>> /\ Blank.history = <<>> /\ Blank.favorites = <<>> BY DEF Blank
  <2>5. QED BY <2>1, <2>2, <2>3, <2>4 DEF GoodMirror, GoodTabs, IdsDistinct, Distinct
<1>2. CASE local # None BY <1>2 DEF Mirror, StoredOK
<1>3. QED BY <1>1, <1>2

LEMMA MirrorFields ==
  ASSUME NEW m, GoodMirror(m)
  PROVE  /\ m.tabs \in Seq(QueryTab) /\ m.active \in TabIds \cup {None} /\ m.history \in Seq(Texts)
         /\ m.favorites \in Seq(Texts) /\ m.migrations \in Seq(MigrationHistoryEntry)
         /\ m = [tabs |-> m.tabs, active |-> m.active, history |-> m.history, favorites |-> m.favorites,
                 migrations |-> m.migrations]
         /\ m # None
BY WorkspaceAssumption DEF GoodMirror, MirrorSnapshot

LEMMA CoherentFields ==
  ASSUME NEW s, Coherent(s)
  PROVE  /\ s.tabs \in Seq(QueryTab) /\ s.active \in TabIds /\ s.history \in Seq(Texts)
         /\ s.favorites \in Seq(Texts) /\ s.migrations \in Seq(MigrationHistoryEntry)
         /\ s.audit \in Seq(BOOLEAN) /\ s.days \in {0, 1, 7, 30}
         /\ s = [tabs |-> s.tabs, active |-> s.active, history |-> s.history, favorites |-> s.favorites,
                 migrations |-> s.migrations, audit |-> s.audit, days |-> s.days]
BY DEF Coherent, WorkspaceSnapshot

\* The snapshot of a coherent workspace is normal.
LEMMA SnapshotNormal ==
  ASSUME NEW s, Coherent(s)
  PROVE  NormalizeSnapshot(s, s) \in NormalSnapshot
<1>1. Normal(NormalizeSnapshot(s, s)) BY NormalizeIsNormal DEF Coherent, Storable
<1>2. QED BY <1>1 DEF NormalSnapshot, Normal, Coherent

\* A handler that shows a coherent workspace and sends it keeps the invariant.
LEMMA PersistKeepsInv ==
  ASSUME WorkspaceInv, NEW next, Coherent(next), ws' = next, Persist(next), sql' = ShowActive(next),
         local' = None \/ GoodMirror(local'), FallbackFits',
         UNCHANGED <<disk, legacy, phase, fallback>>
  PROVE  WorkspaceInv'
<1> DEFINE sent == NormalizeSnapshot(next, next)
<1>1. sent \in NormalSnapshot BY SnapshotNormal
<1>2. saves' = Append(saves, sent) /\ strayed' = (strayed \/ phase # "loaded") BY DEF Persist
<1>3. saves \in Seq(NormalSnapshot) BY DEF WorkspaceInv, StoredOK, NormalSnapshot
<1>4. sent = NormalizeSnapshot(ws', ws') OBVIOUS
<1> HIDE DEF sent
<1>5. saves' \in Seq(NormalSnapshot) /\ saves' # <<>> /\ saves'[Len(saves')] = sent
  BY <1>1, <1>2, <1>3
<1>6. StoredOK' BY <1>5 DEF WorkspaceInv, StoredOK, NormalSnapshot
<1>7. ShownOK' BY <1>2 DEF WorkspaceInv, ShownOK
<1>8. LastSaveIsCurrent' BY <1>2, <1>4, <1>5 DEF LastSaveIsCurrent
<1>9. QED BY <1>6, <1>7, <1>8 DEF WorkspaceInv

\* A handler that changes the tabs.
LEMMA ChangeTabsKeepsInv ==
  ASSUME WorkspaceInv, NEW tabs, GoodTabs(tabs), tabs # <<>>, NEW active \in Open(tabs),
         ChangeTabs(tabs, active), sql' = tabs[TabOf(tabs, active)].sql
  PROVE  WorkspaceInv'
<1> DEFINE next == [ws EXCEPT !.tabs = tabs, !.active = active]
           cut == Take(tabs, TabCap)
<1>1. Coherent(ws) /\ StoredOK BY DEF WorkspaceInv, ShownOK
<1>2. /\ ws' = next /\ Persist(next) /\ UNCHANGED <<disk, legacy, phase, fallback>>
      /\ local' = [Mirror EXCEPT !.tabs = cut, !.active = active]
  BY DEF ChangeTabs, WriteTabs
<1>3. tabs \in Seq(QueryTab) BY DEF GoodTabs
<1>4. active \in TabIds BY <1>3, TabFields
<1>5. /\ next \in WorkspaceSnapshot /\ next.tabs = tabs /\ next.active = active
      /\ next.history = ws.history /\ next.favorites = ws.favorites
      /\ next.migrations = ws.migrations /\ next.audit = ws.audit /\ next.days = ws.days
  <2>1. ws \in WorkspaceSnapshot BY <1>1 DEF Coherent
  <2>2. QED BY <1>3, <1>4, <2>1 DEF WorkspaceSnapshot
<1>6. Coherent(next)
  <2>1. Storable(next) BY <1>1, <1>5 DEF Coherent, Storable
  <2>2. QED BY <1>5, <2>1 DEF Coherent
<1>7. sql' = ShowActive(next) BY <1>5 DEF ShowActive
<1>8. GoodTabs(cut) /\ cut # <<>> BY TabsTake, Caps
<1>9. GoodMirror(Mirror) BY <1>1, MirrorGood
<1> HIDE DEF cut
<1>10. local' = [tabs |-> cut, active |-> active, history |-> Mirror.history,
                 favorites |-> Mirror.favorites, migrations |-> Mirror.migrations]
  <2>1. Mirror \in MirrorSnapshot BY <1>9 DEF GoodMirror
  <2>2. QED BY <1>2, <2>1 DEF MirrorSnapshot
<1>11. GoodMirror(local')
  <2>1. cut \in Seq(QueryTab) BY <1>8 DEF GoodTabs
  <2>2. local' \in MirrorSnapshot BY <1>4, <1>9, <1>10, <2>1, MirrorFields DEF MirrorSnapshot
  <2>3. QED BY <1>8, <1>9, <1>10, <2>2 DEF GoodMirror
<1>12. FallbackFits' BY <1>8, <1>10, <1>11, MirrorFields DEF FallbackFits
<1> HIDE DEF next
<1>13. QED BY <1>2, <1>6, <1>7, <1>11, <1>12, PersistKeepsInv

\* The tabs in the mirror stay.
MirrorKeepsTabs == UNCHANGED local \/ (GoodMirror(local') /\ local'.tabs = Mirror.tabs)

\* A handler that changes the lists, and their keys of the mirror or none.
LEMMA ChangeListsKeepsInv ==
  ASSUME WorkspaceInv, NEW next, ChangeLists(next), next \in WorkspaceSnapshot, Storable(next),
         next.tabs = ws.tabs, next.active = ws.active, MirrorKeepsTabs
  PROVE  WorkspaceInv'
<1>1. Coherent(ws) /\ StoredOK /\ sql = ShowActive(ws) BY DEF WorkspaceInv, ShownOK
<1>2. Coherent(next) BY <1>1 DEF Coherent
<1>3. ws' = next /\ Persist(next) /\ UNCHANGED <<sql, disk, legacy, phase, fallback>> BY DEF ChangeLists
<1>4. sql' = ShowActive(next) BY <1>1, <1>3 DEF ShowActive
<1>5. local' = None \/ GoodMirror(local') BY <1>1 DEF StoredOK, MirrorKeepsTabs
<1>6. FallbackFits'
  <2>1. CASE UNCHANGED local BY <1>3, <2>1 DEF WorkspaceInv, FallbackFits
  <2>2. CASE GoodMirror(local') /\ local'.tabs = Mirror.tabs
    <3>1. local' # None BY <2>2, MirrorFields
    <3>2. Mirror.tabs = <<>> => local = None \/ local.tabs = <<>> BY DEF Mirror
    <3>3. QED BY <1>3, <2>2, <3>1, <3>2 DEF WorkspaceInv, FallbackFits
  <2>3. QED BY <2>1, <2>2 DEF MirrorKeepsTabs
<1>7. QED BY <1>2, <1>3, <1>4, <1>5, <1>6, PersistKeepsInv

\* Tabs whose texts are edited.
LEMMA TabsEdited ==
  ASSUME NEW tabs, GoodTabs(tabs), NEW edited \in [DOMAIN tabs -> QueryTab],
         \A i \in DOMAIN tabs : edited[i].id = tabs[i].id
  PROVE  /\ GoodTabs(edited) /\ Open(edited) = Open(tabs) /\ (tabs # <<>> => edited # <<>>)
         /\ \A id \in Open(tabs) : TabOf(edited, id) = TabOf(tabs, id)
<1>1. tabs \in Seq(QueryTab) /\ DOMAIN edited = DOMAIN tabs BY DEF GoodTabs
<1>2. DOMAIN tabs = 1..Len(tabs) /\ Len(tabs) \in Nat BY <1>1, TabFields
<1>3. edited \in Seq(QueryTab) BY <1>1, <1>2
<1>4. Open(edited) = Open(tabs) BY <1>1 DEF Open
<1>5. GoodTabs(edited) BY <1>1, <1>3 DEF GoodTabs, IdsDistinct
<1>6. tabs # <<>> => edited # <<>>
  <2>1. tabs # <<>> => 1 \in DOMAIN tabs BY <1>1, TabFields
  <2>2. QED BY <2>1, <1>1
<1>7. ASSUME NEW id \in Open(tabs) PROVE TabOf(edited, id) = TabOf(tabs, id)
  <2> DEFINE i == TabOf(tabs, id)
  <2>1. i \in DOMAIN tabs /\ tabs[i].id = id BY TabFound
  <2> HIDE DEF i
  <2>2. i \in DOMAIN edited /\ edited[i].id = id BY <1>1, <2>1
  <2>3. TabOf(edited, edited[i].id) = i BY <1>5, <2>2, TabFound
  <2>4. QED BY <2>2, <2>3 DEF i
<1>8. QED BY <1>4, <1>5, <1>6, <1>7

LEMMA SetSqlKeepsInv == ASSUME WorkspaceInv, NEW text \in Texts, SetSql(text) PROVE WorkspaceInv'
<1> DEFINE edited == [i \in DOMAIN ws.tabs |->
                        IF ws.tabs[i].id = ws.active
                        THEN [ws.tabs[i] EXCEPT !.sql = text, !.dirty = TRUE] ELSE ws.tabs[i]]
           here == TabOf(ws.tabs, ws.active)
<1>1. /\ GoodTabs(ws.tabs) /\ ws.tabs # <<>> /\ ws.active \in Open(ws.tabs) /\ ws.tabs \in Seq(QueryTab)
  BY DEF WorkspaceInv, ShownOK, Coherent, Storable, GoodTabs
<1>2. ChangeTabs(edited, ws.active) /\ sql' = text BY DEF SetSql
<1>3. \A i \in DOMAIN ws.tabs : edited[i] \in QueryTab /\ edited[i].id = ws.tabs[i].id
  <2> SUFFICES ASSUME NEW i \in DOMAIN ws.tabs
               PROVE  edited[i] \in QueryTab /\ edited[i].id = ws.tabs[i].id
    OBVIOUS
  <2>1. ws.tabs[i] \in QueryTab BY <1>1, TabFields
  <2>2. QED BY <2>1 DEF QueryTab
<1>4. edited \in [DOMAIN ws.tabs -> QueryTab] BY <1>3
<1>5. here \in DOMAIN ws.tabs /\ ws.tabs[here].id = ws.active BY <1>1, TabFound
<1>6. edited[here].sql = text
  <2>1. ws.tabs[here] \in QueryTab BY <1>1, <1>5, TabFields
  <2>2. QED BY <1>5, <2>1 DEF QueryTab
<1> HIDE DEF edited, here
<1>7. /\ GoodTabs(edited) /\ edited # <<>> /\ ws.active \in Open(edited)
      /\ TabOf(edited, ws.active) = here
  BY <1>1, <1>3, <1>4, TabsEdited DEF here
<1>8. QED BY <1>2, <1>6, <1>7, ChangeTabsKeepsInv

LEMMA ReplaceSampleKeepsInv == ASSUME WorkspaceInv, ReplaceSample PROVE WorkspaceInv'
<1> DEFINE clean(tab) == tab.id = ws.active /\ ~tab.dirty
           edited == [i \in DOMAIN ws.tabs |->
                        IF clean(ws.tabs[i]) THEN [ws.tabs[i] EXCEPT !.sql = Sample] ELSE ws.tabs[i]]
           here == TabOf(ws.tabs, ws.active)
<1>1. /\ GoodTabs(ws.tabs) /\ ws.tabs # <<>> /\ ws.active \in Open(ws.tabs) /\ ws.tabs \in Seq(QueryTab)
      /\ sql = ws.tabs[here].sql
  BY DEF WorkspaceInv, ShownOK, Coherent, Storable, GoodTabs, ShowActive
<1>2. /\ ChangeTabs(edited, ws.active)
      /\ sql' = IF \E tab \in Entries(ws.tabs) : clean(tab) THEN Sample ELSE sql
  BY DEF ReplaceSample
<1>3. \A i \in DOMAIN ws.tabs : edited[i] \in QueryTab /\ edited[i].id = ws.tabs[i].id
  <2> SUFFICES ASSUME NEW i \in DOMAIN ws.tabs
               PROVE  edited[i] \in QueryTab /\ edited[i].id = ws.tabs[i].id
    OBVIOUS
  <2>1. ws.tabs[i] \in QueryTab /\ Sample \in Texts BY <1>1, TabFields, WorkspaceAssumption
  <2>2. QED BY <2>1 DEF QueryTab
<1>4. edited \in [DOMAIN ws.tabs -> QueryTab] BY <1>3
<1>5. here \in DOMAIN ws.tabs /\ ws.tabs[here].id = ws.active BY <1>1, TabFound
<1>6. edited[here].sql = sql'
  <2>1. ws.tabs[here] \in QueryTab BY <1>1, <1>5, TabFields
  <2>2. ws.tabs[here] \in Entries(ws.tabs) BY <1>5 DEF Entries
  <2>3. CASE clean(ws.tabs[here])
    <3>1. sql' = Sample BY <1>2, <2>2, <2>3
    <3>2. edited[here].sql = Sample BY <1>5, <2>1, <2>3 DEF QueryTab
    <3>3. QED BY <3>1, <3>2
  <2>4. CASE ~clean(ws.tabs[here])
    <3>1. ASSUME NEW tab \in Entries(ws.tabs), clean(tab) PROVE FALSE
      <4>1. PICK i \in DOMAIN ws.tabs : ws.tabs[i] = tab BY DEF Entries
      <4>2. TabOf(ws.tabs, ws.tabs[i].id) = i BY <1>1, TabFound
      <4>3. i = here BY <3>1, <4>1, <4>2
      <4>4. QED BY <2>4, <3>1, <4>1, <4>3
    <3>2. sql' = sql BY <1>2, <3>1
    <3>3. edited[here] = ws.tabs[here] BY <1>5, <2>4
    <3>4. QED BY <1>1, <3>2, <3>3
  <2>5. QED BY <2>3, <2>4
<1> HIDE DEF edited, here
<1>7. /\ GoodTabs(edited) /\ edited # <<>> /\ ws.active \in Open(edited)
      /\ TabOf(edited, ws.active) = here
  BY <1>1, <1>3, <1>4, TabsEdited DEF here
<1>8. QED BY <1>2, <1>6, <1>7, ChangeTabsKeepsInv

LEMMA SelectQueryKeepsInv == ASSUME WorkspaceInv, NEW id, SelectQuery(id) PROVE WorkspaceInv'
<1>1. GoodTabs(ws.tabs) /\ ws.tabs # <<>> BY DEF WorkspaceInv, ShownOK, Coherent, Storable
<1>2. QED BY <1>1, ChangeTabsKeepsInv DEF SelectQuery

\* There is an identity for one more tab.
LEMMA FreshIsNew ==
  ASSUME GoodTabs(ws.tabs), Len(ws.tabs) <= MaxTabs
  PROVE  Fresh \in TabIds /\ Fresh \notin Open(ws.tabs)
<1>1. Cardinality(Open(ws.tabs)) = Len(ws.tabs) /\ IsFiniteSet(Open(ws.tabs)) BY OpenCardinality
<1>2. IsFiniteSet(TabIds) /\ Cardinality(TabIds) \in Nat BY WorkspaceAssumption, FS_CardinalityType
<1>3. Len(ws.tabs) < Cardinality(TabIds) /\ Len(ws.tabs) \in Nat
  BY <1>2, WorkspaceAssumption DEF GoodTabs
<1>4. \E id \in TabIds : id \notin Open(ws.tabs)
  <2> SUFFICES ASSUME TabIds \subseteq Open(ws.tabs) PROVE FALSE OBVIOUS
  <2>1. Cardinality(TabIds) <= Cardinality(Open(ws.tabs)) BY <1>1, FS_Subset
  <2>2. QED BY <1>1, <1>2, <1>3, <2>1
<1>5. QED BY <1>4 DEF Fresh

\* A tab that is opened has a new identity.
LEMMA NewQueryKeepsInv == ASSUME WorkspaceInv, NewQuery PROVE WorkspaceInv'
<1> DEFINE opened == NewTab(Fresh)
           tabs == Append(ws.tabs, opened)
           last == Len(ws.tabs) + 1
<1>1. GoodTabs(ws.tabs) /\ ws.tabs \in Seq(QueryTab)
  BY DEF WorkspaceInv, ShownOK, Coherent, Storable, GoodTabs
<1>2. Fresh \in TabIds /\ Fresh \notin Open(ws.tabs)
  BY <1>1, FreshIsNew, WorkspaceAssumption DEF NewQuery
<1>3. opened \in QueryTab /\ opened.id = Fresh /\ opened.sql = Empty
  BY <1>2, WorkspaceAssumption DEF NewTab, QueryTab
<1>4. ChangeTabs(tabs, Fresh) /\ sql' = Empty BY DEF NewQuery
<1> HIDE DEF opened
<1>5. Len(ws.tabs) \in Nat /\ DOMAIN ws.tabs = 1..Len(ws.tabs) BY <1>1
<1>6. /\ tabs \in Seq(QueryTab) /\ DOMAIN tabs = 1..last /\ tabs[last] = opened
      /\ \A i \in 1..Len(ws.tabs) : tabs[i] = ws.tabs[i]
  BY <1>1, <1>3
<1> HIDE DEF tabs
<1>7. \A i \in 1..Len(ws.tabs) : tabs[i].id # Fresh BY <1>2, <1>5, <1>6 DEF Open
<1>8. IdsDistinct(tabs)
  <2> SUFFICES ASSUME NEW i \in 1..last, NEW j \in 1..last, tabs[i].id = tabs[j].id PROVE i = j
    BY <1>6 DEF IdsDistinct
  <2>1. CASE i = last \/ j = last BY <1>3, <1>5, <1>6, <1>7, <2>1
  <2>2. CASE i # last /\ j # last
    <3>1. i \in DOMAIN ws.tabs /\ j \in DOMAIN ws.tabs BY <1>5, <2>2
    <3>2. QED BY <1>1, <1>5, <1>6, <3>1 DEF GoodTabs, IdsDistinct
  <2>3. QED BY <2>1, <2>2
<1>9. GoodTabs(tabs) /\ last \in DOMAIN tabs BY <1>5, <1>6, <1>8 DEF GoodTabs
<1>10. tabs # <<>> /\ Fresh \in Open(tabs) BY <1>3, <1>6, <1>9 DEF Open
<1>11. TabOf(tabs, Fresh) = last BY <1>3, <1>6, <1>9, TabFound
<1>12. QED BY <1>3, <1>4, <1>6, <1>9, <1>10, <1>11, ChangeTabsKeepsInv

\* A tab goes; an active one passes on to a tab that stays.
LEMMA CloseQueryKeepsInv == ASSUME WorkspaceInv, NEW id, CloseQuery(id) PROVE WorkspaceInv'
<1> DEFINE others == {tab \in Entries(ws.tabs) : tab.id # id}
           remaining == Only(ws.tabs, others)
           index == TabOf(ws.tabs, id)
           next == IF index < Len(remaining) THEN index ELSE Len(remaining)
           replacement == remaining[next]
           here == TabOf(ws.tabs, ws.active)
<1>1. /\ GoodTabs(ws.tabs) /\ ws.active \in Open(ws.tabs) /\ ws.tabs \in Seq(QueryTab)
      /\ sql = ws.tabs[here].sql
  BY DEF WorkspaceInv, ShownOK, Coherent, Storable, GoodTabs, ShowActive
<1>2. id \in Open(ws.tabs) BY DEF CloseQuery
<1>3. /\ remaining = <<>> => ChangeTabs(<<NewTab(Fresh)>>, Fresh) /\ sql' = Empty
      /\ remaining # <<>> /\ ws.active # id => ChangeTabs(remaining, ws.active) /\ UNCHANGED sql
      /\ remaining # <<>> /\ ws.active = id
           => ChangeTabs(remaining, replacement.id) /\ sql' = replacement.sql
  BY DEF CloseQuery
<1>4. GoodTabs(remaining) /\ Entries(remaining) = others
  <2>1. GoodTabs(remaining) /\ Entries(remaining) = Entries(ws.tabs) \cap others BY <1>1, TabsOnly
  <2>2. QED BY <2>1
<1>5. index \in DOMAIN ws.tabs /\ here \in DOMAIN ws.tabs /\ ws.tabs[here].id = ws.active
  BY <1>1, <1>2, TabFound
<1> HIDE DEF remaining, index, here
<1>6. remaining \in Seq(QueryTab) BY <1>4 DEF GoodTabs
<1>7. CASE remaining = <<>>
  <2> DEFINE tab == NewTab(Fresh)
             tabs == <<tab>>
  <2>1. Entries(remaining) = {} BY <1>7 DEF Entries
  <2>2. Open(ws.tabs) = {id}
    <3>1. ASSUME NEW i \in DOMAIN ws.tabs PROVE ws.tabs[i].id = id
      <4>1. ws.tabs[i] \in Entries(ws.tabs) BY DEF Entries
      <4>2. QED BY <4>1, <2>1, <1>4
    <3>2. QED BY <3>1, <1>2 DEF Open
  <2>3. Len(ws.tabs) = 1 BY <1>1, <2>2, OpenCardinality, FS_Singleton
  <2>4. Fresh \in TabIds BY <1>1, <2>3, FreshIsNew, WorkspaceAssumption
  <2>5. tab \in QueryTab /\ tab.id = Fresh /\ tab.sql = Empty
    BY <2>4, WorkspaceAssumption DEF NewTab, QueryTab
  <2> HIDE DEF tab
  <2>6. tabs \in Seq(QueryTab) /\ DOMAIN tabs = {1} /\ tabs[1] = tab /\ tabs # <<>> BY <2>5
  <2>7. GoodTabs(tabs) BY <2>6 DEF GoodTabs, IdsDistinct
  <2>8. Fresh \in Open(tabs) /\ TabOf(tabs, Fresh) = 1
    BY <2>5, <2>6, <2>7, TabFound DEF Open
  <2>9. ChangeTabs(tabs, Fresh) /\ sql' = tabs[TabOf(tabs, Fresh)].sql
    BY <1>3, <1>7, <2>5, <2>6, <2>8 DEF tab
  <2> HIDE DEF tabs
  <2>10. QED BY <2>6, <2>7, <2>8, <2>9, ChangeTabsKeepsInv
<1>8. CASE remaining # <<>> /\ ws.active # id
  <2>1. ws.tabs[here] \in Entries(remaining) BY <1>4, <1>5, <1>8 DEF Entries
  <2>2. PICK k \in DOMAIN remaining : remaining[k] = ws.tabs[here] BY <2>1 DEF Entries
  <2>3. ws.active \in Open(remaining) BY <1>5, <2>2 DEF Open
  <2>4. TabOf(remaining, ws.active) = k BY <1>4, <1>5, <2>2, TabFound
  <2>5. ChangeTabs(remaining, ws.active) /\ sql' = remaining[TabOf(remaining, ws.active)].sql
    BY <1>1, <1>3, <1>8, <2>2, <2>4
  <2>6. QED BY <1>4, <1>8, <2>3, <2>5, ChangeTabsKeepsInv
<1>9. CASE remaining # <<>> /\ ws.active = id
  <2>1. index \in Nat /\ index > 0 BY <1>1, <1>5
  <2>2. Len(remaining) \in Nat /\ Len(remaining) > 0 /\ DOMAIN remaining = 1..Len(remaining)
    BY <1>6, <1>9, EmptySeq
  <2>3. next \in DOMAIN remaining BY <2>1, <2>2
  <2> HIDE DEF next
  <2>4. replacement.id \in Open(remaining) BY <2>3 DEF Open
  <2>5. TabOf(remaining, replacement.id) = next BY <1>4, <2>3, TabFound
  <2>6. ChangeTabs(remaining, replacement.id) /\ sql' = remaining[TabOf(remaining, replacement.id)].sql
    BY <1>3, <1>9, <2>5
  <2>7. QED BY <1>4, <1>9, <2>4, <2>6, ChangeTabsKeepsInv
<1>10. QED BY <1>7, <1>8, <1>9

\* A list of the workspace and its key of the mirror are set.
LEMMA HistorySetKeepsInv ==
  ASSUME WorkspaceInv, NEW history \in Seq(Texts), Distinct(history), NEW kept \in Seq(Texts), Distinct(kept),
         ChangeLists([ws EXCEPT !.history = history]), local' = [Mirror EXCEPT !.history = kept]
  PROVE  WorkspaceInv'
<1> DEFINE next == [ws EXCEPT !.history = history]
<1>1. ws \in WorkspaceSnapshot /\ Storable(ws) /\ StoredOK BY DEF WorkspaceInv, ShownOK, Coherent
<1>2. next \in WorkspaceSnapshot /\ Storable(next) /\ next.tabs = ws.tabs /\ next.active = ws.active
  BY <1>1 DEF WorkspaceSnapshot, Storable
<1>3. GoodMirror(Mirror) BY <1>1, MirrorGood
<1>4. MirrorKeepsTabs BY <1>3 DEF GoodMirror, MirrorSnapshot, MirrorKeepsTabs
<1> HIDE DEF next
<1>5. QED BY <1>2, <1>4, ChangeListsKeepsInv DEF next

LEMMA FavoritesSetKeepsInv ==
  ASSUME WorkspaceInv, NEW favorites \in Seq(Texts), Distinct(favorites), NEW kept \in Seq(Texts), Distinct(kept),
         ChangeLists([ws EXCEPT !.favorites = favorites]), local' = [Mirror EXCEPT !.favorites = kept]
  PROVE  WorkspaceInv'
<1> DEFINE next == [ws EXCEPT !.favorites = favorites]
<1>1. ws \in WorkspaceSnapshot /\ Storable(ws) /\ StoredOK BY DEF WorkspaceInv, ShownOK, Coherent
<1>2. next \in WorkspaceSnapshot /\ Storable(next) /\ next.tabs = ws.tabs /\ next.active = ws.active
  BY <1>1 DEF WorkspaceSnapshot, Storable
<1>3. GoodMirror(Mirror) BY <1>1, MirrorGood
<1>4. MirrorKeepsTabs BY <1>3 DEF GoodMirror, MirrorSnapshot, MirrorKeepsTabs
<1> HIDE DEF next
<1>5. QED BY <1>2, <1>4, ChangeListsKeepsInv DEF next

LEMMA MigrationsSetKeepsInv ==
  ASSUME WorkspaceInv, NEW migrations \in Seq(MigrationHistoryEntry), NEW kept \in Seq(MigrationHistoryEntry),
         ChangeLists([ws EXCEPT !.migrations = migrations]), local' = [Mirror EXCEPT !.migrations = kept]
  PROVE  WorkspaceInv'
<1> DEFINE next == [ws EXCEPT !.migrations = migrations]
<1>1. ws \in WorkspaceSnapshot /\ Storable(ws) /\ StoredOK BY DEF WorkspaceInv, ShownOK, Coherent
<1>2. next \in WorkspaceSnapshot /\ Storable(next) /\ next.tabs = ws.tabs /\ next.active = ws.active
  BY <1>1 DEF WorkspaceSnapshot, Storable
<1>3. GoodMirror(Mirror) BY <1>1, MirrorGood
<1>4. MirrorKeepsTabs BY <1>3 DEF GoodMirror, MirrorSnapshot, MirrorKeepsTabs
<1> HIDE DEF next
<1>5. QED BY <1>2, <1>4, ChangeListsKeepsInv DEF next

\* The audit has no mirror.
LEMMA AuditSetKeepsInv ==
  ASSUME WorkspaceInv, NEW audit \in Seq(BOOLEAN), NEW days \in {0, 1, 7, 30}, days = 0 => audit = <<>>,
         NEW next, \/ next = [ws EXCEPT !.audit = audit] /\ days = ws.days
                   \/ next = [ws EXCEPT !.days = days, !.audit = audit],
         ChangeLists(next), UNCHANGED local
  PROVE  WorkspaceInv'
<1>1. ws \in WorkspaceSnapshot /\ Storable(ws) BY DEF WorkspaceInv, ShownOK, Coherent
<1>2. next \in WorkspaceSnapshot /\ Storable(next) /\ next.tabs = ws.tabs /\ next.active = ws.active
  BY <1>1 DEF WorkspaceSnapshot, Storable
<1>3. MirrorKeepsTabs BY DEF MirrorKeepsTabs
<1>4. QED BY <1>2, <1>3, ChangeListsKeepsInv

LEMMA QueryHandlersKeepInv ==
  ASSUME WorkspaceInv, QueryHandlers
  PROVE  WorkspaceInv'
<1>1. /\ ws.history \in Seq(Texts) /\ Distinct(ws.history)
      /\ ws.favorites \in Seq(Texts) /\ Distinct(ws.favorites)
  BY DEF WorkspaceInv, ShownOK, Coherent, Storable
<1>2. <<>> \in Seq(Texts) /\ Distinct(<<>>) BY DEF Distinct
<1>3. \A texts \in Seq(Texts), text \in Texts :
        /\ Without(texts, text) \in Seq(Texts)
        /\ Distinct(texts) => Distinct(Without(texts, text))
        /\ text \notin Entries(Without(texts, text))
  BY OnlyProperties DEF Without
<1>4. ASSUME NEW text \in Texts, AddHistory(text) PROVE WorkspaceInv'
  <2> DEFINE history == Promote(text, ws.history)
  <2>1. history \in Seq(Texts) /\ Distinct(history) BY <1>1, <1>3, InFront DEF Promote
  <2>2. ChangeLists([ws EXCEPT !.history = history])
        /\ local' = [Mirror EXCEPT !.history = Take(history, HistoryCap)]
    BY <1>4 DEF AddHistory, WriteHistory
  <2> HIDE DEF history
  <2>3. Take(history, HistoryCap) \in Seq(Texts) /\ Distinct(Take(history, HistoryCap))
    BY <2>1, TextsNormal, Caps
  <2>4. QED BY <2>1, <2>2, <2>3, HistorySetKeepsInv
<1>5. CASE ClearHistory BY <1>2, <1>5, HistorySetKeepsInv DEF ClearHistory
<1>6. ASSUME NEW text \in Texts, ToggleFavorite(text) PROVE WorkspaceInv'
  <2> DEFINE favorites == IF text \in Entries(ws.favorites) THEN Without(ws.favorites, text)
                          ELSE <<text>> \o ws.favorites
  <2>1. favorites \in Seq(Texts) /\ Distinct(favorites)
    <3>1. CASE text \in Entries(ws.favorites) BY <1>1, <1>3, <3>1
    <3>2. CASE text \notin Entries(ws.favorites) BY <1>1, <3>2, InFront
    <3>3. QED BY <3>1, <3>2
  <2>2. ChangeLists([ws EXCEPT !.favorites = favorites])
        /\ local' = [Mirror EXCEPT !.favorites = Take(favorites, FavoriteCap)]
    BY <1>6 DEF ToggleFavorite, WriteFavorites
  <2> HIDE DEF favorites
  <2>3. Take(favorites, FavoriteCap) \in Seq(Texts) /\ Distinct(Take(favorites, FavoriteCap))
    BY <2>1, TextsNormal, Caps
  <2>4. QED BY <2>1, <2>2, <2>3, FavoritesSetKeepsInv
<1>7. QED BY <1>4, <1>5, <1>6 DEF QueryHandlers

LEMMA RecordHandlersKeepInv ==
  ASSUME WorkspaceInv, RecordHandlers
  PROVE  WorkspaceInv'
<1>1. /\ ws.migrations \in Seq(MigrationHistoryEntry) /\ ws.audit \in Seq(BOOLEAN)
      /\ ws.days \in {0, 1, 7, 30} /\ (ws.days = 0 => ws.audit = <<>>)
  BY DEF WorkspaceInv, ShownOK, Coherent, Storable
<1>2. ws \in WorkspaceSnapshot BY DEF WorkspaceInv, ShownOK, Coherent
<1>3. MigrationCap \in Nat /\ AuditCap \in Nat BY Caps
<1>4. ASSUME NEW text \in Texts, NEW known \in BOOLEAN, AddMigrationHistory(text, known)
      PROVE  WorkspaceInv'
  <2> DEFINE entry == [sql |-> text, known |-> known, applied |-> FALSE]
             others == Only(ws.migrations, {m \in Entries(ws.migrations) : m.sql # text})
             history == Take(<<entry>> \o others, MigrationCap)
  <2>1. entry \in MigrationHistoryEntry BY DEF MigrationHistoryEntry
  <2>2. others \in Seq(MigrationHistoryEntry) BY <1>1, OnlyProperties
  <2>3. ChangeLists([ws EXCEPT !.migrations = history])
        /\ local' = [Mirror EXCEPT !.migrations = Take(history, MigrationCap)]
    BY <1>4 DEF AddMigrationHistory, WriteMigrationHistory
  <2> HIDE DEF entry, others
  <2>4. history \in Seq(MigrationHistoryEntry)
    <3>1. PICK more : more = <<entry>> \o others OBVIOUS
    <3>2. more \in Seq(MigrationHistoryEntry) BY <2>1, <2>2, <3>1, InFront
    <3>3. Take(more, MigrationCap) \in Seq(MigrationHistoryEntry) BY <1>3, <3>2, TakeProperties
    <3>4. QED BY <3>1, <3>3
  <2> HIDE DEF history
  <2>5. Take(history, MigrationCap) \in Seq(MigrationHistoryEntry) BY <1>3, <2>4, TakeProperties
  <2>6. QED BY <2>3, <2>4, <2>5, MigrationsSetKeepsInv
<1>5. ASSUME NEW text \in Texts, MarkMigrationApplied(text) PROVE WorkspaceInv'
  <2> DEFINE history == [i \in DOMAIN ws.migrations |->
                           IF ws.migrations[i].sql = text THEN [ws.migrations[i] EXCEPT !.applied = TRUE]
                           ELSE ws.migrations[i]]
  <2>1. \A i \in DOMAIN ws.migrations : history[i] \in MigrationHistoryEntry
    <3> SUFFICES ASSUME NEW i \in DOMAIN ws.migrations PROVE history[i] \in MigrationHistoryEntry
      OBVIOUS
    <3>1. ws.migrations[i] \in MigrationHistoryEntry BY <1>1
    <3>2. QED BY <3>1 DEF MigrationHistoryEntry
  <2>2. DOMAIN ws.migrations = 1..Len(ws.migrations) /\ Len(ws.migrations) \in Nat BY <1>1
  <2>3. history \in Seq(MigrationHistoryEntry)
    <3>1. history \in [1..Len(ws.migrations) -> MigrationHistoryEntry] BY <2>1, <2>2
    <3> HIDE DEF history
    <3>2. QED BY <2>2, <3>1
  <2>4. ChangeLists([ws EXCEPT !.migrations = history])
        /\ local' = [Mirror EXCEPT !.migrations = Take(history, MigrationCap)]
    BY <1>5 DEF MarkMigrationApplied, WriteMigrationHistory
  <2> HIDE DEF history
  <2>5. Take(history, MigrationCap) \in Seq(MigrationHistoryEntry) BY <1>3, <2>3, TakeProperties
  <2>6. QED BY <2>3, <2>4, <2>5, MigrationsSetKeepsInv
<1>6. CASE ClearMigrationHistory
  <2>1. <<>> \in Seq(MigrationHistoryEntry) OBVIOUS
  <2>2. ChangeLists([ws EXCEPT !.migrations = <<>>]) /\ local' = [Mirror EXCEPT !.migrations = <<>>]
    BY <1>6 DEF ClearMigrationHistory
  <2>3. QED BY <2>1, <2>2, MigrationsSetKeepsInv
<1>7. ASSUME NEW known \in BOOLEAN, RecordSessionAudit(known) PROVE WorkspaceInv'
  <2> DEFINE audit == IF ws.days = 0 THEN <<>> ELSE Take(<<known>> \o ws.audit, AuditCap)
  <2>1. audit \in Seq(BOOLEAN)
    <3> DEFINE B == BOOLEAN
    <3>1. ws.audit \in Seq(B) /\ known \in B BY <1>1
    <3> HIDE DEF B
    <3>2. Take(<<known>> \o ws.audit, AuditCap) \in Seq(B)
      <4>1. PICK more : more = <<known>> \o ws.audit OBVIOUS
      <4>2. more \in Seq(B) BY <3>1, <4>1, InFront
      <4>3. Take(more, AuditCap) \in Seq(B) BY <1>3, <4>2, TakeProperties
      <4>4. QED BY <4>1, <4>3
    <3>3. <<>> \in Seq(B) OBVIOUS
    <3>4. audit \in Seq(B) BY <3>2, <3>3
    <3>5. QED BY <3>4 DEF B
  <2>2. ChangeLists([ws EXCEPT !.audit = audit]) /\ UNCHANGED local
    BY <1>2, <1>7 DEF RecordSessionAudit, WorkspaceSnapshot
  <2>3. ws.days = 0 => audit = <<>> OBVIOUS
  <2> HIDE DEF audit
  <2>4. QED BY <1>1, <2>1, <2>2, <2>3, AuditSetKeepsInv
<1>8. CASE ClearSessionAudit
  <2>1. <<>> \in Seq(BOOLEAN) OBVIOUS
  <2>2. ChangeLists([ws EXCEPT !.audit = <<>>]) /\ UNCHANGED local BY <1>8 DEF ClearSessionAudit
  <2>3. QED BY <1>1, <2>1, <2>2, AuditSetKeepsInv
<1>9. ASSUME NEW days \in {0, 7}, SetSessionAuditRetentionDays(days) PROVE WorkspaceInv'
  <2> DEFINE audit == IF days = 0 THEN <<>> ELSE ws.audit
  <2>1. audit \in Seq(BOOLEAN)
    <3>1. <<>> \in Seq(BOOLEAN) OBVIOUS
    <3>2. CASE days = 0 BY <3>1, <3>2
    <3>3. CASE days # 0 BY <1>1, <3>3
    <3>4. QED BY <3>2, <3>3
  <2>4. days = 0 => audit = <<>> OBVIOUS
  <2>5. days \in {0, 1, 7, 30} OBVIOUS
  <2>2. ChangeLists([ws EXCEPT !.days = days, !.audit = audit]) /\ UNCHANGED local
    BY <1>2, <1>9 DEF SetSessionAuditRetentionDays, WorkspaceSnapshot
  <2> HIDE DEF audit
  <2>3. QED BY <2>1, <2>2, <2>4, <2>5, AuditSetKeepsInv
<1>10. QED BY <1>4, <1>5, <1>6, <1>7, <1>8, <1>9 DEF RecordHandlers

-----------------------------------------------------------------------------
(* The window starts and loads; autosaves land.                            *)

LEMMA DefaultTabsGood ==
  GoodTabs(DefaultTabs) /\ DefaultTabs # <<>> /\ Len(DefaultTabs) = 1 /\ DefaultTabs[1].sql = Sample
<1> DEFINE id == CHOOSE x \in TabIds : TRUE
           tab == [id |-> id, sql |-> Sample, dirty |-> FALSE]
<1>1. TabIds # {}
  <2> SUFFICES ASSUME TabIds = {} PROVE FALSE OBVIOUS
  <2>1. Cardinality(TabIds) = 0 BY FS_EmptySet
  <2>2. QED BY <2>1, WorkspaceAssumption
<1>2. id \in TabIds BY <1>1
<1> HIDE DEF id
<1>3. tab \in QueryTab /\ tab.sql = Sample BY <1>2, WorkspaceAssumption DEF QueryTab
<1>4. DefaultTabs = <<tab>> BY DEF DefaultTabs, id
<1> HIDE DEF tab
<1>5. <<tab>> \in Seq(QueryTab) /\ <<tab>> # <<>> /\ Len(<<tab>>) = 1 /\ <<tab>>[1] = tab
      /\ DOMAIN <<tab>> = {1}
  BY <1>3
<1>6. QED BY <1>3, <1>4, <1>5 DEF GoodTabs, IdsDistinct

\* The snapshot of tabs alone.
LEMMA FallbackCoherent ==
  ASSUME NEW tabs, GoodTabs(tabs), tabs # <<>>
  PROVE  Coherent(Fallback(tabs)) /\ Fallback(tabs).tabs = tabs /\ Fallback(tabs).active = tabs[1].id
<1> DEFINE s == Fallback(tabs)
<1>1. tabs \in Seq(QueryTab) BY DEF GoodTabs
<1>2. 1 \in DOMAIN tabs /\ tabs[1].id \in TabIds /\ tabs[1].id \in Open(tabs) BY <1>1, TabFields
<1>3. /\ <<>> \in Seq(Texts) /\ <<>> \in Seq(MigrationHistoryEntry) /\ <<>> \in Seq(BOOLEAN)
      /\ Distinct(<<>>)
  BY DEF Distinct
<1>4. /\ s.tabs = tabs /\ s.active = tabs[1].id /\ s.history = <<>> /\ s.favorites = <<>>
      /\ s.migrations = <<>> /\ s.audit = <<>> /\ s.days = 7
  BY DEF Fallback
<1>5. s \in WorkspaceSnapshot BY <1>1, <1>2, <1>3 DEF Fallback, WorkspaceSnapshot
<1> HIDE DEF s
<1>6. Storable(s) BY <1>3, <1>4 DEF Storable
<1>7. Coherent(s) BY <1>2, <1>4, <1>5, <1>6 DEF Coherent
<1>8. QED BY <1>4, <1>7 DEF s

\* The mirror, read at the start.
LEMMA MirroredCoherent ==
  ASSUME StoredOK
  PROVE  Coherent(Mirrored) /\ Len(Mirrored.tabs) <= TabCap
<1> DEFINE s == Mirrored
           tabs == ReadTabs
           active == NormalizeActive(ReadTabs, Mirror.active)
           history == ReadHistory
           favorites == ReadFavorites
           migrations == ReadMigrationHistory
<1>1. GoodMirror(Mirror) BY MirrorGood
<1>2. GoodTabs(tabs) /\ tabs # <<>> /\ Len(tabs) <= TabCap
  <2>1. TabCap \in Nat \ {0} /\ 1 <= TabCap BY Caps
  <2>2. CASE Mirror.tabs = <<>> BY <2>1, <2>2, DefaultTabsGood DEF ReadTabs
  <2>3. CASE Mirror.tabs # <<>>
    <3>1. ReadTabs = Take(Mirror.tabs, TabCap) /\ GoodTabs(Mirror.tabs) BY <1>1, <2>3 DEF ReadTabs, GoodMirror
    <3>2. QED BY <2>1, <2>3, <3>1, TabsTake
  <2>4. QED BY <2>2, <2>3
<1>3. tabs \in Seq(QueryTab) BY <1>2 DEF GoodTabs
<1>4. active \in Open(tabs) /\ active \in TabIds BY <1>2, <1>3, NormalizeActiveOpen
<1>5. history \in Seq(Texts) /\ Distinct(history)
  BY <1>1, MirrorFields, TextsNormal, Caps DEF GoodMirror, ReadHistory
<1>6. favorites \in Seq(Texts) /\ Distinct(favorites)
  BY <1>1, MirrorFields, TextsNormal, Caps DEF GoodMirror, ReadFavorites
<1>7. migrations \in Seq(MigrationHistoryEntry)
  BY <1>1, MirrorFields, TakeProperties, Caps DEF ReadMigrationHistory
<1>8. <<>> \in Seq(BOOLEAN) OBVIOUS
<1>9. s = [tabs |-> tabs, active |-> active, history |-> history, favorites |-> favorites,
           migrations |-> migrations, audit |-> <<>>, days |-> 7]
  BY DEF Mirrored
<1> HIDE DEF s, tabs, active, history, favorites, migrations
<1>10. /\ s.tabs = tabs /\ s.active = active /\ s.history = history /\ s.favorites = favorites
       /\ s.migrations = migrations /\ s.audit = <<>> /\ s.days = 7
       /\ s \in WorkspaceSnapshot
  BY <1>3, <1>4, <1>5, <1>6, <1>7, <1>8, <1>9 DEF WorkspaceSnapshot
<1>11. Storable(s) BY <1>2, <1>5, <1>6, <1>7, <1>8, <1>10 DEF Storable
<1>12. Coherent(s) BY <1>2, <1>4, <1>10, <1>11 DEF Coherent
<1>13. QED BY <1>2, <1>10, <1>12 DEF s

LEMMA WorkspaceInitInv == WorkspaceInit => WorkspaceInv
<1> SUFFICES ASSUME WorkspaceInit PROVE WorkspaceInv OBVIOUS
<1>1. GoodTabs(DefaultTabs) /\ DefaultTabs # <<>> /\ Len(DefaultTabs) = 1 /\ DefaultTabs[1].sql = Sample
  BY DefaultTabsGood
<1>2. /\ Coherent(Fallback(DefaultTabs)) /\ Fallback(DefaultTabs).tabs = DefaultTabs
      /\ Fallback(DefaultTabs).active = DefaultTabs[1].id
  BY <1>1, FallbackCoherent
<1>3. TabOf(DefaultTabs, DefaultTabs[1].id) = 1
  <2>1. 1 \in DOMAIN DefaultTabs BY <1>1 DEF GoodTabs
  <2>2. QED BY <1>1, <2>1, TabFound
<1>4. ShowActive(Fallback(DefaultTabs)) = Sample BY <1>1, <1>2, <1>3 DEF ShowActive
<1>5. GoodTabs(<<>>) /\ Len(<<>>) = 0 BY DEF GoodTabs, IdsDistinct
<1>6. ShownOK BY <1>2, <1>4, <1>5 DEF WorkspaceInit, ShownOK
<1>7. legacy = None \/ Coherent(legacy)
  <2> SUFFICES ASSUME legacy # None PROVE Coherent(legacy) OBVIOUS
  <2> DEFINE first == CHOOSE id \in TabIds : TRUE
             tab == [id |-> first, sql |-> Empty, dirty |-> FALSE]
             base == Fallback(<<tab>>)
  <2>1. legacy = [base EXCEPT !.history = <<Sample>>] BY DEF WorkspaceInit, LegacySnapshots
  <2>2. DefaultTabs[1].id = first BY DEF DefaultTabs
  <2>3. first \in TabIds
    <3>1. 1 \in DOMAIN DefaultTabs /\ DefaultTabs \in Seq(QueryTab) BY <1>1 DEF GoodTabs
    <3>2. QED BY <2>2, <3>1, TabFields
  <2> HIDE DEF first
  <2>4. tab \in QueryTab BY <2>3, WorkspaceAssumption DEF QueryTab
  <2> HIDE DEF tab
  <2>5. <<tab>> \in Seq(QueryTab) /\ <<tab>> # <<>> /\ DOMAIN <<tab>> = {1} BY <2>4
  <2>6. GoodTabs(<<tab>>) BY <2>5 DEF GoodTabs, IdsDistinct
  <2>7. Coherent(base) BY <2>5, <2>6, FallbackCoherent
  <2> HIDE DEF base
  <2>8. base \in WorkspaceSnapshot BY <2>7 DEF Coherent
  <2>9. Sample \in Texts /\ <<Sample>> \in Seq(Texts) /\ Distinct(<<Sample>>)
    BY WorkspaceAssumption DEF Distinct
  <2>10. /\ legacy \in WorkspaceSnapshot /\ legacy.tabs = base.tabs /\ legacy.active = base.active
         /\ legacy.history = <<Sample>> /\ legacy.favorites = base.favorites
         /\ legacy.migrations = base.migrations /\ legacy.audit = base.audit /\ legacy.days = base.days
    BY <2>1, <2>8, <2>9 DEF WorkspaceSnapshot
  <2>11. Storable(legacy) BY <2>7, <2>9, <2>10 DEF Coherent, Storable
  <2>12. QED BY <2>7, <2>10, <2>11 DEF Coherent
<1>8. StoredOK BY <1>7 DEF WorkspaceInit, StoredOK
<1>9. FallbackFits
  <2>1. TabCap \in Nat /\ 1 <= TabCap BY Caps
  <2>2. Len(ws.tabs) = 1 /\ Len(fallback) = 0 BY <1>1, <1>2, <1>5 DEF WorkspaceInit
  <2>3. Len(ws.tabs) <= TabCap /\ Len(fallback) <= TabCap BY <2>1, <2>2
  <2>4. QED BY <2>3 DEF FallbackFits
<1>10. LastSaveIsCurrent BY DEF WorkspaceInit, LastSaveIsCurrent
<1>11. QED BY <1>6, <1>8, <1>9, <1>10 DEF WorkspaceInv

LEMMA RestartKeepsInv == ASSUME WorkspaceInv, Restart PROVE WorkspaceInv'
<1>1. Coherent(Mirrored) /\ Len(Mirrored.tabs) <= TabCap BY MirroredCoherent DEF WorkspaceInv
<1>2. /\ ws' = Mirrored /\ sql' = ShowActive(Mirrored) /\ saves' = <<>> /\ phase' = "starting"
      /\ fallback' = <<>> /\ strayed' = FALSE /\ UNCHANGED <<local, disk, legacy>>
  BY DEF Restart
<1> HIDE DEF Mirrored
<1>3. GoodTabs(<<>>) /\ Len(<<>>) = 0 BY DEF GoodTabs, IdsDistinct
<1>4. ShownOK' BY <1>1, <1>2, <1>3 DEF ShownOK
<1>5. StoredOK' BY <1>2 DEF WorkspaceInv, StoredOK
<1>6. TabCap \in Nat BY Caps
<1>7. FallbackFits' BY <1>1, <1>2, <1>3, <1>6 DEF FallbackFits
<1>8. LastSaveIsCurrent' BY <1>2 DEF LastSaveIsCurrent
<1>9. QED BY <1>4, <1>5, <1>7, <1>8 DEF WorkspaceInv

\* A coherent snapshot is shown.
LEMMA AdoptShows ==
  ASSUME WorkspaceInv, NEW snapshot, Coherent(snapshot), Adopt(snapshot), strayed' \in BOOLEAN
  PROVE  ShownOK' /\ ws' = snapshot /\ phase' = "loaded" /\ fallback' = <<>>
<1>1. /\ ws' = snapshot /\ sql' = ShowActive(snapshot) /\ phase' = "loaded" /\ fallback' = <<>>
  BY DEF Adopt
<1>2. GoodTabs(<<>>) BY DEF GoodTabs, IdsDistinct
<1>3. ShownOK' BY <1>1, <1>2 DEF ShownOK
<1>4. QED BY <1>1, <1>3

\* One that is normal fits the database without a cut.
LEMMA NormalFits ==
  ASSUME WorkspaceInv, NEW snapshot, Normal(snapshot), Adopt(snapshot)
  PROVE  FallbackFits' /\ NormalizeSnapshot(ws', ws') = ws'
<1>1. ws' = snapshot /\ fallback' = <<>> BY DEF Adopt
<1>2. Len(snapshot.tabs) <= TabCap /\ Len(<<>>) = 0 /\ 0 <= TabCap BY Caps DEF Normal
<1>3. FallbackFits' BY <1>1, <1>2 DEF FallbackFits
<1>4. NormalizeSnapshot(snapshot, snapshot) = snapshot BY NormalIsFixed
<1>5. QED BY <1>1, <1>3, <1>4

LEMMA FallbackTabs ==
  ASSUME WorkspaceInv, phase = "loading"
  PROVE  /\ GoodTabs(fallback) /\ fallback # <<>> /\ Coherent(Fallback(fallback))
         /\ Fallback(fallback).tabs = fallback
BY FallbackCoherent DEF WorkspaceInv, ShownOK

LEMMA BeginLoadKeepsInv == ASSUME WorkspaceInv, BeginLoad PROVE WorkspaceInv'
<1> USE DEF BeginLoad, WorkspaceInv
<1>1. ShownOK' BY DEF ShownOK, Coherent, Storable
<1>2. StoredOK' BY DEF StoredOK
<1>3. FallbackFits' BY DEF FallbackFits
<1>4. LastSaveIsCurrent' BY DEF LastSaveIsCurrent
<1>5. QED BY <1>1, <1>2, <1>3, <1>4

LEMMA LoadStoredKeepsInv == ASSUME WorkspaceInv, LoadStored PROVE WorkspaceInv'
<1>1. phase = "loading" /\ disk # None /\ UNCHANGED <<local, disk, legacy, saves, strayed>>
  BY DEF LoadStored
<1>2. Normal(disk) BY <1>1 DEF WorkspaceInv, StoredOK
<1>3. Adopt(disk) BY <1>2, NormalIsFixed DEF LoadStored
<1>4. strayed' \in BOOLEAN /\ Coherent(disk) BY <1>1, <1>2 DEF WorkspaceInv, ShownOK, Normal
<1>5. ShownOK' /\ ws' = disk /\ phase' = "loaded" BY <1>3, <1>4, AdoptShows
<1>6. FallbackFits' /\ NormalizeSnapshot(ws', ws') = ws' BY <1>2, <1>3, NormalFits
<1>7. StoredOK' BY <1>1 DEF WorkspaceInv, StoredOK
<1>8. LastSaveIsCurrent' BY <1>1, <1>5, <1>6 DEF WorkspaceInv, LastSaveIsCurrent
<1>9. QED BY <1>5, <1>6, <1>7, <1>8 DEF WorkspaceInv

LEMMA ImportLegacyKeepsInv == ASSUME WorkspaceInv, NEW failed, ImportLegacy(failed) PROVE WorkspaceInv'
<1> DEFINE snapshot == NormalizeSnapshot(legacy, Fallback(fallback))
<1>1. /\ phase = "loading" /\ legacy # None /\ Adopt(snapshot) /\ disk' = snapshot
      /\ strayed' = (strayed \/ saves # <<>>) /\ UNCHANGED <<local, legacy, saves>>
  BY DEF ImportLegacy
<1>2. Coherent(legacy) BY <1>1 DEF WorkspaceInv, StoredOK
<1>3. /\ GoodTabs(fallback) /\ fallback # <<>> /\ Fallback(fallback).tabs = fallback BY <1>1, FallbackTabs
<1>4. Normal(snapshot) BY <1>2, <1>3, NormalizeIsNormal DEF Coherent
<1> HIDE DEF snapshot
<1>5. strayed' \in BOOLEAN /\ Coherent(snapshot) BY <1>1, <1>4 DEF Normal
<1>6. ShownOK' /\ ws' = snapshot /\ phase' = "loaded" BY <1>1, <1>5, AdoptShows
<1>7. FallbackFits' /\ NormalizeSnapshot(ws', ws') = ws' BY <1>1, <1>4, NormalFits
<1>8. StoredOK' BY <1>1, <1>4 DEF WorkspaceInv, StoredOK
<1>9. LastSaveIsCurrent' BY <1>1, <1>6, <1>7 DEF LastSaveIsCurrent
<1>10. QED BY <1>6, <1>7, <1>8, <1>9 DEF WorkspaceInv

LEMMA ImportMirrorKeepsInv ==
  ASSUME WorkspaceInv, NEW failed \in BOOLEAN, NEW written \in BOOLEAN, ImportMirror(failed, written)
  PROVE  WorkspaceInv'
<1>1. /\ phase = "loading" /\ (disk = None \/ failed)
      /\ strayed' = (strayed \/ saves # <<>> \/ failed) /\ UNCHANGED <<local, legacy>>
  BY DEF ImportMirror
<1>2. /\ GoodTabs(fallback) /\ fallback # <<>> /\ Coherent(Fallback(fallback))
      /\ Fallback(fallback).tabs = fallback
  BY <1>1, FallbackTabs
<1>3. strayed' \in BOOLEAN BY <1>1
<1>4. CASE MirrorEmpty
  <2> DEFINE snapshot == Fallback(fallback)
  <2>1. Adopt(snapshot) /\ UNCHANGED <<disk, saves>> BY <1>4 DEF ImportMirror
  <2> HIDE DEF snapshot
  <2>2. Coherent(snapshot) /\ snapshot.tabs = fallback BY <1>2 DEF snapshot
  <2>3. ShownOK' /\ ws' = snapshot /\ phase' = "loaded" /\ fallback' = <<>>
    BY <1>3, <2>1, <2>2, AdoptShows
  <2>4. Len(fallback) <= TabCap BY <1>4 DEF WorkspaceInv, FallbackFits, MirrorEmpty
  <2>5. TabCap \in Nat /\ Len(<<>>) = 0 BY Caps
  <2>6. FallbackFits' BY <2>2, <2>3, <2>4, <2>5 DEF FallbackFits
  <2>7. StoredOK' BY <1>1, <2>1 DEF WorkspaceInv, StoredOK
  <2>8. LastSaveIsCurrent' BY <1>1, <2>1, <2>3 DEF LastSaveIsCurrent
  <2>9. QED BY <2>3, <2>6, <2>7, <2>8 DEF WorkspaceInv
<1>5. CASE ~MirrorEmpty
  <2> DEFINE mirror == [tabs |-> local.tabs, active |-> local.active, history |-> local.history,
                        favorites |-> local.favorites, migrations |-> local.migrations,
                        audit |-> <<>>, days |-> 7]
             snapshot == NormalizeSnapshot(mirror, Fallback(fallback))
  <2>1. /\ Adopt(snapshot) /\ disk' = (IF written THEN snapshot ELSE disk)
        /\ saves' = Append(saves, NormalizeSnapshot(snapshot, snapshot))
    BY <1>5 DEF ImportMirror
  <2>2. GoodMirror(local) BY <1>5 DEF MirrorEmpty, WorkspaceInv, StoredOK
  <2>3. /\ mirror.tabs = local.tabs /\ mirror.history = local.history
        /\ mirror.favorites = local.favorites /\ mirror.migrations = local.migrations
        /\ mirror.audit = <<>> /\ mirror.days = 7 /\ <<>> \in Seq(BOOLEAN)
    OBVIOUS
  <2> HIDE DEF mirror
  <2>4. Storable(mirror) BY <2>2, <2>3, MirrorFields DEF GoodMirror, Storable
  <2>5. mirror.tabs = <<>> => Len(fallback) <= TabCap BY <2>3 DEF WorkspaceInv, FallbackFits
  <2>6. Normal(snapshot) BY <1>2, <2>4, <2>5, NormalizeIsNormal
  <2> HIDE DEF snapshot
  <2>7. Coherent(snapshot) /\ snapshot \in NormalSnapshot BY <2>6 DEF Normal, Coherent, NormalSnapshot
  <2>8. NormalizeSnapshot(snapshot, snapshot) = snapshot BY <2>6, NormalIsFixed
  <2>9. ShownOK' /\ ws' = snapshot /\ phase' = "loaded" BY <1>3, <2>1, <2>7, AdoptShows
  <2>10. FallbackFits' /\ NormalizeSnapshot(ws', ws') = ws' BY <2>1, <2>6, NormalFits
  <2>11. saves' \in Seq(NormalSnapshot) /\ saves' # <<>> /\ saves'[Len(saves')] = snapshot
    <3>1. saves \in Seq(NormalSnapshot) BY DEF WorkspaceInv, StoredOK, NormalSnapshot
    <3>2. saves' = Append(saves, snapshot) BY <2>1, <2>8
    <3>3. QED BY <2>7, <3>1, <3>2
  <2>12. disk' = None \/ Normal(disk') BY <2>1, <2>6 DEF WorkspaceInv, StoredOK
  <2>13. StoredOK' BY <1>1, <2>11, <2>12 DEF WorkspaceInv, StoredOK, NormalSnapshot
  <2>14. LastSaveIsCurrent' BY <2>9, <2>10, <2>11 DEF LastSaveIsCurrent
  <2>15. QED BY <2>9, <2>10, <2>13, <2>14 DEF WorkspaceInv
<1>6. QED BY <1>4, <1>5

\* An autosave lands or fails; only the oldest may land without a stray.
LEMMA SaveAnswered ==
  ASSUME WorkspaceInv, NEW i, LandSave(i) \/ FailSave(i)
  PROVE  WorkspaceInv'
<1> DEFINE rest == SubSeq(saves, 1, i - 1) \o SubSeq(saves, i + 1, Len(saves))
<1>1. /\ i \in DOMAIN saves /\ saves' = rest /\ (disk' = saves[i] \/ disk' = disk)
      /\ strayed' \in BOOLEAN /\ UNCHANGED <<ws, sql, local, legacy, phase, fallback>>
  BY DEF LandSave, FailSave, WorkspaceInv, ShownOK
<1>2. saves \in Seq(NormalSnapshot) BY DEF WorkspaceInv, StoredOK, NormalSnapshot
<1>3. /\ saves[i] \in NormalSnapshot /\ Len(saves) \in Nat /\ i \in 1..Len(saves)
      /\ saves # <<>>
  BY <1>1, <1>2
<1> HIDE DEF rest
<1>4. /\ rest \in Seq(NormalSnapshot) /\ Len(rest) = Len(saves) - 1
      /\ i < Len(saves) => rest # <<>> /\ rest[Len(rest)] = saves[Len(saves)]
  BY <1>1, <1>2, TakenOut DEF rest
<1>5. disk' = None \/ Normal(disk') BY <1>1, <1>3 DEF WorkspaceInv, StoredOK, NormalSnapshot
<1>6. StoredOK' BY <1>1, <1>4, <1>5 DEF WorkspaceInv, StoredOK, NormalSnapshot
<1>7. ShownOK' BY <1>1 DEF WorkspaceInv, ShownOK
<1>8. FallbackFits' BY <1>1 DEF WorkspaceInv, FallbackFits
<1>9. LastSaveIsCurrent'
  <2>1. SUFFICES ASSUME ~strayed' PROVE LastSaveIsCurrent' BY DEF LastSaveIsCurrent
  <2>2. LandSave(i) BY <2>1 DEF FailSave
  <2>3. disk' = saves[i] /\ ~strayed /\ i = 1 /\ phase = "loaded" BY <2>1, <2>2 DEF LandSave
  <2>4. saves[Len(saves)] = NormalizeSnapshot(ws, ws)
    BY <1>3, <2>3 DEF WorkspaceInv, LastSaveIsCurrent
  <2>5. CASE Len(saves) = 1
    <3>1. saves' = <<>> BY <1>1, <1>4, <2>5, EmptySeq
    <3>2. disk' = NormalizeSnapshot(ws', ws') BY <1>1, <2>3, <2>4, <2>5
    <3>3. QED BY <3>1, <3>2 DEF LastSaveIsCurrent
  <2>6. CASE Len(saves) # 1
    <3>1. saves' # <<>> /\ saves'[Len(saves')] = saves[Len(saves)] BY <1>1, <1>3, <1>4, <2>3, <2>6
    <3>2. QED BY <1>1, <2>3, <2>4, <3>1 DEF LastSaveIsCurrent
  <2>7. QED BY <2>5, <2>6
<1>10. QED BY <1>6, <1>7, <1>8, <1>9 DEF WorkspaceInv

THEOREM WorkspaceInvHolds == WorkspaceSpec => []WorkspaceInv
<1>1. WorkspaceInv /\ [WorkspaceNext]_workspaceVars => WorkspaceInv'
  <2> SUFFICES ASSUME WorkspaceInv, [WorkspaceNext]_workspaceVars PROVE WorkspaceInv' OBVIOUS
  <2>1. CASE UNCHANGED workspaceVars
    BY <2>1 DEF workspaceVars, WorkspaceInv, StoredOK, ShownOK, FallbackFits, LastSaveIsCurrent
  <2>2. CASE TabHandlers
    BY <2>2, SetSqlKeepsInv, NewQueryKeepsInv, ReplaceSampleKeepsInv, SelectQueryKeepsInv,
       CloseQueryKeepsInv DEF TabHandlers
  <2>3. CASE QueryHandlers \/ RecordHandlers BY <2>3, QueryHandlersKeepInv, RecordHandlersKeepInv
  <2>4. CASE Storage
    BY <2>4, BeginLoadKeepsInv, LoadStoredKeepsInv, ImportLegacyKeepsInv, ImportMirrorKeepsInv,
       SaveAnswered DEF Storage
  <2>5. CASE Restart BY <2>5, RestartKeepsInv
  <2>6. QED BY <2>1, <2>2, <2>3, <2>4, <2>5 DEF WorkspaceNext, User
<1>2. QED BY WorkspaceInitInv, <1>1, PTL DEF WorkspaceSpec

\* For any number of tabs and statements and any caps, through every restart
\* and every source a workspace is restored from: the active tab is open and its
\* text is in the editor, no two tabs share an identity, no statement is listed
\* twice, and nothing is audited without retention (store.ts).
THEOREM WorkspaceCoherentHolds == WorkspaceSpec => []WorkspaceCoherent
<1>1. WorkspaceInv => WorkspaceCoherent
  <2> SUFFICES ASSUME WorkspaceInv PROVE WorkspaceCoherent OBVIOUS
  <2>1. Coherent(ws) /\ Storable(ws) /\ sql = ShowActive(ws) BY DEF WorkspaceInv, ShownOK, Coherent
  <2>2. Cardinality(Open(ws.tabs)) = Len(ws.tabs) BY <2>1, OpenCardinality DEF Storable
  <2>3. /\ Cardinality(Entries(ws.history)) = Len(ws.history)
        /\ Cardinality(Entries(ws.favorites)) = Len(ws.favorites)
    BY <2>1, DistinctCardinality DEF Storable
  <2>4. QED BY <2>1, <2>2, <2>3 DEF WorkspaceCoherent, Coherent, Storable
<1>2. QED BY WorkspaceInvHolds, <1>1, PTL

\* However many autosaves are in flight: once all of them landed in order, the
\* database holds what the window shows, up to the caps (persistWorkspaceState).
THEOREM AutosaveIsCompleteHolds == WorkspaceSpec => []AutosaveIsComplete
<1>1. WorkspaceInv => AutosaveIsComplete
  BY DEF WorkspaceInv, LastSaveIsCurrent, AutosaveIsComplete
<1>2. QED BY WorkspaceInvHolds, <1>1, PTL
=============================================================================
