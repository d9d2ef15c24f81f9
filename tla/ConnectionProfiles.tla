-------------------------- MODULE ConnectionProfiles --------------------------
(***************************************************************************)
(* Saved connection profiles: the list in the application store, its table *)
(* in workspace.sqlite (connectionProfiles.ts), the passwords in the       *)
(* operating system's keychain (connectionSecrets.ts) and the handlers of  *)
(* the connection dialog (App.tsx) that keep the two together.             *)
(*                                                                         *)
(* A handler is a sequence of awaits: every action below ends at one, the  *)
(* window may end between any two, and any native command may fail.  The   *)
(* dialog's user waits for one handler before the next, except that the    *)
(* password of a chosen profile arrives when it arrives.  A handler works  *)
(* with the form its click saw, not with what the form holds meanwhile.    *)
(***************************************************************************)
EXTENDS Integers, Sequences, FiniteSets, Lists

CONSTANTS
  Ids,          \* identities of profiles (random UUIDs in the code)
  NoProfile,    \* null
  MaxProfiles,  \* normalizeConnectionProfiles keeps so many
  MaxListed       \* bound: profiles in memory

\* A profile is its id and its passwordStored marker.
ConnectionProfile == [id : Ids, marked : BOOLEAN]

ASSUME ProfilesAssumption ==
  /\ NoProfile \notin Ids \cup Seq(ConnectionProfile)
  /\ MaxProfiles \in Nat \ {0} /\ MaxListed \in Nat

VARIABLES
  list,      \* connectionProfiles of the store
  stored,    \* the profiles table, NoProfile when there is no row
  imported,  \* the legacy JSON file: a list, or NoProfile
  keychain,  \* the ids that have a password there
  form,      \* the dialog: active profile, a password is typed, remember it
  fetching,  \* profiles whose password is being loaded into the form
  task,      \* the handler in progress, with what it captured at its click
  forgotten  \* profiles that left the table though nobody deleted them

profileVars == <<list, stored, imported, keychain, form, fetching, task, forgotten>>

IdsOf(profiles) == {profiles[i].id : i \in DOMAIN profiles}
NewProfile == [id |-> NoProfile, typed |-> FALSE, remember |-> FALSE]
Idle == [step |-> "idle", profile |-> NoProfile, profiles |-> <<>>, captured |-> FALSE]

\* normalizeConnectionProfiles of well-formed profiles.
NormalizeConnectionProfiles(profiles) == Take(profiles, MaxProfiles)

ProfilesInit ==
  /\ list = <<>> /\ stored = NoProfile
  /\ imported \in {NoProfile} \cup {<<[id |-> id, marked |-> FALSE]>> : id \in Ids}
  /\ keychain = {} /\ form = NewProfile /\ fetching = {}
  /\ task = [Idle EXCEPT !.step = "load"] /\ forgotten = {}

StoredIds == IF stored = NoProfile THEN {} ELSE IdsOf(stored)

\* The window ends between two steps; the next one loads the profiles.
ProfilesRestart ==
  /\ list' = <<>> /\ form' = NewProfile /\ fetching' = {}
  /\ task' = [Idle EXCEPT !.step = "load"]
  /\ UNCHANGED <<stored, imported, keychain, forgotten>>

-----------------------------------------------------------------------------
(* loadConnectionProfiles.                                                 *)

LoadStoredProfiles ==
  /\ task.step = "load" /\ stored # NoProfile
  /\ list' = NormalizeConnectionProfiles(stored) /\ task' = Idle
  /\ UNCHANGED <<stored, imported, keychain, form, fetching, forgotten>>

\* The command fails or finds nothing: the JSON file is read and saved.
LoadLegacyProfiles ==
  /\ task.step = "load" /\ imported # NoProfile
  /\ list' = NormalizeConnectionProfiles(imported) /\ stored' = list' /\ task' = Idle
  /\ forgotten' = forgotten \cup (StoredIds \ IdsOf(stored'))
  /\ UNCHANGED <<imported, keychain, form, fetching>>

LoadNoProfiles ==
  /\ task.step = "load"
  /\ list' = <<>> /\ task' = Idle
  /\ UNCHANGED <<stored, imported, keychain, form, fetching, forgotten>>

-----------------------------------------------------------------------------
(* saveConnectionProfile and deleteConnectionProfile of the store read the *)
(* list, wait for the table and set the list.                              *)

Others(id) == Only(list, {p \in Entries(list) : p.id # id})
Saved(profile) == <<profile>> \o Others(profile.id)

\* The table is written; a list that fell short forgets profiles.
WriteTable(profiles, deleted) ==
  /\ stored' = NormalizeConnectionProfiles(profiles)
  /\ forgotten' = (forgotten \cup (StoredIds \ IdsOf(stored'))) \ (deleted \cup IdsOf(stored'))

\* handleSaveProfile: first the profile without its marker.
BeginSave ==
  /\ task = Idle
  /\ \E id \in Ids :
       /\ IF form.id # NoProfile THEN id = form.id ELSE id \notin IdsOf(list) \cup StoredIds \cup keychain
       /\ Len(Saved([id |-> id, marked |-> FALSE])) <= MaxListed
       /\ task' = [step |-> "saveUnmarked", profile |-> [id |-> id, marked |-> FALSE],
                   profiles |-> Saved([id |-> id, marked |-> FALSE]),
                   captured |-> form.remember /\ form.typed]
  /\ UNCHANGED <<list, stored, imported, keychain, form, fetching, forgotten>>

\* Mutant: the password is stored before the profile is in the table.
SaveSecretFirst ==
  /\ task.step = "saveUnmarked"
  /\ task' = [task EXCEPT !.step = IF task.captured THEN "savePassword" ELSE "dropPassword"]
  /\ UNCHANGED <<list, stored, imported, keychain, form, fetching, forgotten>>

SaveUnmarked ==
  /\ task.step = "saveUnmarked"
  /\ WriteTable(task.profiles, {}) /\ list' = task.profiles
  /\ task' = [task EXCEPT !.step = IF task.captured THEN "savePassword" ELSE "dropPassword"]
  /\ UNCHANGED <<imported, keychain, form, fetching>>

SavePassword ==
  /\ task.step = "savePassword"
  /\ keychain' = keychain \cup {task.profile.id}
  /\ task' = [task EXCEPT !.step = "saveMarked", !.profile.marked = TRUE,
                          !.profiles = Saved([task.profile EXCEPT !.marked = TRUE])]
  /\ UNCHANGED <<list, stored, imported, form, fetching, forgotten>>

SaveMarked ==
  /\ task.step = "saveMarked"
  /\ WriteTable(task.profiles, {}) /\ list' = task.profiles
  /\ form' = [form EXCEPT !.id = task.profile.id] /\ task' = Idle
  /\ UNCHANGED <<imported, keychain, fetching>>

\* Not remembered: deleteConnectionPassword.
DropPassword ==
  /\ task.step = "dropPassword"
  /\ keychain' = keychain \ {task.profile.id}
  /\ form' = [form EXCEPT !.id = task.profile.id] /\ task' = Idle
  /\ UNCHANGED <<list, stored, imported, fetching, forgotten>>

\* onDeleteProfile: the keychain entry goes first, then the profile.
BeginDelete(id) ==
  /\ task = Idle /\ id \in IdsOf(list)
  /\ task' = [Idle EXCEPT !.step = "deletePassword", !.profile = [id |-> id, marked |-> FALSE],
                          !.captured = form.id = id]
  /\ UNCHANGED <<list, stored, imported, keychain, form, fetching, forgotten>>

DeletePassword ==
  /\ task.step = "deletePassword"
  /\ keychain' = keychain \ {task.profile.id}
  /\ task' = [task EXCEPT !.step = "deleteProfile", !.profiles = Others(task.profile.id)]
  /\ UNCHANGED <<list, stored, imported, form, fetching, forgotten>>

DeleteProfile ==
  /\ task.step = "deleteProfile"
  /\ WriteTable(task.profiles, {task.profile.id}) /\ list' = task.profiles
  /\ form' = IF task.captured THEN NewProfile ELSE form
  /\ task' = Idle
  /\ UNCHANGED <<imported, keychain, fetching>>

\* duplicateConnectionProfile: a copy without a password.
BeginDuplicate(id) ==
  /\ task = Idle /\ id \in IdsOf(list)
  /\ \E copy \in Ids \ (IdsOf(list) \cup StoredIds \cup keychain) :
       /\ Len(list) < MaxListed
       /\ task' = [Idle EXCEPT !.step = "duplicate", !.profile = [id |-> copy, marked |-> FALSE],
                               !.profiles = Saved([id |-> copy, marked |-> FALSE])]
  /\ UNCHANGED <<list, stored, imported, keychain, form, fetching, forgotten>>

Duplicate ==
  /\ task.step = "duplicate"
  /\ WriteTable(task.profiles, {}) /\ list' = task.profiles
  /\ form' = [id |-> task.profile.id, typed |-> FALSE, remember |-> FALSE] /\ task' = Idle
  /\ UNCHANGED <<imported, keychain, fetching>>

\* A native command fails: the handler stops where it is.
FailTask ==
  /\ task.step \notin {"idle", "load"} /\ task' = Idle
  /\ UNCHANGED <<list, stored, imported, keychain, form, fetching, forgotten>>

-----------------------------------------------------------------------------
(* The dialog.                                                             *)

\* applyProfile up to its await; an unmarked profile has nothing to load.
ApplyProfile(profile) ==
  /\ form' = [id |-> profile.id, typed |-> FALSE, remember |-> profile.marked]
  /\ fetching' = IF profile.marked THEN fetching \cup {profile.id} ELSE fetching
  /\ UNCHANGED <<list, stored, imported, keychain, task, forgotten>>

\* The password arrives, in whatever the form shows by now.
PasswordArrives(id) ==
  /\ id \in fetching /\ fetching' = fetching \ {id}
  /\ form' = [form EXCEPT !.typed = id \in keychain]
  /\ UNCHANGED <<list, stored, imported, keychain, task, forgotten>>

StartNewProfile ==
  /\ form # NewProfile /\ form' = NewProfile
  /\ UNCHANGED <<list, stored, imported, keychain, fetching, task, forgotten>>

TypePassword(remember) ==
  /\ form' = [form EXCEPT !.typed = TRUE, !.remember = remember]
  /\ UNCHANGED <<list, stored, imported, keychain, fetching, task, forgotten>>

ProfilesNext ==
  \/ LoadStoredProfiles \/ LoadLegacyProfiles \/ LoadNoProfiles
  \/ BeginSave \/ SaveUnmarked \/ SavePassword \/ SaveMarked \/ DropPassword
  \/ \E id \in Ids : BeginDelete(id) \/ BeginDuplicate(id) \/ PasswordArrives(id)
  \/ DeletePassword \/ DeleteProfile \/ Duplicate \/ FailTask
  \/ \E i \in DOMAIN list : ApplyProfile(list[i])
  \/ StartNewProfile \/ \E remember \in BOOLEAN : TypePassword(remember)
  \/ ProfilesRestart

ProfilesSpec == ProfilesInit /\ [][ProfilesNext]_profileVars

-----------------------------------------------------------------------------
\* A password outlives its profile in the keychain only when the profile was
\* pushed off the capped list, or a failed load had the list start over: no
\* save stores a password before its profile is in the table, and no delete
\* takes the profile while the password is there, wherever the handler is
\* interrupted (App.tsx, handleSaveProfile and onDeleteProfile).
NoOrphanSecret == keychain \subseteq StoredIds \cup forgotten
=============================================================================
