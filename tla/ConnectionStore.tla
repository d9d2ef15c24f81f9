--------------------------- MODULE ConnectionStore ---------------------------
(***************************************************************************)
(* Connecting, replacing and probing database connections: connectDatabase,*)
(* testDatabaseConnection, inspectConnectionMetadata, loadMetadata and     *)
(* runQuery of the store, the driver objects they create, and the native   *)
(* DriverRegistry with its SSH tunnels.                                    *)
(*                                                                         *)
(* A Driver is one driver object of the renderer and the connection it     *)
(* asks for; a Job is a use of the current driver that first awaits        *)
(* driverReady.  JavaScript runs a reply's continuations to the next await *)
(* without interruption, so a settled promise and all that awaits it are   *)
(* one step.                                                               *)
(***************************************************************************)
EXTENDS Naturals

CONSTANTS
  Driver,
  First,     \* the one created with the store
  Pooled,    \* sqlx drivers: close waits for what is running, and succeeds
  Tunnelled, \* those that ask for an SSH tunnel
  Load,      \* concurrent calls of loadMetadata
  Query      \* the query runQuery runs: one at a time

Job == Load \cup {Query}

ASSUME DriversAreKnown ==
  /\ First \in Driver
  /\ Pooled \cup Tunnelled \subseteq Driver
ASSUME QueryIsNoLoad == Query \notin Load

VARIABLES
  probing,    \* drivers of testDatabaseConnection and inspectConnectionMetadata
  flow,       \* the await each driver object's call is at
  reply,      \* the reply to the command that call awaits
  promise,    \* what its connect promise is
  hasId,      \* driver objects that know a connection id
  replaces,   \* the driver a "replacing" call disconnects
  current,    \* the store's driver
  ready,      \* the driver object driverReady belongs to
  status,     \* the store's connectionStatus
  at, on,     \* where each job is, and the driver it awaits or uses
  native,     \* the connection in the registry
  closer,     \* the call whose disconnect closes it
  tunnels,    \* the registry's tunnels
  ssh         \* live ssh processes

callVars == <<probing, flow, reply, promise, hasId, replaces>>
storeVars == <<current, ready, status>>
jobVars == <<at, on>>
nativeVars == <<native, closer, tunnels, ssh>>
vars == <<callVars, storeVars, jobVars, nativeVars>>

\* DriverRegistry::connections
connections == {d \in Driver : native[d] = "open"}

Init ==
  /\ probing = {}
  /\ flow = [d \in Driver |-> IF d = First THEN "connecting" ELSE "idle"]
  /\ reply = [d \in Driver |-> "none"]
  /\ promise = [d \in Driver |-> IF d = First THEN "pending" ELSE "none"]
  /\ hasId = {}
  /\ replaces = [d \in Driver |-> d]
  /\ current = First /\ ready = First
  /\ status = "connecting"
  /\ at = [j \in Job |-> "idle"] /\ on = [j \in Job |-> First]
  /\ native = [d \in Driver |-> IF d = First THEN "requested" ELSE "none"]
  /\ closer = [d \in Driver |-> d]
  /\ tunnels = {} /\ ssh = {}

-----------------------------------------------------------------------------
(* The driver objects' calls                                               *)

Goto(d, place) ==
  /\ flow' = [flow EXCEPT ![d] = place]
  /\ reply' = [reply EXCEPT ![d] = "none"]

Answer(d, value) == reply' = [reply EXCEPT ![d] = value]

\* The driver object is one of connectDatabase.
Replaces(d) == d \notin probing \cup {First}

Waiting(j, d) == at[j] = "waiting" /\ on[j] = d

\* connect settles; a job that awaited it goes on with the store's driver.
\* A load that cannot go on and a refused replacement show the error.
Settle(d, value) ==
  LET goesOn == value = "resolved" /\ current \in hasId' IN
  /\ promise' = [promise EXCEPT ![d] = value]
  /\ at' = [j \in Job |->
       IF ~Waiting(j, d) THEN at[j] ELSE IF goesOn THEN "sent" ELSE "idle"]
  /\ on' = [j \in Job |-> IF Waiting(j, d) THEN current ELSE on[j]]
  /\ status' = IF \/ ~goesOn /\ \E j \in Load : Waiting(j, d)
                  \/ value = "rejected" /\ Replaces(d)
               THEN "error" ELSE status

Request(d) ==
  /\ flow[d] = "idle"
  /\ Goto(d, "connecting")
  /\ promise' = [promise EXCEPT ![d] = "pending"]
  /\ native' = [native EXCEPT ![d] = "requested"]
  /\ UNCHANGED <<hasId, replaces, closer, tunnels, ssh>>

\* The dialog's button is disabled while the status is "connecting".
ConnectDatabase(d) ==
  /\ status # "connecting"
  /\ Request(d)
  /\ status' = "connecting" /\ ready' = d
  /\ UNCHANGED <<probing, current, jobVars>>

ProbeConnection(d) ==
  /\ Request(d)
  /\ probing' = probing \cup {d}
  /\ UNCHANGED <<storeVars, jobVars>>

Connected(d) ==
  /\ flow[d] = "connecting" /\ reply[d] = "ok"
  /\ hasId' = hasId \cup {d}
  /\ Settle(d, "resolved")
  /\ Goto(d, IF d = First THEN "settled" ELSE "loading")
  /\ UNCHANGED <<probing, replaces, current, ready, nativeVars>>

\* disconnect of a driver object without a connection id does nothing.
Refused(d) ==
  /\ flow[d] = "connecting" /\ reply[d] = "error"
  /\ UNCHANGED hasId
  /\ Settle(d, "rejected")
  /\ Goto(d, "settled")
  /\ UNCHANGED <<probing, replaces, current, ready, nativeVars>>

\* set({ driver: nextDriver, ... })
Install(d) ==
  /\ current' = d /\ status' = "connected"
  /\ Goto(d, "settled")
  /\ UNCHANGED ready

MetadataLoaded(d) ==
  /\ flow[d] = "loading" /\ reply[d] = "ok" /\ Replaces(d)
  /\ \/ /\ current \in hasId
        /\ replaces' = [replaces EXCEPT ![d] = current]
        /\ Goto(d, "replacing") /\ UNCHANGED storeVars
     \/ current \notin hasId /\ Install(d) /\ UNCHANGED replaces
  /\ UNCHANGED <<probing, promise, hasId, jobVars, nativeVars>>

\* A failure, or a probe that is done.
MustGiveUp(d) ==
  \/ flow[d] \in {"loading", "replacing"} /\ reply[d] = "error"
  \/ flow[d] = "loading" /\ reply[d] = "ok" /\ d \in probing

\* Mutant: the failed replacement is not disconnected.
GiveUpWithoutDisconnect(d) ==
  /\ MustGiveUp(d)
  /\ Goto(d, "settled")
  /\ status' = IF Replaces(d) THEN "error" ELSE status
  /\ UNCHANGED <<probing, promise, hasId, replaces, current, ready, jobVars, nativeVars>>

\* catch and finally: the call disconnects its own driver.
GiveUp(d) ==
  /\ MustGiveUp(d)
  /\ Goto(d, "closing")
  /\ UNCHANGED <<probing, promise, hasId, replaces, storeVars, jobVars, nativeVars>>

Replaced(d) ==
  /\ flow[d] = "replacing" /\ reply[d] = "ok"
  /\ hasId' = hasId \ {replaces[d]}
  /\ Install(d)
  /\ UNCHANGED <<probing, promise, replaces, jobVars, nativeVars>>

\* An error of this disconnect is swallowed.
Closed(d) ==
  /\ flow[d] = "closing" /\ reply[d] # "none"
  /\ hasId' = IF reply[d] = "ok" THEN hasId \ {d} ELSE hasId
  /\ status' = IF Replaces(d) THEN "error" ELSE status
  /\ Goto(d, "settled")
  /\ UNCHANGED <<probing, promise, replaces, current, ready, jobVars, nativeVars>>

-----------------------------------------------------------------------------
(* loadMetadata and runQuery                                               *)

Step(j, place) == at' = [at EXCEPT ![j] = place] /\ UNCHANGED on

Start(j) ==
  /\ at[j] = "idle"
  /\ CASE promise[ready] = "pending" ->
            /\ at' = [at EXCEPT ![j] = "waiting"] /\ on' = [on EXCEPT ![j] = ready]
            /\ UNCHANGED status
       [] promise[ready] = "resolved" /\ current \in hasId ->
            /\ at' = [at EXCEPT ![j] = "sent"] /\ on' = [on EXCEPT ![j] = current]
            /\ UNCHANGED status
       [] OTHER ->
            /\ j \in Load /\ status' = "error" /\ UNCHANGED jobVars
  /\ UNCHANGED <<callVars, current, ready, nativeVars>>

ServeJob(j) ==
  /\ at[j] = "sent"
  /\ Step(j, IF on[j] \in connections THEN "served" ELSE "failed")
  /\ UNCHANGED <<callVars, storeVars, nativeVars>>

JobEnds(j) ==
  /\ at[j] = "served"
  /\ \E end \in {"done", "failed"} : Step(j, end)
  /\ UNCHANGED <<callVars, storeVars, nativeVars>>

JobAnswered(j) ==
  /\ at[j] \in {"done", "failed"}
  /\ Step(j, "idle")
  /\ status' = CASE at[j] = "done" -> "connected"
                 [] at[j] = "failed" /\ j \in Load -> "error"
                 [] OTHER -> status
  /\ UNCHANGED <<callVars, current, ready, nativeVars>>

-----------------------------------------------------------------------------
(* DriverRegistry and SshTunnel                                            *)

Native(d, stage) == native' = [native EXCEPT ![d] = stage]
nonNativeVars == <<probing, flow, promise, hasId, replaces, storeVars, jobVars>>

StartTunnel(d) ==
  /\ native[d] = "requested" /\ d \in Tunnelled
  /\ Native(d, "forwarding")
  /\ ssh' = ssh \cup {d}
  /\ UNCHANGED <<nonNativeVars, reply, closer, tunnels>>

\* A configuration is refused, ssh exits, or the local port stays closed for
\* STARTUP_TIMEOUT: the process is killed.
TunnelFails(d) ==
  /\ native[d] \in {"requested", "forwarding"} /\ d \in Tunnelled
  /\ Native(d, "gone")
  /\ ssh' = ssh \ {d}
  /\ Answer(d, "error")
  /\ UNCHANGED <<nonNativeVars, closer, tunnels>>

\* The tunnel, if any, forwards its port: the driver connects.
CanOpen(d) == native[d] = IF d \in Tunnelled THEN "forwarding" ELSE "requested"

\* The driver's error returns from connect at once: nothing stops the tunnel.
OpenFails(d) ==
  /\ CanOpen(d)
  /\ Native(d, "gone")
  /\ Answer(d, "error")
  /\ UNCHANGED <<nonNativeVars, closer, tunnels, ssh>>

\* Mutant: the tunnel is not handed to the registry.
OpenedWithoutTunnel(d) ==
  /\ CanOpen(d)
  /\ Native(d, "open")
  /\ Answer(d, "ok")
  /\ UNCHANGED <<nonNativeVars, closer, tunnels, ssh>>

Opened(d) ==
  /\ CanOpen(d)
  /\ Native(d, "open")
  /\ tunnels' = tunnels \cup (Tunnelled \cap {d})
  /\ Answer(d, "ok")
  /\ UNCHANGED <<nonNativeVars, closer, ssh>>

ServeMetadata(d) ==
  /\ flow[d] = "loading" /\ reply[d] = "none"
  /\ \/ d \in connections /\ Answer(d, "ok")
     \/ Answer(d, "error")
  /\ UNCHANGED <<nonNativeVars, nativeVars>>

\* Mutant: a failed call disconnects the store's driver.
TargetIsCurrent(d) == IF flow[d] = "closing" THEN current ELSE replaces[d]

\* The connection whose disconnect a call awaits.
Target(d) == IF flow[d] = "closing" THEN d ELSE replaces[d]

Disconnecting(d) ==
  /\ flow[d] \in {"closing", "replacing"} /\ reply[d] = "none"
  /\ ~(native[Target(d)] = "closing" /\ closer[Target(d)] = d)

\* Mutant: a disconnect of an unknown connection is never answered.
ServeDisconnectKnown(d) ==
  /\ Disconnecting(d)
  /\ Target(d) \in connections
  /\ Native(Target(d), "closing")
  /\ closer' = [closer EXCEPT ![Target(d)] = d]
  /\ UNCHANGED <<nonNativeVars, reply, tunnels, ssh>>

ServeDisconnect(d) ==
  /\ Disconnecting(d)
  /\ \/ /\ Target(d) \in connections
        /\ Native(Target(d), "closing")
        /\ closer' = [closer EXCEPT ![Target(d)] = d]
        /\ UNCHANGED reply
     \/ /\ Target(d) \notin connections
        /\ Answer(d, "error") /\ UNCHANGED <<native, closer>>
  /\ UNCHANGED <<nonNativeVars, tunnels, ssh>>

InUse(d) == \E j \in Job : at[j] = "served" /\ on[j] = d

\* Mutant: the registry keeps the tunnel it has stopped.
DriverClosedKeepsTunnel(d) ==
  /\ native[d] = "closing" /\ (d \in Pooled => ~InUse(d))
  /\ Native(d, "gone")
  /\ ssh' = ssh \ (tunnels \cap {d})
  /\ Answer(closer[d], "ok")
  /\ UNCHANGED <<nonNativeVars, closer, tunnels>>

\* driver.disconnect() returned, with an error perhaps; the tunnel stops.
DriverClosed(d) ==
  /\ native[d] = "closing" /\ (d \in Pooled => ~InUse(d))
  /\ Native(d, "gone")
  /\ tunnels' = tunnels \ {d} /\ ssh' = ssh \ (tunnels \cap {d})
  /\ \/ Answer(closer[d], "ok")
     \/ d \notin Pooled /\ Answer(closer[d], "error")
  /\ UNCHANGED <<nonNativeVars, closer>>

-----------------------------------------------------------------------------
Renderer(d) ==
  \/ Connected(d) \/ Refused(d) \/ MetadataLoaded(d) \/ GiveUp(d) \/ Replaced(d) \/ Closed(d)

Registry(d) ==
  \/ StartTunnel(d) \/ TunnelFails(d) \/ OpenFails(d) \/ Opened(d)
  \/ ServeMetadata(d) \/ ServeDisconnect(d) \/ DriverClosed(d)

JobStep(j) == ServeJob(j) \/ JobEnds(j) \/ JobAnswered(j)

Next ==
  \/ \E d \in Driver : ConnectDatabase(d) \/ ProbeConnection(d) \/ Renderer(d) \/ Registry(d)
  \/ \E j \in Job : Start(j) \/ JobStep(j)

Spec == Init /\ [][Next]_vars

\* Replies are handled, connection attempts end (the drivers' acquire and the
\* tunnel's startup have timeouts), and so do queries.
FairSpec ==
  /\ Spec
  /\ \A d \in Driver : WF_vars(Renderer(d)) /\ WF_vars(Registry(d)) /\ WF_vars(DriverClosed(d))
  /\ \A j \in Job : WF_vars(JobStep(j))

-----------------------------------------------------------------------------
(* Properties                                                              *)

\* The variables range over the places and stages of the code, and the
\* registry's tunnels are live processes.
TypeOK ==
  /\ flow \in [Driver -> {"idle", "connecting", "loading", "replacing", "closing", "settled"}]
  /\ reply \in [Driver -> {"none", "ok", "error"}]
  /\ promise \in [Driver -> {"none", "pending", "resolved", "rejected"}]
  /\ hasId \subseteq Driver
  /\ replaces \in [Driver -> Driver]
  /\ {current, ready} \subseteq Driver \ probing
  /\ probing \subseteq Driver \ {First}
  /\ status \in {"connecting", "connected", "error"}
  /\ at \in [Job -> {"idle", "waiting", "sent", "served", "done", "failed"}]
  /\ on \in [Job -> Driver]
  /\ native \in [Driver -> {"none", "requested", "forwarding", "open", "closing", "gone"}]
  /\ closer \in [Driver -> Driver]
  /\ tunnels \subseteq ssh /\ ssh \subseteq Tunnelled

\* A connection in the registry is the store's or belongs to a call still in
\* progress: neither overlapping replacements, nor failures, nor probes leave
\* one open that nothing can close.
NoConnectionLeak ==
  \A d \in connections : d = current \/ flow[d] # "settled"

\* The store's connection stays in the registry until a replacement whose own
\* connection and metadata have loaded asks for its end.
PriorStaysConnected ==
  current \in Pooled /\ promise[current] = "resolved" /\ current \notin connections =>
    \E d \in Driver \ probing :
      /\ flow[d] = "replacing" /\ replaces[d] = current
      /\ promise[d] = "resolved" /\ d \in connections

\* The tunnel of a connection that was established ends with it.
TunnelEndsWithConnection ==
  \A d \in ssh : native[d] = "gone" => promise[d] # "resolved"

\* A connection attempt ends, and the Connect button is offered again.
ConnectSettles ==
  \A d \in Driver : flow[d] = "connecting" ~> flow[d] = "settled"

=============================================================================
