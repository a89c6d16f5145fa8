---------------------------- MODULE TunnelManager ---------------------------
(***************************************************************************)
(* The registry of tunnels (server/tunnel-manager.js), seen from the       *)
(* handlers that use it: POST /api/tunnels (server/router.js), the control *)
(* upgrade (server/control-upgrade.js), the admin event streams            *)
(* (server/admin/router.js, server/admin/event-log.js) and the shutdown    *)
(* (server/index.js).                                                      *)
(*                                                                         *)
(* Binding the data port resolves or rejects on the next-tick queue, which *)
(* Node.js drains before the next request is read: createTunnel, its await *)
(* included, is one action.                                                *)
(***************************************************************************)
EXTENDS Naturals

CONSTANTS
  Tokens,       \* session tokens of the clients
  Ids,          \* tunnel ids (subdomains)
  TunnelPorts,  \* tunnelPortStart..tunnelPortEnd; {} when the OS assigns the ports
  MaxLogs,      \* bound: event logs ever created under one id
  None          \* null

ASSUME TunnelManagerAssumption ==
  /\ TunnelPorts \subseteq Nat \ {0}
  /\ MaxLogs \in Nat
  /\ None \notin Tokens \cup Ids \cup Nat

VARIABLES
  tunnels,       \* _tunnels: the session token of the tunnel under each id
  reservations,  \* _reservations
  port,          \* the port createTunnel allocated to each tunnel
  usedPorts,     \* _usedPorts
  listening,     \* ids of the tunnels whose data listener is up
  granted,       \* per client: the tunnel id of its last 200 answer
  attached,      \* per tunnel: the token its control session presented
  logs,          \* _eventLogs: the log under each id, by number; 0 when there is none
  tunnelLog,     \* the log each tunnel writes to
  created,       \* how many logs were created under each id
  watched,       \* logs an admin's event stream is subscribed to
  cleanups,      \* 5 s timers of closed tunnels still ticking, named by the tunnel's log
  exiting        \* the shutdown ran; process.exit follows in 500 ms

registryVars == <<tunnels, reservations, port, usedPorts, listening>>
logVars      == <<logs, tunnelLog, created, watched, cleanups>>
vars == <<registryVars, granted, attached, logVars, exiting>>

Logs == Ids \X (1..MaxLogs)

TypeOK ==
  /\ tunnels \in [Ids -> Tokens \cup {None}]
  /\ reservations \in [Tokens -> Ids \cup {None}]
  /\ port \in [Ids -> TunnelPorts \cup {0, None}]
  /\ usedPorts \subseteq TunnelPorts
  /\ listening \subseteq Ids
  /\ granted \in [Tokens -> Ids \cup {None}]
  /\ attached \in [Ids -> Tokens \cup {None}]
  /\ logs \in [Ids -> 0..MaxLogs]
  /\ tunnelLog \in [Ids -> 0..MaxLogs]
  /\ created \in [Ids -> 0..MaxLogs]
  /\ watched \subseteq Logs
  /\ cleanups \subseteq Ids \X (0..MaxLogs)
  /\ exiting \in BOOLEAN

Init ==
  /\ tunnels = [i \in Ids |-> None]
  /\ reservations = [t \in Tokens |-> None]
  /\ port = [i \in Ids |-> None]
  /\ usedPorts = {}
  /\ listening = {}
  /\ granted = [t \in Tokens |-> None]
  /\ attached = [i \in Ids |-> None]
  /\ logs = [i \in Ids |-> 0]
  /\ tunnelLog = [i \in Ids |-> 0]
  /\ created = [i \in Ids |-> 0]
  /\ watched = {}
  /\ cleanups = {}
  /\ exiting = FALSE

-----------------------------------------------------------------------------
(* Creating and reclaiming.                                                *)

Live(i) == tunnels[i] # None

\* The reservation of t leads to a tunnel that still exists.
ReservedAlive(t) == reservations[t] # None /\ Live(reservations[t])

FreePortsOffByOne ==
  IF TunnelPorts = {} THEN {0} ELSE {p + 1 : p \in TunnelPorts} \ usedPorts

\* What _allocatePort chooses the first of; when nothing is left it throws
\* NoPortsAvailableError.
FreePorts == IF TunnelPorts = {} THEN {0} ELSE TunnelPorts \ usedPorts

IdsForIgnoringHolder(wanted) == IF wanted = None THEN {i \in Ids : ~Live(i)} ELSE {wanted}

\* The ids a new tunnel may get: the wanted one unless it is taken, or a generated free one.
IdsFor(wanted) == {i \in Ids : ~Live(i) /\ wanted \in {None, i}}

ReclaimWanted(t, wanted) ==
  /\ ReservedAlive(t)
  /\ granted' = [granted EXCEPT ![t] = IF wanted = None THEN reservations[t] ELSE wanted]
  /\ UNCHANGED <<registryVars, attached, logVars, exiting>>

\* A session that has a tunnel gets it again, whatever subdomain it asks for.
Reclaim(t, wanted) ==
  /\ ReservedAlive(t)
  /\ granted' = [granted EXCEPT ![t] = reservations[t]]
  /\ UNCHANGED <<registryVars, attached, logVars, exiting>>

OpenLogUnlessPresent(i) ==
  /\ created' = [created EXCEPT ![i] = @ + 1]
  /\ logs' = [logs EXCEPT ![i] = IF @ = 0 THEN created[i] + 1 ELSE @]
  /\ tunnelLog' = [tunnelLog EXCEPT ![i] = created[i] + 1]

\* A new log replaces the one of a closed tunnel that is still kept under the id.
OpenLog(i) ==
  /\ created' = [created EXCEPT ![i] = @ + 1]
  /\ logs' = [logs EXCEPT ![i] = created[i] + 1]
  /\ tunnelLog' = [tunnelLog EXCEPT ![i] = created[i] + 1]

\* The data listener comes up (200), or fails: the client is answered 500 and the tunnel stays.
CreateTunnel(t, wanted, i, p, listens) ==
  /\ ~ReservedAlive(t)
  /\ i \in IdsFor(wanted)
  /\ p \in FreePorts /\ \A q \in FreePorts : p <= q
  /\ created[i] < MaxLogs
  /\ tunnels' = [tunnels EXCEPT ![i] = t]
  /\ reservations' = [reservations EXCEPT ![t] = i]
  /\ port' = [port EXCEPT ![i] = p]
  /\ usedPorts' = usedPorts \cup ({p} \cap TunnelPorts)
  /\ OpenLog(i)
  /\ IF listens
       THEN /\ listening' = listening \cup {i}
            /\ granted' = [granted EXCEPT ![t] = i]
       ELSE UNCHANGED <<listening, granted>>
  /\ UNCHANGED <<attached, watched, cleanups, exiting>>

-----------------------------------------------------------------------------
(* The control channel of a tunnel, as far as the registry decides on it.  *)

ControlUpgradeAnyToken(t, i) ==
  /\ Live(i)
  /\ attached' = [attached EXCEPT ![i] = t]
  /\ UNCHANGED <<registryVars, granted, logVars, exiting>>

\* 101: the tunnel exists (else 404) and belongs to the session token presented (else 403).
ControlUpgrade(t, i) ==
  /\ Live(i)
  /\ tunnels[i] = t
  /\ attached' = [attached EXCEPT ![i] = t]
  /\ UNCHANGED <<registryVars, granted, logVars, exiting>>

ControlCloses(i) ==
  /\ attached[i] # None
  /\ attached' = [attached EXCEPT ![i] = None]
  /\ UNCHANGED <<registryVars, granted, logVars, exiting>>

-----------------------------------------------------------------------------
(* The end of a tunnel, and of its log.                                    *)

KeepPorts(S) == UNCHANGED usedPorts

ReleasePorts(S) == usedPorts' = usedPorts \ {port[i] : i \in S}

KeepReservationsOf(S) == UNCHANGED reservations

ForgetReservationsOf(S) ==
  reservations' = [t \in Tokens |-> IF \E i \in S : tunnels[i] = t THEN None ELSE reservations[t]]

\* The 'close' listeners of the tunnels S that are destroyed.
Unregister(S) ==
  /\ ForgetReservationsOf(S)
  /\ tunnels' = [i \in Ids |-> IF i \in S THEN None ELSE tunnels[i]]
  /\ ReleasePorts(S)
  /\ port' = [i \in Ids |-> IF i \in S THEN None ELSE port[i]]
  /\ listening' = listening \ S
  /\ attached' = [i \in Ids |-> IF i \in S THEN None ELSE attached[i]]
  /\ cleanups' = cleanups \cup {<<i, tunnelLog[i]>> : i \in S}

\* The reconnect window expires or an administrator disconnects the tunnel.
TunnelCloses(i) ==
  /\ Live(i)
  /\ Unregister({i})
  /\ UNCHANGED <<granted, logs, tunnelLog, created, watched, exiting>>

CleanupLogForgotten(i, n) ==
  /\ <<i, n>> \in cleanups
  /\ cleanups' = cleanups \ {<<i, n>>}
  /\ UNCHANGED <<registryVars, granted, attached, logs, tunnelLog, created, watched, exiting>>

\* The timer destroys whatever log is under the id now.
CleanupLog(i, n) ==
  /\ <<i, n>> \in cleanups
  /\ cleanups' = cleanups \ {<<i, n>>}
  /\ logs' = [logs EXCEPT ![i] = 0]
  /\ watched' = watched \ {<<i, logs[i]>>}
  /\ UNCHANGED <<registryVars, granted, attached, tunnelLog, created, exiting>>

\* GET /tubes/:tunnelId/events
Subscribe(i) ==
  /\ logs[i] # 0
  /\ watched' = watched \cup {<<i, logs[i]>>}
  /\ UNCHANGED <<registryVars, granted, attached, logs, tunnelLog, created, cleanups, exiting>>

Unsubscribe(l) ==
  /\ l \in watched
  /\ watched' = watched \ {l}
  /\ UNCHANGED <<registryVars, granted, attached, logs, tunnelLog, created, cleanups, exiting>>

\* SIGINT or SIGTERM. Requests on open connections are still served until the process exits.
DestroyAll ==
  /\ ~exiting
  /\ exiting' = TRUE
  /\ tunnels' = [i \in Ids |-> None]
  /\ reservations' = [t \in Tokens |-> None]
  /\ usedPorts' = {}
  /\ port' = [i \in Ids |-> None]
  /\ listening' = {}
  /\ attached' = [i \in Ids |-> None]
  /\ cleanups' = cleanups \cup {<<i, tunnelLog[i]>> : i \in {j \in Ids : Live(j)}}
  /\ logs' = [i \in Ids |-> 0]
  /\ watched' = {l \in watched : logs[l[1]] # l[2]}
  /\ UNCHANGED <<granted, tunnelLog, created>>

-----------------------------------------------------------------------------
Next ==
  \/ \E t \in Tokens, wanted \in Ids \cup {None} : Reclaim(t, wanted)
  \/ \E t \in Tokens, wanted \in Ids \cup {None}, i \in Ids, p \in FreePorts, ok \in BOOLEAN :
        CreateTunnel(t, wanted, i, p, ok)
  \/ \E t \in Tokens, i \in Ids : ControlUpgrade(t, i)
  \/ \E i \in Ids : ControlCloses(i)
  \/ \E i \in Ids : TunnelCloses(i)
  \/ \E i \in Ids, n \in 1..MaxLogs : CleanupLog(i, n)
  \/ \E i \in Ids : Subscribe(i)
  \/ \E l \in Logs : Unsubscribe(l)
  \/ DestroyAll

Spec == Init /\ [][Next]_vars

\* The timers of a process fire, unless it exits first.
FairSpec == Spec /\ \A i \in Ids, n \in 1..MaxLogs : WF_vars(~exiting /\ CleanupLog(i, n))

-----------------------------------------------------------------------------
(* Safety.                                                                 *)

\* The two tables agree: a token has at most one tunnel and an id at most one token, through
\* creations, reclaims, expiries and shutdown in any order.
ReservationsMatch ==
  \A t \in Tokens, i \in Ids : reservations[t] = i <=> tunnels[i] = t

\* No two tunnels share a port of the range, and no port leaks: the ports in use are those of
\* the tunnels that exist, also of one whose listener never came up.
PortsExclusive ==
  /\ \A i \in Ids : port[i] # None <=> Live(i)
  /\ \A p \in TunnelPorts : p \in usedPorts <=> \E i \in Ids : port[i] = p
  /\ \A i, j \in Ids : port[i] \in TunnelPorts /\ port[i] = port[j] => i = j

\* The control session of a tunnel is one of the client that owns it, also once the id has
\* passed to another client.
ControlOwned == \A i \in Ids : attached[i] # None => attached[i] = tunnels[i]

\* An administrator who watches a tunnel's events never gets those of an earlier tunnel of the
\* same id: the log under the id of a tunnel is the one it writes to.
LogIsOwn == \A i \in Ids : Live(i) => logs[i] \in {0, tunnelLog[i]}

\* The tables of tunnels, sessions, ports, control channels and logs agree in any order of
\* creations, reclaims, closes and timers.
RegistryConsistent == ReservationsMatch /\ PortsExclusive /\ ControlOwned /\ LogIsOwn

\* While its tunnel exists, a client is always answered with that tunnel.
GrantStable ==
  [][\A t \in Tokens :
       ReservedAlive(t) /\ granted[t] = reservations[t] /\ ReservedAlive(t)'
         => granted'[t] = reservations'[t]]_vars

\* The id of a tunnel passes to another session only after the tunnel was closed.
NoTakeover ==
  [][\A i \in Ids : Live(i) /\ tunnels'[i] # None => tunnels'[i] = tunnels[i]]_vars

-----------------------------------------------------------------------------
(* Liveness.                                                               *)

\* The log of a closed tunnel is removed, unless the id is in use again or the server exits.
LogsCollected ==
  \A i \in Ids : (logs[i] # 0 /\ ~Live(i)) ~> (logs[i] = 0 \/ Live(i) \/ exiting)

=============================================================================
