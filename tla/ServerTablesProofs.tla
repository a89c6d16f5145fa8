-------------------------- MODULE ServerTablesProofs -------------------------
(***************************************************************************)
(* Proofs about what the server keeps tables of.                           *)
(* TunnelManager: the tables of the registry agree, and no step takes over *)
(* a tunnel, whatever the clients, ids and ports.                          *)
(* Admission: the limit on misses holds, blocks hold, their events are     *)
(* throttled, and the file follows the list, whatever the addresses, the   *)
(* limits and the times.                                                   *)
(* The two have nothing in common; each theorem is about one of them.      *)
(***************************************************************************)
EXTENDS TunnelManager, Admission, TLAPS

(***************************************************************************)
(* TunnelManager                                                           *)
(***************************************************************************)

\* The tables of the registry agree with each other, table by table.
RegistryInv ==
  /\ ReservationsMatch
  /\ PortsExclusive
  /\ ControlOwned
  /\ LogIsOwn

-----------------------------------------------------------------------------
(* Types.                                                                  *)

\* Every handler leaves the registry well formed.
LEMMA StepTypeOK == TypeOK /\ [Next]_vars => TypeOK'
<1> SUFFICES ASSUME TypeOK, [Next]_vars PROVE TypeOK'
  OBVIOUS
<1> USE TunnelManagerAssumption DEF TypeOK, Logs
<1>1. ASSUME NEW t \in Tokens, NEW wanted \in Ids \cup {None}, Reclaim(t, wanted) PROVE TypeOK'
  BY <1>1 DEF Reclaim, ReservedAlive, registryVars, logVars
<1>2. ASSUME NEW t \in Tokens, NEW wanted \in Ids \cup {None}, NEW i \in Ids, NEW p \in FreePorts,
             NEW ok \in BOOLEAN, CreateTunnel(t, wanted, i, p, ok)
      PROVE  TypeOK'
  BY <1>2 DEF CreateTunnel, OpenLog, FreePorts
<1>3. ASSUME NEW t \in Tokens, NEW i \in Ids, ControlUpgrade(t, i) PROVE TypeOK'
  BY <1>3 DEF ControlUpgrade, registryVars, logVars
<1>4. ASSUME NEW i \in Ids, ControlCloses(i) PROVE TypeOK'
  BY <1>4 DEF ControlCloses, registryVars, logVars
<1>5. ASSUME NEW i \in Ids, TunnelCloses(i) PROVE TypeOK'
  <2>1. /\ reservations' \in [Tokens -> Ids \cup {None}]
        /\ usedPorts' \subseteq TunnelPorts
    BY <1>5 DEF TunnelCloses, Unregister, ForgetReservationsOf, ReleasePorts
  <2>2. /\ tunnels' \in [Ids -> Tokens \cup {None}]
        /\ port' \in [Ids -> TunnelPorts \cup {0, None}]
        /\ attached' \in [Ids -> Tokens \cup {None}]
    BY <1>5 DEF TunnelCloses, Unregister
  <2>3. listening' \subseteq Ids /\ cleanups' \subseteq Ids \X (0..MaxLogs)
    BY <1>5 DEF TunnelCloses, Unregister
  <2> QED
    BY <1>5, <2>1, <2>2, <2>3 DEF TunnelCloses
<1>6. ASSUME NEW i \in Ids, NEW n \in 1..MaxLogs, CleanupLog(i, n) PROVE TypeOK'
  BY <1>6 DEF CleanupLog, registryVars
<1>7. ASSUME NEW i \in Ids, Subscribe(i) PROVE TypeOK'
  BY <1>7 DEF Subscribe, registryVars
<1>8. ASSUME NEW l \in Logs, Unsubscribe(l) PROVE TypeOK'
  BY <1>8 DEF Unsubscribe, registryVars
<1>9. CASE DestroyAll
  BY <1>9 DEF DestroyAll
<1>10. CASE UNCHANGED vars
  BY <1>10 DEF vars, registryVars, logVars
<1> QED
  BY <1>1, <1>2, <1>3, <1>4, <1>5, <1>6, <1>7, <1>8, <1>9, <1>10 DEF Next

\* The tables of the registry stay well formed.
THEOREM TypeCorrect == Spec => []TypeOK
<1>1. Init => TypeOK
  <2> SUFFICES ASSUME Init PROVE TypeOK
    OBVIOUS
  <2>1. tunnels \in [Ids -> Tokens \cup {None}] /\ attached \in [Ids -> Tokens \cup {None}]
    BY DEF Init
  <2>2. reservations \in [Tokens -> Ids \cup {None}] /\ granted \in [Tokens -> Ids \cup {None}]
    BY DEF Init
  <2>3. port \in [Ids -> TunnelPorts \cup {0, None}]
    BY DEF Init
  <2>4. /\ logs \in [Ids -> 0..MaxLogs]
        /\ tunnelLog \in [Ids -> 0..MaxLogs]
        /\ created \in [Ids -> 0..MaxLogs]
    BY TunnelManagerAssumption DEF Init
  <2> QED
    BY <2>1, <2>2, <2>3, <2>4 DEF Init, TypeOK
<1> QED
  BY <1>1, StepTypeOK, PTL DEF Spec

-----------------------------------------------------------------------------
(* The tables of the registry agree with each other.                       *)

\* A tunnel that is created fits the tables.
LEMMA CreateRegistryInv ==
  ASSUME TypeOK, RegistryInv, NEW t \in Tokens, NEW wanted \in Ids \cup {None}, NEW i \in Ids,
         NEW p \in FreePorts, NEW ok \in BOOLEAN, CreateTunnel(t, wanted, i, p, ok)
  PROVE  RegistryInv'
<1> USE TunnelManagerAssumption DEF TypeOK, Live
<1> USE DEF CreateTunnel
<1>1. ~Live(i) /\ \A j \in Ids : tunnels[j] # t
  BY DEF RegistryInv, ReservationsMatch, ReservedAlive, IdsFor
<1>2. ReservationsMatch'
  BY <1>1 DEF RegistryInv, ReservationsMatch
<1>3. p \in TunnelPorts \cup {0} /\ p \notin usedPorts
  BY DEF FreePorts
<1>4. PortsExclusive'
  <2>1. \A j \in Ids : port'[j] # None <=> Live(j)'
    BY <1>3 DEF RegistryInv, PortsExclusive
  <2>2. port[i] = None
    BY <1>1 DEF RegistryInv, PortsExclusive
  <2>3. \A q \in TunnelPorts : q \in usedPorts' <=> \E j \in Ids : port'[j] = q
    BY <1>3, <2>2 DEF RegistryInv, PortsExclusive
  <2>4. \A j, k \in Ids : port'[j] \in TunnelPorts /\ port'[j] = port'[k] => j = k
    BY <1>3 DEF RegistryInv, PortsExclusive
  <2> QED
    BY <2>1, <2>3, <2>4 DEF PortsExclusive
<1>5. ControlOwned'
  BY <1>1 DEF RegistryInv, ControlOwned
<1>6. LogIsOwn'
  BY DEF RegistryInv, LogIsOwn, OpenLog
<1> QED
  BY <1>2, <1>4, <1>5, <1>6 DEF RegistryInv

\* A tunnel that closes leaves no trace in the tables.
LEMMA CloseRegistryInv ==
  ASSUME TypeOK, RegistryInv, NEW i \in Ids, TunnelCloses(i)
  PROVE  RegistryInv'
<1> USE TunnelManagerAssumption DEF TypeOK, Live, TunnelCloses, Unregister
<1>1. ReservationsMatch'
  BY DEF RegistryInv, ReservationsMatch, ForgetReservationsOf
<1>2. PortsExclusive'
  <2>1. \A j \in Ids : port'[j] # None <=> Live(j)'
    BY DEF RegistryInv, PortsExclusive
  <2>2. \A q \in TunnelPorts : q \in usedPorts' <=> \E j \in Ids : port'[j] = q
    BY DEF RegistryInv, PortsExclusive, ReleasePorts
  <2>3. \A j, k \in Ids : port'[j] \in TunnelPorts /\ port'[j] = port'[k] => j = k
    BY DEF RegistryInv, PortsExclusive
  <2> QED
    BY <2>1, <2>2, <2>3 DEF PortsExclusive
<1>3. ControlOwned'
  BY DEF RegistryInv, ControlOwned
<1>4. LogIsOwn'
  BY DEF RegistryInv, LogIsOwn
<1> QED
  BY <1>1, <1>2, <1>3, <1>4 DEF RegistryInv

\* The shutdown empties the tables.
LEMMA DestroyAllRegistryInv ==
  ASSUME TypeOK, DestroyAll
  PROVE  RegistryInv'
<1> USE TunnelManagerAssumption DEF TypeOK, Live, DestroyAll
<1>1. PortsExclusive'
  BY DEF PortsExclusive
<1> QED
  BY <1>1 DEF RegistryInv, ReservationsMatch, ControlOwned, LogIsOwn

\* Tables in which there is nothing agree.
LEMMA InitRegistryInv == Init => RegistryInv
<1> SUFFICES ASSUME Init PROVE RegistryInv
  OBVIOUS
<1>1. \A i \in Ids : tunnels[i] = None /\ port[i] = None /\ ~Live(i)
  BY TunnelManagerAssumption DEF Init, Live
<1>2. ReservationsMatch
  BY <1>1, TunnelManagerAssumption DEF Init, ReservationsMatch
<1>3. PortsExclusive
  BY <1>1, TunnelManagerAssumption DEF Init, PortsExclusive
<1>4. ControlOwned
  BY <1>1, TunnelManagerAssumption DEF Init, ControlOwned
<1>5. LogIsOwn
  BY <1>1, TunnelManagerAssumption DEF Init, LogIsOwn
<1> QED
  BY <1>2, <1>3, <1>4, <1>5 DEF RegistryInv

\* Every handler keeps the tables in agreement.
LEMMA StepRegistryInv == TypeOK /\ RegistryInv /\ [Next]_vars => RegistryInv'
<1> SUFFICES ASSUME TypeOK, RegistryInv, [Next]_vars PROVE RegistryInv'
  OBVIOUS
<1>1. ASSUME UNCHANGED <<registryVars, attached, tunnelLog>>,
             \A i \in Ids : logs'[i] \in {0, logs[i]}
      PROVE  RegistryInv'
  BY <1>1 DEF registryVars, RegistryInv, ReservationsMatch, PortsExclusive,
              ControlOwned, LogIsOwn, Live
<1>2. ASSUME NEW t \in Tokens, NEW wanted \in Ids \cup {None}, Reclaim(t, wanted)
      PROVE  RegistryInv'
  BY <1>1, <1>2 DEF Reclaim, logVars
<1>3. ASSUME NEW t \in Tokens, NEW i \in Ids, ControlUpgrade(t, i) PROVE RegistryInv'
  BY <1>3 DEF ControlUpgrade, registryVars, logVars, RegistryInv, ReservationsMatch,
              PortsExclusive, ControlOwned, LogIsOwn, Live, TypeOK
<1>4. ASSUME NEW i \in Ids, ControlCloses(i) PROVE RegistryInv'
  BY <1>4 DEF ControlCloses, registryVars, logVars, RegistryInv, ReservationsMatch,
              PortsExclusive, ControlOwned, LogIsOwn, Live, TypeOK
<1>5. ASSUME NEW i \in Ids, NEW n \in 1..MaxLogs, CleanupLog(i, n) PROVE RegistryInv'
  BY <1>1, <1>5 DEF CleanupLog, TypeOK
<1>6. ASSUME NEW i \in Ids, Subscribe(i) PROVE RegistryInv'
  BY <1>1, <1>6 DEF Subscribe
<1>7. ASSUME NEW l \in Logs, Unsubscribe(l) PROVE RegistryInv'
  BY <1>1, <1>7 DEF Unsubscribe
<1>8. CASE UNCHANGED vars
  BY <1>1, <1>8 DEF vars, logVars
<1> QED
  BY <1>2, <1>3, <1>4, <1>5, <1>6, <1>7, <1>8, CreateRegistryInv, CloseRegistryInv,
     DestroyAllRegistryInv DEF Next

\* One tunnel per session and one session per tunnel, no port shared or leaked, no control
\* session of a stranger and no foreign event log, whatever is created, reclaimed and closed.
THEOREM RegistryCorrect == Spec => []RegistryConsistent
<1>1. Init => RegistryInv
  BY InitRegistryInv
<1>2. RegistryInv => RegistryConsistent
  BY DEF RegistryInv, RegistryConsistent
<1> QED
  BY <1>1, <1>2, TypeCorrect, StepRegistryInv, PTL DEF Spec

-----------------------------------------------------------------------------
(* What a step may never do.                                               *)

\* A live tunnel is never given to another session.
THEOREM TakeoverImpossible == Spec => NoTakeover
<1>1. ASSUME TypeOK, [Next]_vars, NEW i \in Ids, Live(i), tunnels'[i] # None
      PROVE  tunnels'[i] = tunnels[i]
  <2>1. CASE UNCHANGED tunnels
    BY <2>1
  <2>2. ASSUME NEW t \in Tokens, NEW wanted \in Ids \cup {None}, NEW j \in Ids,
               NEW p \in FreePorts, NEW ok \in BOOLEAN, CreateTunnel(t, wanted, j, p, ok)
        PROVE  tunnels'[i] = tunnels[i]
    BY <1>1, <2>2 DEF CreateTunnel, IdsFor, TypeOK
  <2>3. ASSUME NEW j \in Ids, TunnelCloses(j) PROVE tunnels'[i] = tunnels[i]
    BY <1>1, <2>3 DEF TunnelCloses, Unregister
  <2>4. CASE DestroyAll
    BY <1>1, <2>4 DEF DestroyAll
  <2> QED
    BY <1>1, <2>1, <2>2, <2>3, <2>4
       DEF Next, Reclaim, ControlUpgrade, ControlCloses, CleanupLog, Subscribe, Unsubscribe,
           registryVars, vars
<1>2. TypeOK /\ [Next]_vars => [\A i \in Ids : Live(i) /\ tunnels'[i] # None
                                                 => tunnels'[i] = tunnels[i]]_vars
  BY <1>1
<1> QED
  BY <1>2, TypeCorrect, PTL DEF Spec, NoTakeover

\* A session whose tunnel is still there is answered with that tunnel, whatever subdomain it
\* asks for.
THEOREM GrantsKept == Spec => GrantStable
<1> DEFINE A == \A t \in Tokens :
                  ReservedAlive(t) /\ granted[t] = reservations[t] /\ ReservedAlive(t)'
                    => granted'[t] = reservations'[t]
<1>1. ASSUME TypeOK, RegistryInv, [Next]_vars, NEW t \in Tokens, ReservedAlive(t),
             granted[t] = reservations[t], ReservedAlive(t)'
      PROVE  granted'[t] = reservations'[t]
  <2>1. CASE UNCHANGED <<granted, reservations>>
    BY <1>1, <2>1
  <2>2. ASSUME NEW u \in Tokens, NEW wanted \in Ids \cup {None}, Reclaim(u, wanted)
        PROVE  granted'[t] = reservations'[t]
    BY <1>1, <2>2 DEF Reclaim, registryVars, TypeOK
  <2>3. ASSUME NEW u \in Tokens, NEW wanted \in Ids \cup {None}, NEW j \in Ids,
               NEW p \in FreePorts, NEW ok \in BOOLEAN, CreateTunnel(u, wanted, j, p, ok)
        PROVE  granted'[t] = reservations'[t]
    BY <1>1, <2>3 DEF CreateTunnel, TypeOK
  <2>4. ASSUME NEW j \in Ids, TunnelCloses(j) PROVE granted'[t] = reservations'[t]
    <3>1. reservations'[t] # None
      BY <1>1 DEF ReservedAlive
    <3>2. reservations'[t] = reservations[t] /\ granted'[t] = granted[t]
      BY <2>4, <3>1 DEF TunnelCloses, Unregister, ForgetReservationsOf
    <3> QED
      BY <1>1, <3>2
  <2>5. CASE DestroyAll
    BY <1>1, <2>5 DEF DestroyAll, ReservedAlive
  <2> QED
    BY <1>1, <2>1, <2>2, <2>3, <2>4, <2>5
       DEF Next, ControlUpgrade, ControlCloses, CleanupLog, Subscribe, Unsubscribe, registryVars,
           vars
<1>2. TypeOK /\ RegistryInv /\ [Next]_vars => [A]_vars
  BY <1>1
<1> QED
  BY <1>2, InitRegistryInv, TypeCorrect, StepRegistryInv, PTL DEF Spec, GrantStable

-----------------------------------------------------------------------------
(***************************************************************************)
(* Admission                                                               *)
(***************************************************************************)

\* What is kept of the misses of one address
History == [Recent -> Times \cup {NoEntry}]

\* The first and the last places of a history are two.
LEMMA RecentBounds ==
  /\ 1 \in Recent /\ MaxHits \in Recent /\ 2 * MaxHits \in Recent
  /\ \A c \in 1..MaxHits : c \in Recent /\ c + MaxHits \in Recent
  /\ \A k \in Recent : k # 1 => k - 1 \in Recent
  /\ \A k \in Recent : k \in Nat \ {0} /\ k <= 2 * MaxHits
BY AdmissionAssumption DEF AdmissionAssumption, Recent

LEMMA HistoriesTyped ==
  ASSUME now \in Times
  PROVE  /\ NoMisses \in History
         /\ \A older \in History : MissNow(older) \in History
BY RecentBounds DEF History, NoMisses, MissNow

\* A tick, by what it does to the history of one address.
LEMMA TickForgets ==
  ASSUME AdmissionTypeOK, Tick
  PROVE  /\ now' = now + 1 /\ now' \in Times
         /\ UNCHANGED <<limiterVars, blocklistVars, reported>>
         /\ misses' \in [Ips -> History]
         /\ \A ip \in Ips : \A k \in Recent :
              misses'[ip][k] = IF misses[ip][k] # NoEntry /\ misses[ip][k] + Window < now'
                                 THEN NoEntry ELSE misses[ip][k]
<1>1. now' = now + 1 /\ now' \in Times
  BY AdmissionAssumption DEF AdmissionAssumption, Tick, AdmissionTypeOK, Times
<1>2. misses' = [ip \in Ips |-> [k \in Recent |->
                  IF misses[ip][k] # NoEntry /\ misses[ip][k] + Window < now + 1
                    THEN NoEntry ELSE misses[ip][k]]]
  BY DEF Tick
<1>3. misses' \in [Ips -> History]
  BY <1>2 DEF AdmissionTypeOK, History
<1>4. \A ip \in Ips : \A k \in Recent :
         misses'[ip][k] = IF misses[ip][k] # NoEntry /\ misses[ip][k] + Window < now'
                            THEN NoEntry ELSE misses[ip][k]
  BY <1>1, <1>2
<1> QED
  BY <1>1, <1>3, <1>4 DEF Tick

\* The tables and histories keep their types; a record never counts beyond the limit.
THEOREM AdmissionTypeCorrect == AdmissionSpec => []AdmissionTypeOK
<1>1. AdmissionInit => AdmissionTypeOK
  <2>1. 0 \in Times /\ 0 \in 0..MaxHits
    BY AdmissionAssumption DEF AdmissionAssumption, Times
  <2> QED
    BY <2>1, HistoriesTyped DEF AdmissionInit, AdmissionTypeOK, Nobody, History
<1>2. AdmissionTypeOK /\ [AdmissionNext]_admissionVars => AdmissionTypeOK'
  <2> SUFFICES ASSUME AdmissionTypeOK, [AdmissionNext]_admissionVars PROVE AdmissionTypeOK'
    OBVIOUS
  <2>1. ASSUME NEW ip \in Ips, Probe(ip)
        PROVE  AdmissionTypeOK'
    <3>4. EmitRequestBlocked(ip) =>
            /\ lastBlockEvent' \in [Ips -> Times \cup {NoEntry}]
            /\ reported' \in [Ips -> Times \cup {NoEntry}]
      BY DEF EmitRequestBlocked, AdmissionTypeOK
    <3>5. UNCHANGED <<now, permanent, lastPermEvent, file, unsaved>>
      BY <2>1 DEF Probe, blocklistVars
    <3>1. CASE HitWhileBlocked(ip)
      BY <3>1, <3>4, <3>5 DEF HitWhileBlocked, AdmissionTypeOK
    <3>2. CASE HitBlocks(ip)
      <4>1. now + BlockDuration \in 0..(MaxTime + BlockDuration) /\ 0 \in 0..MaxHits
        BY AdmissionAssumption DEF AdmissionAssumption, AdmissionTypeOK, Times
      <4>2. /\ count' \in [Ips -> 0..MaxHits]
            /\ windowStart' \in [Ips -> Times \cup {NoEntry}]
            /\ blockedUntil' \in [Ips -> 0..(MaxTime + BlockDuration) \cup {NoEntry}]
        BY <3>2, <4>1 DEF HitBlocks, AdmissionTypeOK
      <4> QED
        BY <3>2, <3>4, <3>5, <4>2 DEF HitBlocks, AdmissionTypeOK
    <3>3. CASE HitCounted(ip)
      <4>1. HitCount(ip) \in 0..MaxHits
        BY <3>3, AdmissionAssumption
           DEF AdmissionAssumption, HitCounted, HitCount, Exceeds, AdmissionTypeOK
      <4> QED
        BY <2>1, <3>3, <4>1, HistoriesTyped
           DEF Probe, HitCounted, AdmissionTypeOK, History, blocklistVars
    <3> QED
      BY <2>1, <3>1, <3>2, <3>3 DEF Probe
  <2>2. ASSUME NEW ip \in Ips, RejectPermanent(ip)
        PROVE  AdmissionTypeOK'
    BY <2>2 DEF RejectPermanent, ReportPermanent, AdmissionTypeOK, limiterVars, historyVars
  <2>3. ASSUME NEW ip \in Ips, Unblock(ip)
        PROVE  AdmissionTypeOK'
    BY <2>3, HistoriesTyped, AdmissionAssumption
       DEF AdmissionAssumption, Unblock, ForgetBlock, AdmissionTypeOK, History, blocklistVars
  <2>4. CASE Gc
    BY <2>4, AdmissionAssumption
       DEF AdmissionAssumption, Gc, AdmissionTypeOK, blocklistVars, historyVars
  <2>5. ASSUME NEW ip \in Ips, AddPermanent(ip)
        PROVE  AdmissionTypeOK'
    BY <2>5 DEF AddPermanent, Persist, AdmissionTypeOK, limiterVars, historyVars
  <2>6. ASSUME NEW ip \in Ips, RemovePermanent(ip)
        PROVE  AdmissionTypeOK'
    BY <2>6 DEF RemovePermanent, Persist, AdmissionTypeOK, limiterVars, historyVars
  <2>7. CASE Shutdown \/ Restart \/ CrashWhilePersisting
    <3>1. 0 \in 0..MaxHits
      BY AdmissionAssumption DEF AdmissionAssumption
    <3>2. CASE Shutdown
      BY <3>1, <3>2, HistoriesTyped
         DEF Shutdown, ForgetEveryone, Nobody, AdmissionTypeOK, History, blocklistVars
    <3>3. CASE Restart \/ CrashWhilePersisting
      <4>1. (file' = NoEntry \/ file' \subseteq Ips) /\ permanent' \subseteq Ips
        BY <3>3 DEF Restart, CrashWhilePersisting, StartProcess, Loaded, AdmissionTypeOK
      <4>2. misses' \in [Ips -> History]
        BY <3>3, HistoriesTyped
           DEF Restart, CrashWhilePersisting, StartProcess, ForgetEveryone, AdmissionTypeOK
      <4>3. /\ count' \in [Ips -> 0..MaxHits] /\ windowStart' \in [Ips -> Times \cup {NoEntry}]
            /\ blockedUntil' \in [Ips -> 0..(MaxTime + BlockDuration) \cup {NoEntry}]
            /\ lastBlockEvent' \in [Ips -> Times \cup {NoEntry}]
            /\ lastPermEvent' \in [Ips -> Times \cup {NoEntry}]
        BY <3>1, <3>3
           DEF Restart, CrashWhilePersisting, StartProcess, ForgetEveryone, Nobody
      <4>4. now' \in Times /\ unsaved' \in BOOLEAN /\ reported' \in [Ips -> Times \cup {NoEntry}]
        BY <3>3
           DEF Restart, CrashWhilePersisting, StartProcess, ForgetEveryone, Nobody, AdmissionTypeOK
      <4> QED
        BY <4>1, <4>2, <4>3, <4>4 DEF AdmissionTypeOK, History
    <3> QED
      BY <2>7, <3>2, <3>3
  <2>8. CASE Tick
    BY <2>8, TickForgets DEF AdmissionTypeOK, History, limiterVars, blocklistVars
  <2>9. CASE UNCHANGED admissionVars
    BY <2>9 DEF admissionVars, limiterVars, blocklistVars, historyVars, AdmissionTypeOK
  <2> QED
    BY <2>1, <2>2, <2>3, <2>4, <2>5, <2>6, <2>7, <2>8, <2>9 DEF AdmissionNext
<1> QED
  BY <1>1, <1>2, PTL DEF AdmissionSpec

-----------------------------------------------------------------------------
(* The limit.                                                              *)

\* The history of an address is in order, has no gap and holds misses of the last windowMs only.
\* While a window is open, fewer than maxHits misses are older than it; when none is, there are
\* fewer than maxHits in all, or a block that outlasts them.
HitsOf(ip) ==
  LET recent == misses[ip]
      Made(k) == recent[k] # NoEntry
  IN
  /\ \A j, k \in Recent : j <= k /\ Made(k) => Made(j) /\ recent[k] <= recent[j]
  /\ \A k \in Recent : Made(k) => recent[k] <= now /\ now <= recent[k] + Window
  /\ windowStart[ip] # NoEntry =>
       /\ count[ip] \in 1..MaxHits
       /\ blockedUntil[ip] = NoEntry
       /\ ~Made(count[ip] + MaxHits)
       /\ \A k \in Recent : k >= count[ip] /\ Made(k) => recent[k] <= windowStart[ip]
  /\ windowStart[ip] = NoEntry =>
       \/ ~Made(MaxHits)
       \/ /\ blockedUntil[ip] # NoEntry
          /\ \A k \in Recent : Made(k) => recent[k] + BlockDuration <= blockedUntil[ip]

\* Nothing is claimed of a block that does not outlast the window.
HitsInv ==
  BlockDuration > Window => \A ip \in Ips : HitsOf(ip) /\ misses[ip][2 * MaxHits] = NoEntry

\* No misses, no record and no block
LEMMA NothingKnown ==
  ASSUME NEW ip \in Ips, misses[ip] = NoMisses, windowStart[ip] = NoEntry
  PROVE  HitsOf(ip) /\ misses[ip][2 * MaxHits] = NoEntry
BY RecentBounds DEF HitsOf, NoMisses

\* Nothing of the address is changed.
LEMMA HitsKept ==
  ASSUME NEW ip \in Ips, HitsOf(ip), UNCHANGED <<now, misses[ip], windowStart[ip], count[ip]>>,
         blockedUntil'[ip] = blockedUntil[ip]
  PROVE  HitsOf(ip)'
BY DEF HitsOf

\* When no window is open, or the open one is over, and no block holds, fewer than maxHits misses
\* are left.
LEMMA WindowOver ==
  ASSUME BlockDuration > Window,
         AdmissionTypeOK, NEW ip \in Ips, HitsOf(ip), ~Blocked(ip),
         windowStart[ip] = NoEntry \/ OlderThan(windowStart[ip], Window)
  PROVE  misses[ip][MaxHits] = NoEntry
<1> SUFFICES ASSUME misses[ip][MaxHits] # NoEntry PROVE FALSE
  OBVIOUS
<1>1. MaxHits \in Recent /\ MaxHits \in Nat /\ now \in Nat /\ Window \in Nat /\ NoEntry \notin Nat
  BY RecentBounds, AdmissionAssumption DEF AdmissionAssumption, AdmissionTypeOK, Times
<1>2. misses[ip][MaxHits] \in Nat /\ now <= misses[ip][MaxHits] + Window
  BY <1>1 DEF HitsOf, AdmissionTypeOK, Times
<1>3. CASE windowStart[ip] # NoEntry
  <2>1. windowStart[ip] \in Nat /\ now - windowStart[ip] > Window
    BY <1>3 DEF OlderThan, AdmissionTypeOK, Times
  <2>2. misses[ip][MaxHits] <= windowStart[ip]
    BY <1>1, <1>3 DEF HitsOf
  <2> QED
    BY <1>1, <1>2, <2>1, <2>2
<1>4. CASE windowStart[ip] = NoEntry
  <2>1. blockedUntil[ip] # NoEntry /\ misses[ip][MaxHits] + BlockDuration <= blockedUntil[ip]
    BY <1>1, <1>4 DEF HitsOf
  <2>2. blockedUntil[ip] \in Nat /\ BlockDuration \in Nat /\ BlockDuration > Window
    BY <2>1, AdmissionAssumption DEF AdmissionAssumption, AdmissionTypeOK
  <2> QED
    BY <1>1, <1>2, <2>1, <2>2 DEF Blocked
<1> QED
  BY <1>3, <1>4

\* A hit that is answered 404 leaves room in the history.
LEMMA CountedHit ==
  ASSUME BlockDuration > Window,
         AdmissionTypeOK, NEW ip \in Ips, HitsOf(ip), HitCounted(ip), now' = now
  PROVE  HitsOf(ip)' /\ misses'[ip][2 * MaxHits] = NoEntry
<1> DEFINE n == HitCount(ip)
<1>1. /\ n \in 1..MaxHits /\ MaxHits \in Nat \ {0}
      /\ now \in Nat /\ Window \in Nat /\ NoEntry \notin Nat
  BY AdmissionAssumption
     DEF AdmissionAssumption, HitCounted, HitCount, Exceeds, AdmissionTypeOK, Times
<1>2. /\ count'[ip] = n /\ blockedUntil'[ip] = NoEntry
      /\ windowStart'[ip] = IF n = 1 THEN now ELSE windowStart[ip]
      /\ \A k \in Recent : misses'[ip][k] = IF k = 1 THEN now ELSE misses[ip][k - 1]
  BY DEF HitCounted, MissNow, AdmissionTypeOK
<1>3. \A j, k \in Recent : j <= k /\ misses'[ip][k] # NoEntry
                             => misses'[ip][j] # NoEntry /\ misses'[ip][k] <= misses'[ip][j]
  <2> SUFFICES ASSUME NEW j \in Recent, NEW k \in Recent, j <= k, misses'[ip][k] # NoEntry
               PROVE  misses'[ip][j] # NoEntry /\ misses'[ip][k] <= misses'[ip][j]
    OBVIOUS
  <2>1. CASE k = 1
    <3>1. j = 1
      <4>1. j \in Nat \ {0}
        BY RecentBounds
      <4> QED
        BY <2>1, <4>1
    <3>2. misses'[ip][1] = now
      BY <1>2, RecentBounds
    <3> QED
      BY <1>1, <2>1, <3>1, <3>2
  <2>2. CASE k # 1
    <3>1. k - 1 \in Recent /\ misses'[ip][k] = misses[ip][k - 1] /\ misses[ip][k - 1] # NoEntry
      BY <1>2, <2>2, RecentBounds
    <3>2. CASE j = 1
      BY <1>1, <1>2, <3>1, <3>2 DEF HitsOf
    <3>3. CASE j # 1
      <4>1. j - 1 \in Recent /\ j - 1 <= k - 1 /\ misses'[ip][j] = misses[ip][j - 1]
        BY <1>2, <3>3, RecentBounds
      <4> QED
        BY <3>1, <4>1 DEF HitsOf
    <3> QED
      BY <3>2, <3>3
  <2> QED
    BY <2>1, <2>2
<1>4. \A k \in Recent : misses'[ip][k] # NoEntry
                          => misses'[ip][k] <= now /\ now <= misses'[ip][k] + Window
  <2> SUFFICES ASSUME NEW k \in Recent, misses'[ip][k] # NoEntry
               PROVE  misses'[ip][k] <= now /\ now <= misses'[ip][k] + Window
    OBVIOUS
  <2>1. CASE k = 1
    <3>1. misses'[ip][k] = now
      BY <1>2, <2>1
    <3> QED
      BY <1>1, <3>1
  <2>2. CASE k # 1
    <3>1. k - 1 \in Recent /\ misses'[ip][k] = misses[ip][k - 1] /\ misses[ip][k - 1] # NoEntry
      BY <1>2, <2>2, RecentBounds
    <3> QED
      BY <3>1 DEF HitsOf
  <2> QED
    BY <2>1, <2>2
<1>5. misses'[ip][n + MaxHits] = NoEntry => misses'[ip][2 * MaxHits] = NoEntry
  BY <1>1, <1>3, RecentBounds
<1>6. CASE windowStart[ip] = NoEntry \/ OlderThan(windowStart[ip], Window)
  <2>1. n = 1 /\ misses[ip][MaxHits] = NoEntry
    BY <1>6, WindowOver DEF HitCount, HitCounted
  <2>2. misses'[ip][1 + MaxHits] = NoEntry /\ windowStart'[ip] = now
    BY <1>1, <1>2, <2>1, RecentBounds
  <2> QED
    BY <1>1, <1>2, <1>3, <1>4, <1>5, <2>1, <2>2 DEF HitsOf
<1>7. CASE windowStart[ip] # NoEntry /\ ~OlderThan(windowStart[ip], Window)
  <2>1. n = count[ip] + 1 /\ count[ip] \in 1..MaxHits /\ n # 1
    BY <1>7 DEF HitCount, HitsOf
  <2>2. misses'[ip][n + MaxHits] = NoEntry /\ windowStart'[ip] = windowStart[ip]
    <3> DEFINE m == n + MaxHits
    <3>1. misses[ip][count[ip] + MaxHits] = NoEntry
      BY <1>7 DEF HitsOf
    <3>2. m \in Recent /\ m # 1 /\ m - 1 = count[ip] + MaxHits
      BY <1>1, <2>1, RecentBounds
    <3>3. windowStart'[ip] = windowStart[ip]
      BY <1>2, <2>1
    <3>4. misses'[ip][m] = NoEntry
      <4> HIDE DEF m
      <4> QED
        BY <1>2, <3>1, <3>2
    <3> QED
      BY <3>3, <3>4
  <2>3. \A k \in Recent : k >= n /\ misses'[ip][k] # NoEntry => misses'[ip][k] <= windowStart[ip]
    BY <1>1, <1>2, <1>7, <2>1, RecentBounds DEF HitsOf
  <2> QED
    BY <1>1, <1>2, <1>3, <1>4, <1>5, <1>7, <2>2, <2>3 DEF HitsOf
<1> QED
  BY <1>6, <1>7

\* The hit that blocks an address leaves a block that outlasts its misses.
LEMMA BlockingHit ==
  ASSUME AdmissionTypeOK, NEW ip \in Ips, HitsOf(ip), HitBlocks(ip), now' = now
  PROVE  HitsOf(ip)'
<1>1. /\ blockedUntil'[ip] = now + BlockDuration /\ windowStart'[ip] = NoEntry
      /\ misses' = misses
  BY DEF HitBlocks, AdmissionTypeOK
<1>2. now \in Nat /\ BlockDuration \in Nat /\ NoEntry \notin Nat
  BY AdmissionAssumption DEF AdmissionAssumption, AdmissionTypeOK, Times
<1>3. \A k \in Recent : misses[ip][k] # NoEntry
                          => misses[ip][k] \in Nat /\ misses[ip][k] + BlockDuration
                                                        <= blockedUntil'[ip]
  BY <1>1, <1>2 DEF HitsOf, AdmissionTypeOK, Times
<1> QED
  BY <1>1, <1>2, <1>3 DEF HitsOf

\* _gc forgets a window that is over and a block that has ended: neither matters any more.
LEMMA GcKeepsHits ==
  ASSUME BlockDuration > Window, AdmissionTypeOK, NEW ip \in Ips, HitsOf(ip), Gc
  PROVE  HitsOf(ip)'
<1>1. /\ misses' = misses /\ now' = now
      /\ windowStart'[ip] = IF OlderThan(windowStart[ip], Window) THEN NoEntry ELSE windowStart[ip]
      /\ count'[ip] = IF OlderThan(windowStart[ip], Window) THEN 0 ELSE count[ip]
      /\ blockedUntil'[ip] = IF blockedUntil[ip] # NoEntry /\ ~Blocked(ip)
                               THEN NoEntry ELSE blockedUntil[ip]
  BY DEF Gc, GcUnblocks, historyVars
<1>2. CASE Blocked(ip) \/ (windowStart'[ip] # NoEntry /\ ~OlderThan(windowStart[ip], Window))
  BY <1>1, <1>2 DEF HitsOf, Blocked, OlderThan
<1>3. CASE ~Blocked(ip) /\ windowStart'[ip] = NoEntry
  <2>1. windowStart[ip] = NoEntry \/ OlderThan(windowStart[ip], Window)
    BY <1>1, <1>3
  <2>2. misses[ip][MaxHits] = NoEntry
    BY <1>3, <2>1, WindowOver
  <2> QED
    BY <1>1, <1>3, <2>2 DEF HitsOf
<1> QED
  BY <1>1, <1>2, <1>3

\* Time passes: misses leave the history.
LEMMA TickKeepsHits ==
  ASSUME AdmissionTypeOK, NEW ip \in Ips, HitsOf(ip), Tick, misses[ip][2 * MaxHits] = NoEntry
  PROVE  HitsOf(ip)' /\ misses'[ip][2 * MaxHits] = NoEntry
<1>1. /\ now' = now + 1 /\ now \in Nat /\ Window \in Nat /\ NoEntry \notin Nat
      /\ UNCHANGED <<windowStart, count, blockedUntil>>
      /\ \A k \in Recent :
           misses'[ip][k] = IF misses[ip][k] # NoEntry /\ misses[ip][k] + Window < now'
                              THEN NoEntry ELSE misses[ip][k]
  BY TickForgets, AdmissionAssumption DEF AdmissionAssumption, limiterVars, AdmissionTypeOK, Times
<1>2. \A k \in Recent : misses[ip][k] # NoEntry => misses[ip][k] \in Nat
  BY DEF AdmissionTypeOK, Times
<1>3. \A k \in Recent : misses'[ip][k] # NoEntry
        => /\ misses'[ip][k] = misses[ip][k] /\ misses[ip][k] # NoEntry
           /\ misses'[ip][k] <= now' /\ now' <= misses'[ip][k] + Window
  BY <1>1, <1>2 DEF HitsOf
<1>4. \A j, k \in Recent : j <= k /\ misses'[ip][k] # NoEntry
                             => misses'[ip][j] # NoEntry /\ misses'[ip][k] <= misses'[ip][j]
  <2> SUFFICES ASSUME NEW j \in Recent, NEW k \in Recent, j <= k, misses'[ip][k] # NoEntry
               PROVE  misses'[ip][j] # NoEntry /\ misses'[ip][k] <= misses'[ip][j]
    OBVIOUS
  <2>1. misses[ip][j] # NoEntry /\ misses[ip][k] <= misses[ip][j]
    BY <1>3 DEF HitsOf
  <2> QED
    BY <1>1, <1>2, <1>3, <2>1
<1> QED
  BY <1>1, <1>3, <1>4, RecentBounds DEF HitsOf

\* Fewer than 2 * maxHits requests of an address are answered 404 in any windowMs, although the
\* limiter only knows fixed windows: a new one opens when at most maxHits - 1 misses are still
\* recent, and a block, if it is longer than the window, outlasts the misses that earned it
\* (RateLimiter.hit, _gc).
THEOREM HitsCorrect == AdmissionSpec => []HitsBounded
<1>1. AdmissionInit => HitsInv
  BY NothingKnown DEF AdmissionInit, Nobody, HitsInv
<1>2. AdmissionTypeOK /\ HitsInv /\ [AdmissionNext]_admissionVars => HitsInv'
  <2> SUFFICES ASSUME AdmissionTypeOK, HitsInv, [AdmissionNext]_admissionVars,
                      BlockDuration > Window, NEW ip \in Ips
               PROVE  HitsOf(ip)' /\ misses'[ip][2 * MaxHits] = NoEntry
    BY DEF HitsInv
  <2>0. HitsOf(ip) /\ misses[ip][2 * MaxHits] = NoEntry
    BY DEF HitsInv
  <2>1. ASSUME NEW jp \in Ips, Probe(jp)
        PROVE  HitsOf(ip)' /\ misses'[ip][2 * MaxHits] = NoEntry
    <3>1. now' = now
      BY <2>1 DEF Probe
    <3>2. CASE jp # ip \/ HitWhileBlocked(jp)
      <4>1. /\ misses'[ip] = misses[ip] /\ windowStart'[ip] = windowStart[ip]
            /\ count'[ip] = count[ip] /\ blockedUntil'[ip] = blockedUntil[ip]
        BY <2>1, <3>2 DEF Probe, HitWhileBlocked, HitBlocks, HitCounted, AdmissionTypeOK
      <4> QED
        BY <2>0, <3>1, <4>1, HitsKept
    <3>3. CASE HitBlocks(ip)
      BY <2>0, <3>1, <3>3, BlockingHit DEF HitBlocks
    <3>4. CASE HitCounted(ip)
      BY <2>0, <3>1, <3>4, CountedHit
    <3> QED
      BY <2>1, <3>2, <3>3, <3>4 DEF Probe
  <2>2. ASSUME NEW jp \in Ips, Unblock(jp)
        PROVE  HitsOf(ip)' /\ misses'[ip][2 * MaxHits] = NoEntry
    <3>1. CASE jp = ip
      <4>1. misses'[ip] = NoMisses /\ windowStart'[ip] = NoEntry
        BY <2>2, <3>1 DEF Unblock, ForgetBlock, AdmissionTypeOK
      <4>2. (HitsOf(ip) /\ misses[ip][2 * MaxHits] = NoEntry)'
        BY <4>1, RecentBounds DEF HitsOf, NoMisses
      <4> QED
        BY <4>2
    <3>2. CASE jp # ip
      <4>1. /\ misses'[ip] = misses[ip] /\ windowStart'[ip] = windowStart[ip] /\ now' = now
            /\ count'[ip] = count[ip] /\ blockedUntil'[ip] = blockedUntil[ip]
        BY <2>2, <3>2 DEF Unblock, ForgetBlock, AdmissionTypeOK
      <4> QED
        BY <2>0, <4>1, HitsKept
    <3> QED
      BY <3>1, <3>2
  <2>3. CASE Gc
    BY <2>0, <2>3, GcKeepsHits DEF Gc, historyVars
  <2>4. CASE Shutdown \/ Restart \/ CrashWhilePersisting
    <3>1. misses'[ip] = NoMisses /\ windowStart'[ip] = NoEntry
      BY <2>4 DEF Shutdown, Restart, CrashWhilePersisting, StartProcess, ForgetEveryone, Nobody
    <3> QED
      BY <3>1, RecentBounds DEF HitsOf, NoMisses
  <2>5. CASE Tick
    BY <2>0, <2>5, TickKeepsHits
  <2>6. CASE UNCHANGED <<now, misses, windowStart, count, blockedUntil>>
    BY <2>0, <2>6, HitsKept
  <2> QED
    BY <2>1, <2>2, <2>3, <2>4, <2>5, <2>6
       DEF AdmissionNext, RejectPermanent, AddPermanent,
           RemovePermanent, admissionVars, limiterVars, historyVars
<1>3. HitsInv => HitsBounded
  BY DEF HitsInv, HitsBounded
<1> QED
  BY <1>1, <1>2, <1>3, AdmissionTypeCorrect, PTL DEF AdmissionSpec

-----------------------------------------------------------------------------
(* The file.                                                               *)

\* A process whose last save succeeded (BlocklistManager._persist) leaves a file that a new
\* process reads as the list this one works with, all but the entry "unknown", after any edits,
\* failures, crashes and starts.
THEOREM FileCorrect == AdmissionSpec => []FileCurrent
<1>1. AdmissionInit => FileCurrent
  BY DEF AdmissionInit, FileCurrent, Loaded
<1>2. AdmissionTypeOK' /\ FileCurrent /\ [AdmissionNext]_admissionVars => FileCurrent'
  <2> SUFFICES ASSUME AdmissionTypeOK', FileCurrent, [AdmissionNext]_admissionVars
               PROVE  FileCurrent'
    OBVIOUS
  <2>1. ASSUME NEW ip \in Ips, AddPermanent(ip) \/ RemovePermanent(ip)
        PROVE  FileCurrent'
    <3>1. permanent' # NoEntry
      BY AdmissionAssumption DEF AdmissionAssumption, AdmissionTypeOK
    <3> QED
      BY <2>1, <3>1 DEF AddPermanent, RemovePermanent, Persist, FileCurrent, Loaded
  <2>2. CASE Restart \/ CrashWhilePersisting
    BY <2>2 DEF Restart, CrashWhilePersisting, StartProcess, FileCurrent, Loaded
  <2>3. CASE UNCHANGED <<permanent, file, unsaved>>
    BY <2>3 DEF FileCurrent, Loaded
  <2> QED
    BY <2>1, <2>2, <2>3
       DEF AdmissionNext, Probe, RejectPermanent, Unblock,
           Gc, Shutdown, Tick, admissionVars, blocklistVars
<1> QED
  BY <1>1, <1>2, AdmissionTypeCorrect, PTL DEF AdmissionSpec

-----------------------------------------------------------------------------
(* Blocks.                                                                 *)

\* No probe, collection or edit of the permanent list changes a block that has not expired
\* (RateLimiter.hit, _gc).
THEOREM BlocksCorrect == AdmissionSpec => BlockHolds
<1>1. AdmissionTypeOK /\ [AdmissionNext]_admissionVars
        => [\A ip \in Ips :
              Blocked(ip) /\ blockedUntil'[ip] # blockedUntil[ip]
                => Unblock(ip) \/ Shutdown \/ Restart \/ CrashWhilePersisting]_admissionVars
  <2> SUFFICES ASSUME AdmissionTypeOK, AdmissionNext, NEW ip \in Ips,
                      Blocked(ip), blockedUntil'[ip] # blockedUntil[ip]
               PROVE  Unblock(ip) \/ Shutdown \/ Restart \/ CrashWhilePersisting
    OBVIOUS
  <2>1. ASSUME NEW jp \in Ips, Probe(jp)
        PROVE  FALSE
    BY <2>1 DEF Probe, HitWhileBlocked, HitBlocks, HitCounted, AdmissionTypeOK
  <2>2. ASSUME NEW jp \in Ips, Unblock(jp)
        PROVE  Unblock(ip)
    BY <2>2 DEF Unblock, ForgetBlock, AdmissionTypeOK
  <2>3. CASE Gc
    BY <2>3 DEF Gc, GcUnblocks
  <2>4. CASE UNCHANGED blockedUntil
    BY <2>4
  <2> QED
    BY <2>1, <2>2, <2>3, <2>4
       DEF AdmissionNext, RejectPermanent, AddPermanent, RemovePermanent, Tick, limiterVars
<1> QED
  BY <1>1, AdmissionTypeCorrect, PTL DEF AdmissionSpec, BlockHolds

-----------------------------------------------------------------------------
(* Events.                                                                 *)

\* The limiter remembers the last event of an address, or enough time has passed since for it to
\* be forgotten.
EventsRemembered ==
  \A ip \in Ips : reported[ip] # NoEntry =>
    /\ reported[ip] <= now
    /\ \/ lastBlockEvent[ip] = reported[ip]
       \/ lastBlockEvent[ip] = NoEntry /\ now - reported[ip] > EventMemory

\* An event of an address is logged now.
LEMMA EmitWaits ==
  ASSUME AdmissionTypeOK, EventsRemembered, NEW ip \in Ips, EmitRequestBlocked(ip), now' = now
  PROVE  /\ EventsRemembered'
         /\ \A jp \in Ips : reported[jp] # NoEntry /\ reported'[jp] # reported[jp]
                              => reported'[jp] - reported[jp] >= Throttle
<1>1. CASE reported' = reported /\ lastBlockEvent' = lastBlockEvent
  BY <1>1 DEF EventsRemembered, EventMemory
<1>2. CASE /\ lastBlockEvent[ip] = NoEntry \/ now - lastBlockEvent[ip] >= Throttle
           /\ lastBlockEvent' = [lastBlockEvent EXCEPT ![ip] = now]
           /\ reported' = [reported EXCEPT ![ip] = now]
  <2>1. EventsRemembered'
    BY <1>2 DEF EventsRemembered, EventMemory, AdmissionTypeOK, Times
  <2>2. reported[ip] # NoEntry => now - reported[ip] >= Throttle
    BY <1>2, AdmissionAssumption
       DEF AdmissionAssumption, EventsRemembered, EventMemory, AdmissionTypeOK, Times
  <2> QED
    BY <1>2, <2>1, <2>2 DEF AdmissionTypeOK
<1> QED
  BY <1>1, <1>2 DEF EmitRequestBlocked

\* Two rate_limited events of an address are blockEventThrottleMs apart, although _gc forgets
\* the last one: it does so only when the throttle has passed.
THEOREM EventsCorrect == AdmissionSpec => EventsThrottled
<1>1. AdmissionInit => EventsRemembered
  BY DEF AdmissionInit, Nobody, EventsRemembered
<1>2. AdmissionTypeOK /\ EventsRemembered /\ [AdmissionNext]_admissionVars
        => /\ EventsRemembered'
           /\ [\A ip \in Ips :
                 reported[ip] # NoEntry /\ reported'[ip] \notin {NoEntry, reported[ip]}
                   => reported'[ip] - reported[ip] >= Throttle]_admissionVars
  <2> SUFFICES ASSUME AdmissionTypeOK, EventsRemembered, [AdmissionNext]_admissionVars
               PROVE  /\ EventsRemembered'
                      /\ \A ip \in Ips :
                           reported[ip] # NoEntry /\ reported'[ip] \notin {NoEntry, reported[ip]}
                             => reported'[ip] - reported[ip] >= Throttle
    OBVIOUS
  <2>1. ASSUME NEW ip \in Ips, Probe(ip), EmitRequestBlocked(ip)
        PROVE  /\ EventsRemembered'
               /\ \A jp \in Ips :
                    reported[jp] # NoEntry /\ reported'[jp] \notin {NoEntry, reported[jp]}
                      => reported'[jp] - reported[jp] >= Throttle
    BY <2>1, EmitWaits DEF Probe
  <2>2. ASSUME NEW ip \in Ips, Unblock(ip)
        PROVE  EventsRemembered' /\ \A jp \in Ips : reported'[jp] \in {NoEntry, reported[jp]}
    BY <2>2 DEF Unblock, ForgetBlock, EventsRemembered, EventMemory, AdmissionTypeOK
  <2>3. CASE Gc
    <3>1. reported' = reported /\ now' = now
      BY <2>3 DEF Gc, historyVars
    <3>2. \A ip \in Ips : lastBlockEvent'[ip] = IF OlderThan(lastBlockEvent[ip], EventMemory)
                                                  THEN NoEntry ELSE lastBlockEvent[ip]
      BY <2>3 DEF Gc
    <3> QED
      BY <3>1, <3>2 DEF EventsRemembered, EventMemory, OlderThan
  <2>4. CASE Shutdown \/ Restart \/ CrashWhilePersisting
    BY <2>4 DEF Shutdown, Restart, CrashWhilePersisting, StartProcess, ForgetEveryone, Nobody,
                EventsRemembered
  <2>5. CASE Tick
    BY <2>5, TickForgets, AdmissionAssumption
       DEF AdmissionAssumption, EventsRemembered, EventMemory, AdmissionTypeOK, Times, limiterVars
  <2>6. CASE UNCHANGED <<now, reported, lastBlockEvent>>
    BY <2>6 DEF EventsRemembered, EventMemory
  <2> QED
    BY <2>1, <2>2, <2>3, <2>4, <2>5, <2>6
       DEF AdmissionNext, Probe, HitWhileBlocked,
           HitBlocks, HitCounted, RejectPermanent, AddPermanent,
           RemovePermanent, admissionVars, limiterVars, blocklistVars, historyVars
<1> QED
  BY <1>1, <1>2, AdmissionTypeCorrect, PTL DEF AdmissionSpec, EventsThrottled

=============================================================================
