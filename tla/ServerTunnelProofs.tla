------------------------ MODULE ServerTunnelProofs --------------------------
(***************************************************************************)
(* Proofs about ServerTunnel, for every number of requests, sessions,      *)
(* connections and replacements: its invariants, and that it implements    *)
(* TunnelService.                                                          *)
(***************************************************************************)
EXTENDS ServerTunnelRefinement, FiniteSetTheorems, TLAPS

-----------------------------------------------------------------------------
(* The inductive invariant: how the tables of the tunnel, the sockets and  *)
(* the externals constrain each other.                                     *)

\* A request that has not arrived has left no trace, and every table speaks of requests
\* whose pair was asked for.
Traces ==
  /\ \A r \in Requests : external[r] = "idle" => r \notin requested /\ answer[r] = None
  /\ pairs \cup pending \cup kept \subseteq requested
  /\ \A r \in Requests, k \in SocketIds :
       <<r, k>> \in liveSockets \cup closingSockets => <<r, k>> \in seenSockets /\ r \in requested
  /\ liveSockets \cap closingSockets = {}

\* What is still waiting or in the table has no answer, and what waits has no socket.
Unanswered ==
  /\ \A r \in pairs \cup pending : answer[r] = None
  /\ \A r \in pending, k \in SocketIds : <<r, k>> \notin liveSockets \cup closingSockets

SocketInv ==
  /\ Traces
  /\ Unanswered
  /\ ServedHoldsSlot
  /\ PairSocketsKnown
  /\ RefusedNeverServed

ControlInv ==
  /\ OneControl
  /\ ConnectedAfterHello
  /\ WindowTicking

-----------------------------------------------------------------------------
(* Types.                                                                  *)

\* A new tunnel has well-formed tables.
LEMMA InitTypeOK == Init => TypeOK
BY ServerTunnelAssumption DEF Init, TypeOK, SocketIds, Sockets

\* Every callback of the tunnel leaves its tables well formed.
LEMMA StepTypeOK == TypeOK /\ [Next]_vars => TypeOK'
<1> SUFFICES ASSUME TypeOK, [Next]_vars PROVE TypeOK'
  OBVIOUS
<1> USE ServerTunnelAssumption DEF TypeOK, SocketIds, Sockets
<1>1. ASSUME NEW s \in Sessions, AttachControlSession(s) PROVE TypeOK'
  BY <1>1 DEF AttachControlSession, TakeControl, Supersede, LoseControl, StartReconnectWindow,
              pairVars, socketVars, externalVars
<1>2. ASSUME NEW s \in Sessions, NEW inflightPairs \in SUBSET Listable, OnHello(s, inflightPairs)
      PROVE  TypeOK'
  BY <1>2 DEF OnHello, Keepable, ClearReconnectTimer, DestroySockets, externalVars
<1>3. ASSUME NEW s \in Sessions, ControlSessionClose(s) PROVE TypeOK'
  BY <1>3 DEF ControlSessionClose, LoseControl, StartReconnectWindow, pairVars, socketVars,
              externalVars
<1>4. ASSUME NEW T \in SUBSET Sessions, DestroyTunnel(T) PROVE TypeOK'
  BY <1>4 DEF DestroyTunnel, ForgetPairs, DestroyAgent, DestroySockets, Reply
<1>5. CASE Destroy
  BY <1>4, <1>5 DEF Destroy
<1>6. ASSUME NEW t \in Sessions, WindowExpires(t) PROVE TypeOK'
  <2>1. CASE DestroyTunnel({t})
    BY <1>4, <2>1
  <2>2. CASE ~DestroyTunnel({t})
    BY <1>6, <2>2 DEF WindowExpires, pairVars, socketVars, externalVars
  <2> QED
    BY <2>1, <2>2
<1>7. ASSUME NEW r \in Requests, RefuseRequest(r) PROVE TypeOK'
  BY <1>7 DEF RefuseRequest, controlVars, pairVars, socketVars
<1>8. ASSUME NEW r \in Requests, OpenPair(r) PROVE TypeOK'
  BY <1>8 DEF OpenPair, controlVars, socketVars
<1>9. ASSUME NEW r \in Requests, ReservationTimeout(r) PROVE TypeOK'
  BY <1>9 DEF ReservationTimeout, ForgetPairs, Reply, controlVars, socketVars
<1>10. ASSUME NEW r \in Requests, DataSocketArrives(r) PROVE TypeOK'
  BY <1>10 DEF DataSocketArrives, controlVars, externalVars
<1>11. ASSUME NEW r \in Requests, NEW k \in SocketIds, ReplacementArrives(r, k) PROVE TypeOK'
  BY <1>11 DEF ReplacementArrives, SwapSocket, controlVars, externalVars
<1>12. ASSUME NEW r \in Requests, PairFailed(r) PROVE TypeOK'
  BY <1>12 DEF PairFailed, TeardownPairs, ForgetPairs, DestroySockets, Reply, controlVars
<1>13. ASSUME NEW r \in Requests, ResponseHeaders(r) PROVE TypeOK'
  BY <1>13 DEF ResponseHeaders, controlVars, pairVars, socketVars
<1>14. ASSUME NEW r \in Requests, ResponseCompletes(r) PROVE TypeOK'
  BY <1>14 DEF ResponseCompletes, ForgetPairs, Reply, controlVars, socketVars
<1>15. ASSUME NEW r \in Requests, NEW k \in SocketIds, DataSocketEnds(r, k) PROVE TypeOK'
  BY <1>15 DEF DataSocketEnds, EndResponse, ForgetPairs, DestroySockets, Reply, controlVars
<1>16. ASSUME NEW r \in Requests, NEW k \in SocketIds, DataSocketFails(r, k) PROVE TypeOK'
  BY <1>16 DEF DataSocketFails, EndResponse, ForgetPairs, DestroySockets, Reply, controlVars
<1>17. ASSUME NEW r \in Requests, NEW k \in SocketIds, DataSocketClosed(r, k) PROVE TypeOK'
  BY <1>17 DEF DataSocketClosed, ForgetPairs, controlVars
<1>18. ASSUME NEW r \in Requests, HttpExternalCloses(r) PROVE TypeOK'
  BY <1>18 DEF HttpExternalCloses, TeardownPairs, ForgetPairs, DestroySockets, controlVars,
               socketVars
<1>19. ASSUME NEW r \in Requests, NEW failed \in BOOLEAN, WsExternalCloses(r, failed) PROVE TypeOK'
  BY <1>19 DEF WsExternalCloses, ForgetPairs, DestroySockets, controlVars, socketVars
<1>20. CASE UNCHANGED vars
  BY <1>20 DEF vars, controlVars, pairVars, socketVars, externalVars
<1> QED
  BY <1>1, <1>2, <1>3, <1>5, <1>6, <1>7, <1>8, <1>9, <1>10, <1>11, <1>12, <1>13, <1>14, <1>15,
     <1>16, <1>17, <1>18, <1>19, <1>20 DEF Next

\* The tables of a tunnel stay well formed.
THEOREM TypeCorrect == Spec => []TypeOK
<1> QED
  BY InitTypeOK, StepTypeOK, PTL DEF Spec

-----------------------------------------------------------------------------
(* The control channel.                                                    *)

\* Every step that touches the control channel at all is one of these.
ControlStep ==
  \/ \E s \in Sessions : AttachControlSession(s)
  \/ \E s \in Sessions, inflightPairs \in SUBSET Listable : OnHello(s, inflightPairs)
  \/ \E s \in Sessions : ControlSessionClose(s)
  \/ \E T \in SUBSET Sessions : DestroyTunnel(T)
  \/ \E t \in Sessions : WindowExpires(t)

\* Requests, data sockets and externals never touch the control channel of the tunnel.
LEMMA NextControl == [Next]_vars => ControlStep \/ UNCHANGED controlVars
<1> SUFFICES ASSUME [Next]_vars PROVE ControlStep \/ UNCHANGED controlVars
  OBVIOUS
<1>1. CASE Destroy
  BY <1>1 DEF Destroy, ControlStep
<1>2. CASE UNCHANGED vars
  BY <1>2 DEF vars
<1>3. CASE Next /\ ~Destroy
  BY <1>3 DEF Next, ControlStep, RefuseRequest, OpenPair, ReservationTimeout, DataSocketArrives,
              ReplacementArrives, PairFailed, ResponseHeaders, ResponseCompletes, DataSocketEnds,
              DataSocketFails, DataSocketClosed, HttpExternalCloses, WsExternalCloses
<1> QED
  BY <1>1, <1>2, <1>3

\* Attaching, superseding, losing, greeting and expiring keep the control channel in order.
LEMMA StepControlInv == TypeOK /\ ControlInv /\ [Next]_vars => ControlInv'
<1> SUFFICES ASSUME TypeOK, ControlInv, [Next]_vars PROVE ControlInv'
  OBVIOUS
<1> USE ServerTunnelAssumption
    DEF TypeOK, ControlInv, OneControl, ConnectedAfterHello, WindowTicking
<1>1. ASSUME NEW s \in Sessions, AttachControlSession(s) PROVE ControlInv'
  BY <1>1 DEF AttachControlSession, TakeControl, Supersede, LoseControl, StartReconnectWindow
<1>2. ASSUME NEW s \in Sessions, NEW inflightPairs \in SUBSET Listable, OnHello(s, inflightPairs)
      PROVE  ControlInv'
  BY <1>2 DEF OnHello, ClearReconnectTimer
<1>3. ASSUME NEW s \in Sessions, ControlSessionClose(s) PROVE ControlInv'
  BY <1>3 DEF ControlSessionClose, LoseControl, StartReconnectWindow
<1>4. ASSUME NEW T \in SUBSET Sessions, DestroyTunnel(T) PROVE ControlInv'
  BY <1>4 DEF DestroyTunnel
<1>5. ASSUME NEW t \in Sessions, WindowExpires(t) PROVE ControlInv'
  BY <1>4, <1>5 DEF WindowExpires
<1>6. CASE UNCHANGED controlVars
  BY <1>6 DEF controlVars
<1> QED
  BY <1>1, <1>2, <1>3, <1>4, <1>5, <1>6, NextControl DEF ControlStep

\* One open session at most, connected only after its hello, and a ticking timer whenever the
\* tunnel waits for a reconnection: for any number of sessions, in any order of attaching,
\* superseding, closing and expiring.
THEOREM ControlCorrect == Spec => []SessionsConsistent
<1>1. Init => ControlInv
  BY ServerTunnelAssumption
     DEF Init, ControlInv, OneControl, ConnectedAfterHello, WindowTicking
<1>2. ControlInv <=> SessionsConsistent
  BY DEF ControlInv, SessionsConsistent
<1> QED
  BY <1>1, <1>2, TypeCorrect, StepControlInv, PTL DEF Spec

-----------------------------------------------------------------------------
(* The limit on pairs.                                                     *)

FiniteSlots == IsFiniteSet(pairs) /\ SlotsBounded

\* Only _openPair adds to the table of pairs, one pair at a time and behind its limit.
LEMMA NextPairs ==
  [Next]_vars => pairs' \subseteq pairs \/ \E r \in Requests : SlotFree /\ pairs' = pairs \cup {r}
<1> SUFFICES ASSUME [Next]_vars
             PROVE  pairs' \subseteq pairs
                    \/ \E r \in Requests : SlotFree /\ pairs' = pairs \cup {r}
  OBVIOUS
<1>1. ASSUME NEW s \in Sessions, AttachControlSession(s) PROVE pairs' = pairs
  BY <1>1 DEF AttachControlSession, pairVars
<1>2. ASSUME NEW s \in Sessions, NEW inflightPairs \in SUBSET Listable, OnHello(s, inflightPairs)
      PROVE  pairs' \subseteq pairs
  BY <1>2 DEF OnHello
<1>3. ASSUME NEW t \in Sessions, WindowExpires(t) PROVE pairs' \subseteq pairs
  BY <1>3 DEF WindowExpires, DestroyTunnel, ForgetPairs, pairVars
<1>4. ASSUME NEW s \in Sessions, ControlSessionClose(s) PROVE pairs' = pairs
  BY <1>4 DEF ControlSessionClose, pairVars
<1>5. CASE Destroy
  BY <1>5 DEF Destroy, DestroyTunnel, ForgetPairs
<1>6. ASSUME NEW r \in Requests, OpenPair(r) PROVE SlotFree /\ pairs' = pairs \cup {r}
  BY <1>6 DEF OpenPair
<1>7. ASSUME NEW r \in Requests,
             \/ RefuseRequest(r) \/ ReservationTimeout(r) \/ DataSocketArrives(r)
             \/ PairFailed(r) \/ ResponseHeaders(r) \/ ResponseCompletes(r)
             \/ HttpExternalCloses(r)
             \/ \E failed \in BOOLEAN : WsExternalCloses(r, failed)
      PROVE  pairs' \subseteq pairs
  BY <1>7 DEF RefuseRequest, ReservationTimeout, DataSocketArrives, PairFailed, ResponseHeaders,
              ResponseCompletes, HttpExternalCloses, WsExternalCloses, TeardownPairs,
              ForgetPairs, pairVars
<1>8. ASSUME NEW r \in Requests, NEW k \in SocketIds,
             \/ ReplacementArrives(r, k) \/ DataSocketEnds(r, k) \/ DataSocketFails(r, k)
             \/ DataSocketClosed(r, k)
      PROVE  pairs' \subseteq pairs
  BY <1>8 DEF ReplacementArrives, DataSocketEnds, DataSocketFails, DataSocketClosed, EndResponse,
              ForgetPairs
<1>9. CASE UNCHANGED vars
  BY <1>9 DEF vars, pairVars
<1> QED
  BY <1>1, <1>2, <1>3, <1>4, <1>5, <1>6, <1>7, <1>8, <1>9 DEF Next

\* Every callback keeps the table of pairs finite and within maxConnections.
LEMMA StepFiniteSlots == FiniteSlots /\ [Next]_vars => FiniteSlots'
<1> SUFFICES ASSUME FiniteSlots, [Next]_vars PROVE FiniteSlots'
  OBVIOUS
<1> USE DEF FiniteSlots, SlotsBounded
<1>1. CASE pairs' \subseteq pairs
  <2>1. IsFiniteSet(pairs') /\ Cardinality(pairs') <= Cardinality(pairs)
    BY <1>1, FS_Subset
  <2>2. Cardinality(pairs) \in Nat /\ Cardinality(pairs') \in Nat
    BY <2>1, FS_CardinalityType
  <2> QED
    BY <2>1, <2>2, ServerTunnelAssumption
<1>2. ASSUME NEW r \in Requests, SlotFree, pairs' = pairs \cup {r} PROVE FiniteSlots'
  <2>1. /\ IsFiniteSet(pairs')
        /\ Cardinality(pairs') = Cardinality(pairs) \/ Cardinality(pairs') = Cardinality(pairs) + 1
    BY <1>2, FS_AddElement
  <2>2. Cardinality(pairs) \in Nat
    BY FS_CardinalityType
  <2> QED
    BY <1>2, <2>1, <2>2, ServerTunnelAssumption DEF SlotFree
<1> QED
  BY <1>1, <1>2, NextPairs

\* The table of pairs never outgrows maxConnections.
THEOREM SlotsCorrect == Spec => []SlotsBounded
<1>1. Init => FiniteSlots
  BY FS_EmptySet, ServerTunnelAssumption DEF Init, FiniteSlots, SlotsBounded
<1>2. FiniteSlots => SlotsBounded
  BY DEF FiniteSlots
<1> QED
  BY <1>1, <1>2, StepFiniteSlots, PTL DEF Spec

-----------------------------------------------------------------------------
(* Pairs, their sockets and their externals.                               *)

\* A new tunnel has no pair, no socket and no external.
LEMMA InitSocketInv == Init => SocketInv
BY ServerTunnelAssumption
   DEF Init, SocketInv, Traces, Unanswered, ServedHoldsSlot, PairSocketsKnown,
       RefusedNeverServed, SocketIds, Sockets

\* Every callback keeps pairs, reservations, sockets and externals in agreement.
LEMMA StepSocketInv == TypeOK /\ SocketInv /\ [Next]_vars => SocketInv'
<1> SUFFICES ASSUME TypeOK, SocketInv, [Next]_vars PROVE SocketInv'
  OBVIOUS
<1> USE DEF TypeOK, SocketIds, Sockets, SocketInv, Traces, Unanswered,
            ServedHoldsSlot, PairSocketsKnown, RefusedNeverServed
<1>1. CASE UNCHANGED <<pairVars, socketVars, externalVars>>
  BY <1>1 DEF pairVars, socketVars, externalVars
<1>2. ASSUME NEW s \in Sessions, NEW inflightPairs \in SUBSET Listable, OnHello(s, inflightPairs)
      PROVE  SocketInv'
  <2>1. Traces'
    BY <1>2 DEF OnHello, Keepable, DestroySockets, DataSocketsOf, externalVars
  <2>2. Unanswered'
    BY ServerTunnelAssumption, <1>2
       DEF OnHello, Keepable, DestroySockets, DataSocketsOf, externalVars
  <2>3. ServedHoldsSlot'
    BY <1>2 DEF OnHello, Keepable, DestroySockets, DataSocketsOf, externalVars
  <2>4. PairSocketsKnown'
    BY <1>2 DEF OnHello, Keepable, DestroySockets, DataSocketsOf, externalVars
  <2>5. RefusedNeverServed'
    BY ServerTunnelAssumption, <1>2
       DEF OnHello, Keepable, DestroySockets, DataSocketsOf, externalVars
  <2> QED
    BY <2>1, <2>2, <2>3, <2>4, <2>5 DEF SocketInv
<1>3. ASSUME NEW T \in SUBSET Sessions, DestroyTunnel(T) PROVE SocketInv'
  <2>1. Traces'
    BY <1>3 DEF DestroyTunnel, ForgetPairs, DestroyAgent, DestroySockets, Reply, DataSocketsOf,
                ActiveSocketsOf
  <2>2. Unanswered'
    BY ServerTunnelAssumption, <1>3
       DEF DestroyTunnel, ForgetPairs, DestroyAgent, DestroySockets, Reply, DataSocketsOf,
           ActiveSocketsOf
  <2>3. ServedHoldsSlot'
    <3> SUFFICES ASSUME NEW r \in Requests, NEW k \in SocketIds, external'[r] = "open",
                        <<r, k>> \in liveSockets'
                 PROVE  FALSE
      BY <1>3 DEF DestroyTunnel, DestroyAgent
    <3>1. external[r] = "open" /\ <<r, k>> \in liveSockets
      BY <1>3 DEF DestroyTunnel, DestroySockets, Reply
    <3>2. r \in pairs /\ dataSocket[r] = k
      BY <3>1
    <3>3. <<r, k>> \in DataSocketsOf(pairs)
      BY <3>2 DEF DataSocketsOf
    <3> QED
      BY <1>3, <3>3 DEF DestroyTunnel, DestroySockets
  <2>4. PairSocketsKnown'
    BY <1>3 DEF DestroyTunnel, ForgetPairs, DestroyAgent, DestroySockets, Reply, DataSocketsOf,
                ActiveSocketsOf
  <2>5. RefusedNeverServed'
    BY ServerTunnelAssumption, <1>3
       DEF DestroyTunnel, ForgetPairs, DestroyAgent, DestroySockets, Reply, DataSocketsOf,
           ActiveSocketsOf
  <2> QED
    BY <2>1, <2>2, <2>3, <2>4, <2>5 DEF SocketInv
<1>4. ASSUME NEW r \in Requests, RefuseRequest(r) PROVE SocketInv'
  BY ServerTunnelAssumption, <1>4 DEF RefuseRequest, pairVars, socketVars
<1>5. ASSUME NEW r \in Requests, OpenPair(r) PROVE SocketInv'
  BY ServerTunnelAssumption, <1>5 DEF OpenPair, socketVars
<1>6. ASSUME NEW r \in Requests, ReservationTimeout(r) PROVE SocketInv'
  <2>1. Traces'
    BY <1>6 DEF ReservationTimeout, ForgetPairs, Reply, socketVars
  <2>2. Unanswered'
    BY ServerTunnelAssumption, <1>6 DEF ReservationTimeout, ForgetPairs, Reply, socketVars
  <2>3. ServedHoldsSlot'
    BY <1>6 DEF ReservationTimeout, ForgetPairs, Reply, socketVars
  <2>4. PairSocketsKnown'
    BY <1>6 DEF ReservationTimeout, ForgetPairs, Reply, socketVars
  <2>5. RefusedNeverServed'
    BY ServerTunnelAssumption, <1>6 DEF ReservationTimeout, ForgetPairs, Reply, socketVars
  <2> QED
    BY <2>1, <2>2, <2>3, <2>4, <2>5 DEF SocketInv
<1>7. ASSUME NEW r \in Requests, DataSocketArrives(r) PROVE SocketInv'
  <2>1. Traces'
    <3>1. \A q \in Requests : external'[q] = "idle" => q \notin requested' /\ answer'[q] = None
      BY <1>7 DEF DataSocketArrives, externalVars
    <3>2. (pairs \cup pending \cup kept)' \subseteq requested'
      BY <1>7 DEF DataSocketArrives, externalVars
    <3>3. \A q \in Requests, j \in SocketIds :
            <<q, j>> \in liveSockets' \cup closingSockets'
              => <<q, j>> \in seenSockets' /\ q \in requested'
      BY <1>7 DEF DataSocketArrives, externalVars
    <3>4. liveSockets' \cap closingSockets' = {}
      <4> SUFFICES ASSUME NEW d \in Sockets, d \in liveSockets', d \in closingSockets' PROVE FALSE
        BY StepTypeOK
      <4> QED
        BY <1>7 DEF DataSocketArrives, externalVars
    <3> QED
      BY <3>1, <3>2, <3>3, <3>4
  <2>2. Unanswered'
    BY ServerTunnelAssumption, <1>7 DEF DataSocketArrives, externalVars
  <2>3. ServedHoldsSlot'
    <3> SUFFICES ASSUME NEW q \in Requests, external'[q] = "open",
                        q \in pending' \/ \E k \in SocketIds : <<q, k>> \in liveSockets'
                 PROVE  q \in pairs'
      OBVIOUS
    <3>1. q \in pending \/ \E k \in SocketIds : <<q, k>> \in liveSockets
      BY <1>7 DEF DataSocketArrives
    <3> QED
      BY <1>7, <3>1 DEF DataSocketArrives, externalVars
  <2>4. PairSocketsKnown'
    BY <1>7 DEF DataSocketArrives, externalVars
  <2>5. RefusedNeverServed'
    BY ServerTunnelAssumption, <1>7 DEF DataSocketArrives, externalVars
  <2> QED
    BY <2>1, <2>2, <2>3, <2>4, <2>5 DEF SocketInv
<1>8. ASSUME NEW r \in Requests, NEW k \in SocketIds, ReplacementArrives(r, k) PROVE SocketInv'
  <2>1. Traces'
    <3>1. \A q \in Requests : external'[q] = "idle" => q \notin requested' /\ answer'[q] = None
      BY <1>8 DEF ReplacementArrives, SwapSocket, Replaceable, externalVars
    <3>2. (pairs \cup pending \cup kept)' \subseteq requested'
      BY <1>8 DEF ReplacementArrives, SwapSocket, Replaceable, externalVars
    <3>3. \A q \in Requests, j \in SocketIds :
            <<q, j>> \in liveSockets' \cup closingSockets'
              => <<q, j>> \in seenSockets' /\ q \in requested'
      BY <1>8 DEF ReplacementArrives, SwapSocket, Replaceable, externalVars
    <3>4. liveSockets' \cap closingSockets' = {}
      <4> SUFFICES ASSUME NEW d \in Sockets, d \in liveSockets', d \in closingSockets' PROVE FALSE
        BY StepTypeOK
      <4> QED
        BY <1>8 DEF ReplacementArrives, SwapSocket, Replaceable, externalVars
    <3> QED
      BY <3>1, <3>2, <3>3, <3>4
  <2>2. Unanswered'
    BY ServerTunnelAssumption, <1>8
       DEF ReplacementArrives, SwapSocket, Replaceable, externalVars
  <2>3. ServedHoldsSlot'
    BY <1>8 DEF ReplacementArrives, SwapSocket, Replaceable, externalVars
  <2>4. PairSocketsKnown'
    BY <1>8 DEF ReplacementArrives, SwapSocket, Replaceable, externalVars
  <2>5. RefusedNeverServed'
    BY ServerTunnelAssumption, <1>8
       DEF ReplacementArrives, SwapSocket, Replaceable, externalVars
  <2> QED
    BY <2>1, <2>2, <2>3, <2>4, <2>5 DEF SocketInv
<1>9. ASSUME NEW r \in Requests, PairFailed(r) PROVE SocketInv'
  <2>1. Traces'
    BY <1>9 DEF PairFailed, TeardownPairs, ForgetPairs, DestroySockets, Reply, DataSocketsOf,
                ActiveSocketsOf
  <2>2. Unanswered'
    BY ServerTunnelAssumption, <1>9
       DEF PairFailed, TeardownPairs, ForgetPairs, DestroySockets, Reply, DataSocketsOf,
           ActiveSocketsOf
  <2>3. ServedHoldsSlot'
    <3> SUFFICES ASSUME NEW q \in Requests, external'[q] = "open",
                        q \in pending' \/ \E k \in SocketIds : <<q, k>> \in liveSockets'
                 PROVE  q \in pairs'
      OBVIOUS
    <3>1. external[q] = "open"
      BY <1>9 DEF PairFailed, Reply
    <3>2. q \in pending \/ \E k \in SocketIds : <<q, k>> \in liveSockets
      BY <1>9 DEF PairFailed, TeardownPairs, DestroySockets
    <3>3. CASE q # r
      BY <1>9, <3>1, <3>2, <3>3 DEF PairFailed, TeardownPairs, ForgetPairs
    <3>4. CASE q = r
      <4>1. r \notin pending /\ r \notin pending'
        BY <1>9, <3>4 DEF PairFailed, Reply
      <4>2. PICK k \in SocketIds : <<r, k>> \in liveSockets'
        BY <3>4, <4>1
      <4>3. <<r, k>> \in liveSockets /\ dataSocket[r] = k
        BY <1>9, <4>2 DEF PairFailed, TeardownPairs, DestroySockets
      <4>4. <<r, k>> \in DataSocketsOf({r} \cap pairs)
        BY <1>9, <4>3 DEF PairFailed, DataSocketsOf
      <4> QED
        BY <1>9, <4>2, <4>4 DEF PairFailed, TeardownPairs, DestroySockets
    <3> QED
      BY <3>3, <3>4
  <2>4. PairSocketsKnown'
    BY <1>9 DEF PairFailed, TeardownPairs, ForgetPairs, DestroySockets, Reply, DataSocketsOf,
                ActiveSocketsOf
  <2>5. RefusedNeverServed'
    BY ServerTunnelAssumption, <1>9
       DEF PairFailed, TeardownPairs, ForgetPairs, DestroySockets, Reply, DataSocketsOf,
           ActiveSocketsOf
  <2> QED
    BY <2>1, <2>2, <2>3, <2>4, <2>5 DEF SocketInv
<1>10. ASSUME NEW r \in Requests, ResponseHeaders(r) PROVE SocketInv'
  BY ServerTunnelAssumption, <1>10 DEF ResponseHeaders, pairVars, socketVars
<1>11. ASSUME NEW r \in Requests, ResponseCompletes(r) PROVE SocketInv'
  <2>1. Traces'
    BY <1>11 DEF ResponseCompletes, Relaying, ForgetPairs, Reply, socketVars
  <2>2. Unanswered'
    BY ServerTunnelAssumption, <1>11
       DEF ResponseCompletes, Relaying, ForgetPairs, Reply, socketVars
  <2>3. ServedHoldsSlot'
    BY <1>11 DEF ResponseCompletes, Relaying, ForgetPairs, Reply, socketVars
  <2>4. PairSocketsKnown'
    BY <1>11 DEF ResponseCompletes, Relaying, ForgetPairs, Reply, socketVars
  <2>5. RefusedNeverServed'
    BY ServerTunnelAssumption, <1>11
       DEF ResponseCompletes, Relaying, ForgetPairs, Reply, socketVars
  <2> QED
    BY <2>1, <2>2, <2>3, <2>4, <2>5 DEF SocketInv
<1>12. ASSUME NEW r \in Requests, NEW k \in SocketIds, DataSocketEnds(r, k) PROVE SocketInv'
  <2>1. Traces'
    BY <1>12 DEF DataSocketEnds, EndResponse, ForgetPairs, DestroySockets, Reply
  <2>2. Unanswered'
    BY ServerTunnelAssumption, <1>12
       DEF DataSocketEnds, EndResponse, ForgetPairs, DestroySockets, Reply
  <2>3. ServedHoldsSlot'
    BY <1>12 DEF DataSocketEnds, EndResponse, ForgetPairs, DestroySockets, Reply
  <2>4. PairSocketsKnown'
    BY <1>12 DEF DataSocketEnds, EndResponse, ForgetPairs, DestroySockets, Reply
  <2>5. RefusedNeverServed'
    BY ServerTunnelAssumption, <1>12
       DEF DataSocketEnds, EndResponse, ForgetPairs, DestroySockets, Reply
  <2> QED
    BY <2>1, <2>2, <2>3, <2>4, <2>5 DEF SocketInv
<1>13. ASSUME NEW r \in Requests, NEW k \in SocketIds, DataSocketFails(r, k) PROVE SocketInv'
  <2>1. Traces'
    BY <1>13 DEF DataSocketFails, EndResponse, ForgetPairs, DestroySockets, Reply
  <2>2. Unanswered'
    BY ServerTunnelAssumption, <1>13
       DEF DataSocketFails, EndResponse, ForgetPairs, DestroySockets, Reply
  <2>3. ServedHoldsSlot'
    BY <1>13 DEF DataSocketFails, EndResponse, ForgetPairs, DestroySockets, Reply
  <2>4. PairSocketsKnown'
    BY <1>13 DEF DataSocketFails, EndResponse, ForgetPairs, DestroySockets, Reply
  <2>5. RefusedNeverServed'
    BY ServerTunnelAssumption, <1>13
       DEF DataSocketFails, EndResponse, ForgetPairs, DestroySockets, Reply
  <2> QED
    BY <2>1, <2>2, <2>3, <2>4, <2>5 DEF SocketInv
<1>14. ASSUME NEW r \in Requests, NEW k \in SocketIds, DataSocketClosed(r, k) PROVE SocketInv'
  <2>1. Traces'
    BY <1>14 DEF DataSocketClosed, ForgetPairs
  <2>2. Unanswered'
    BY ServerTunnelAssumption, <1>14 DEF DataSocketClosed, ForgetPairs
  <2>3. ServedHoldsSlot'
    BY <1>14 DEF DataSocketClosed, ForgetPairs
  <2>4. PairSocketsKnown'
    BY <1>14 DEF DataSocketClosed, ForgetPairs
  <2>5. RefusedNeverServed'
    BY ServerTunnelAssumption, <1>14 DEF DataSocketClosed, ForgetPairs
  <2> QED
    BY <2>1, <2>2, <2>3, <2>4, <2>5 DEF SocketInv
<1>15. ASSUME NEW r \in Requests, HttpExternalCloses(r) PROVE SocketInv'
  BY ServerTunnelAssumption, <1>15
     DEF HttpExternalCloses, TeardownPairs, ForgetPairs, DestroySockets, DataSocketsOf,
         ActiveSocketsOf, socketVars
<1>16. ASSUME NEW r \in Requests, NEW failed \in BOOLEAN, WsExternalCloses(r, failed)
       PROVE  SocketInv'
  BY ServerTunnelAssumption, <1>16 DEF WsExternalCloses, ForgetPairs, DestroySockets, socketVars
<1>17. ASSUME NEW s \in Sessions, AttachControlSession(s) \/ ControlSessionClose(s)
       PROVE  SocketInv'
  BY <1>1, <1>17 DEF AttachControlSession, ControlSessionClose
<1>18. ASSUME NEW t \in Sessions, WindowExpires(t) PROVE SocketInv'
  BY <1>1, <1>3, <1>18 DEF WindowExpires
<1>19. CASE Destroy
  BY <1>3, <1>19 DEF Destroy
<1>20. CASE UNCHANGED vars
  BY <1>1, <1>20 DEF vars, controlVars
<1> HIDE DEF TypeOK, SocketInv
<1> QED
  BY <1>2, <1>4, <1>5, <1>6, <1>7, <1>8, <1>9, <1>10, <1>11, <1>12, <1>13, <1>14, <1>15, <1>16,
     <1>17, <1>18, <1>19, <1>20 DEF Next

\* Whatever order hellos, replacements, timeouts, failures and closes come in: an external that
\* is served holds a slot, a pair remembers its live socket and a refused request is not served.
THEOREM SocketsCorrect == Spec => []SocketsConsistent
<1>1. SocketInv /\ SlotsBounded => SocketsConsistent
  BY DEF SocketInv, SocketsConsistent
<1> QED
  BY <1>1, TypeCorrect, SlotsCorrect, InitSocketInv, StepSocketInv, PTL DEF Spec

-----------------------------------------------------------------------------
(* The end of the tunnel.                                                  *)

\* The step that destroys the tunnel leaves nothing behind it.
LEMMA DestroyLeavesNothing ==
  ASSUME TypeOK, ControlInv, SocketInv, NEW T \in SUBSET Sessions, DestroyTunnel(T)
  PROVE  DestroyedOwnsNothing'
<1> USE DEF TypeOK, SocketIds, Sockets
<1>1. pairs' = {} /\ pending' = {}
  BY DEF DestroyTunnel, ForgetPairs, DestroyAgent
<1>2. \A s \in Sessions : session'[s] # "open"
  BY DEF DestroyTunnel, ControlInv, OneControl
<1>3. ASSUME NEW d \in liveSockets' PROVE external'[d[1]] # "open"
  <2>1. PICK r \in Requests, k \in SocketIds : d = <<r, k>>
    BY <1>3, StepTypeOK DEF DestroyTunnel, DestroySockets
  <2>2. <<r, k>> \in liveSockets
    BY <1>3, <2>1 DEF DestroyTunnel, DestroySockets
  <2>3. <<r, k>> \notin DataSocketsOf(pairs)
    BY <1>3, <2>1 DEF DestroyTunnel, DestroySockets
  <2>4. r \notin pairs
    BY <2>2, <2>3 DEF SocketInv, PairSocketsKnown, DataSocketsOf
  <2>5. external[r] # "open"
    BY <2>2, <2>4 DEF SocketInv, ServedHoldsSlot
  <2>6. external'[r] # "open"
    BY <2>5 DEF DestroyTunnel, Reply
  <2> QED
    BY <2>1, <2>6
<1> QED
  BY <1>1, <1>2, <1>3 DEF DestroyedOwnsNothing

\* After that no step gives it anything: whatever was alive can only end.
LEMMA DestroyedStaysEmpty ==
  ASSUME TypeOK, ControlInv, SocketInv, DestroyedOwnsNothing, closed, Next
  PROVE  DestroyedOwnsNothing'
<1> USE DEF TypeOK, SocketIds, Sockets, DestroyedOwnsNothing
<1>1. ~HasControl
  BY DEF ControlInv, OneControl, HasControl
<1>2. ASSUME UNCHANGED <<session, pairs, pending, liveSockets>>,
             \A r \in Requests : external[r] # "open" => external'[r] # "open"
      PROVE  DestroyedOwnsNothing'
  BY <1>2
<1>3. ASSUME UNCHANGED session, pairs' \subseteq pairs, pending' \subseteq pending,
             liveSockets' \subseteq liveSockets,
             \A r \in Requests : external[r] # "open" => external'[r] # "open"
      PROVE  DestroyedOwnsNothing'
  BY <1>3
<1>4. ASSUME NEW s \in Sessions, AttachControlSession(s) PROVE DestroyedOwnsNothing'
  BY <1>4 DEF AttachControlSession, pairVars, socketVars, externalVars
<1>5. ASSUME NEW s \in Sessions, ControlSessionClose(s) PROVE DestroyedOwnsNothing'
  BY <1>5 DEF ControlSessionClose
<1>6. ASSUME NEW t \in Sessions, WindowExpires(t) PROVE DestroyedOwnsNothing'
  BY <1>2, <1>6 DEF WindowExpires, pairVars, socketVars, externalVars
<1>7. ASSUME NEW r \in Requests,
             \/ OpenPair(r) \/ RefuseRequest(r) \/ ReservationTimeout(r) \/ PairFailed(r)
             \/ ResponseCompletes(r)
      PROVE  FALSE
  BY <1>1, <1>7 DEF OpenPair, RefuseRequest, ReservationTimeout, PairFailed, ResponseCompletes,
                    Relaying
<1>8. ASSUME NEW r \in Requests, DataSocketArrives(r) \/ ResponseHeaders(r)
      PROVE  DestroyedOwnsNothing'
  BY <1>3, <1>8 DEF DataSocketArrives, ResponseHeaders, controlVars, pairVars, socketVars,
                    externalVars
<1>9. ASSUME NEW r \in Requests, NEW k \in SocketIds, ReplacementArrives(r, k)
      PROVE  DestroyedOwnsNothing'
  BY <1>3, <1>9 DEF ReplacementArrives, Replaceable, controlVars, externalVars
<1>10. ASSUME NEW r \in Requests, NEW k \in SocketIds,
              DataSocketEnds(r, k) \/ DataSocketFails(r, k)
       PROVE  DestroyedOwnsNothing'
  BY <1>3, <1>10 DEF DataSocketEnds, DataSocketFails, EndResponse, ForgetPairs, DestroySockets,
                     Reply, controlVars
<1>11. ASSUME NEW r \in Requests, NEW k \in SocketIds, DataSocketClosed(r, k)
       PROVE  DestroyedOwnsNothing'
  BY <1>3, <1>11 DEF DataSocketClosed, ForgetPairs, controlVars
<1>12. ASSUME NEW r \in Requests, HttpExternalCloses(r) PROVE DestroyedOwnsNothing'
  BY <1>3, <1>12 DEF HttpExternalCloses, TeardownPairs, ForgetPairs, DestroySockets, controlVars,
                     socketVars
<1>13. ASSUME NEW r \in Requests, NEW failed \in BOOLEAN, WsExternalCloses(r, failed)
       PROVE  DestroyedOwnsNothing'
  BY <1>3, <1>13 DEF WsExternalCloses, ForgetPairs, DestroySockets, controlVars, socketVars
<1>14. ASSUME NEW s \in Sessions, NEW inflightPairs \in SUBSET Listable, OnHello(s, inflightPairs)
       PROVE  FALSE
  BY <1>14 DEF OnHello
<1>15. ~Destroy
  BY DEF Destroy
<1> HIDE DEF DestroyedOwnsNothing, TypeOK
<1> QED
  BY <1>4, <1>5, <1>6, <1>7, <1>8, <1>9, <1>10, <1>11, <1>12, <1>13, <1>14, <1>15 DEF Next

\* Only the destruction of the tunnel closes it.
LEMMA ClosedByDestroy ==
  ASSUME Next, ~closed, closed'
  PROVE  \E T \in SUBSET Sessions : DestroyTunnel(T)
<1>1. CASE Destroy
  BY <1>1 DEF Destroy
<1>2. ASSUME NEW t \in Sessions, WindowExpires(t) PROVE DestroyTunnel({t})
  BY <1>2 DEF WindowExpires
<1>3. CASE UNCHANGED closed
  BY <1>3
<1> QED
  BY <1>1, <1>2, <1>3
     DEF Next, AttachControlSession, OnHello, ControlSessionClose, RefuseRequest, OpenPair,
         ReservationTimeout, DataSocketArrives, ReplacementArrives, PairFailed, ResponseHeaders,
         ResponseCompletes, DataSocketEnds, DataSocketFails, DataSocketClosed,
         HttpExternalCloses, WsExternalCloses, controlVars

\* A destroyed tunnel has no pair, reservation or session, and a data socket outlives it only if
\* its external had left before: nothing it still owned escapes destroy().
THEOREM DestroyCorrect == Spec => []DestroyedOwnsNothing
<1>1. Init => DestroyedOwnsNothing
  BY DEF Init, DestroyedOwnsNothing
<1>2. TypeOK /\ ControlInv /\ SocketInv /\ DestroyedOwnsNothing /\ [Next]_vars
        => DestroyedOwnsNothing'
  <2> SUFFICES ASSUME TypeOK, ControlInv, SocketInv, DestroyedOwnsNothing, [Next]_vars
               PROVE  DestroyedOwnsNothing'
    OBVIOUS
  <2>1. CASE UNCHANGED vars
    BY <2>1 DEF vars, controlVars, pairVars, socketVars, externalVars, DestroyedOwnsNothing
  <2>2. CASE Next /\ closed
    BY <2>2, DestroyedStaysEmpty
  <2>3. CASE Next /\ ~closed /\ closed'
    BY <2>3, ClosedByDestroy, DestroyLeavesNothing
  <2>4. CASE ~closed'
    BY <2>4 DEF DestroyedOwnsNothing
  <2> QED
    BY <2>1, <2>2, <2>3, <2>4
<1>3. SessionsConsistent => ControlInv
  BY DEF ControlInv, SessionsConsistent
<1> QED
  BY <1>1, <1>2, <1>3, TypeCorrect, ControlCorrect, InitSocketInv, StepSocketInv, PTL DEF Spec

-----------------------------------------------------------------------------
(* What externals see: the tunnel implements TunnelService.                *)

Stage == [r \in Requests |-> StageOf(r)]

\* The cases of StageOf as implications.
StageKnown(r) ==
  /\ external[r] = "idle" => StageOf(r) = "new"
  /\ external[r] \in {"ended", "gone"} => StageOf(r) = "over"
  /\ external[r] = "open" /\ r \in pending => StageOf(r) = "waiting"
  /\ external[r] = "open" /\ r \notin pending /\ InUse(r) => StageOf(r) = "served"
  /\ external[r] = "open" /\ r \notin pending /\ ~InUse(r) => StageOf(r) = "detached"

\* In every state a request is in one stage.
LEMMA StageIsKnown == TypeOK => \A r \in Requests : StageKnown(r)
BY DEF TypeOK, StageKnown, StageOf

\* A step that changes nothing StageOf depends on leaves the stage alone.
LEMMA SameStage ==
  ASSUME NEW r \in Requests, external'[r] = external[r], r \in pending' <=> r \in pending,
         \A k \in SocketIds : <<r, k>> \in liveSockets' <=> <<r, k>> \in liveSockets
  PROVE  StageOf(r)' = StageOf(r)
BY DEF StageOf, InUse, SocketIds

\* A step that changes the stage of one request changes one entry of the table of stages.
LEMMA OneMoves ==
  ASSUME NEW r \in Requests, \A q \in Requests \ {r} : StageOf(q)' = StageOf(q)
  PROVE  Stage' = [Stage EXCEPT ![r] = StageOf(r)']
BY DEF Stage

\* What waits or is served holds a slot.
LEMMA InServiceHoldsSlot ==
  ASSUME TypeOK, SocketInv
  PROVE  Service!InService \subseteq pairs
<1> SUFFICES ASSUME NEW r \in Requests, StageOf(r) \in {"waiting", "served"} PROVE r \in pairs
  BY DEF Service!InService, Service!Waiting, Service!Served
<1>1. external[r] = "open" /\ (r \in pending \/ InUse(r))
  BY StageIsKnown DEF StageKnown, TypeOK
<1> QED
  BY <1>1 DEF SocketInv, ServedHoldsSlot, InUse

\* As long as a slot is free, one more may wait.
LEMMA RoomToAdmit ==
  ASSUME TypeOK, SocketInv, FiniteSlots, SlotFree
  PROVE  Cardinality(Service!InService) < MaxConnections
<1>1. IsFiniteSet(Service!InService) /\ Cardinality(Service!InService) <= Cardinality(pairs)
  BY InServiceHoldsSlot, FS_Subset DEF FiniteSlots
<1>2. Cardinality(pairs) \in Nat /\ Cardinality(Service!InService) \in Nat
  BY <1>1, FS_CardinalityType DEF FiniteSlots
<1> QED
  BY <1>1, <1>2, ServerTunnelAssumption DEF SlotFree

\* Who holds a slot without using it may be served again.
LEMMA RoomToResume ==
  ASSUME TypeOK, SocketInv, FiniteSlots, NEW r \in pairs, r \notin Service!InService
  PROVE  Cardinality(Service!InService) < MaxConnections
<1>1. Service!InService \subseteq pairs \ {r}
  BY InServiceHoldsSlot
<1>2. IsFiniteSet(pairs \ {r}) /\ Cardinality(pairs \ {r}) = Cardinality(pairs) - 1
  BY FS_RemoveElement DEF FiniteSlots
<1>3. /\ IsFiniteSet(Service!InService)
      /\ Cardinality(Service!InService) <= Cardinality(pairs \ {r})
  BY <1>1, <1>2, FS_Subset
<1>4. Cardinality(pairs) \in Nat /\ Cardinality(Service!InService) \in Nat
  BY <1>3, FS_CardinalityType DEF FiniteSlots
<1> QED
  BY <1>2, <1>3, <1>4, ServerTunnelAssumption DEF FiniteSlots, SlotsBounded

-----------------------------------------------------------------------------
(* How a step of the tunnel looks to its externals.                        *)

\* Nothing happens to any request.
LEMMA Unnoticed ==
  ASSUME \A r \in Requests : StageOf(r)' = StageOf(r), answer' = answer
  PROVE  UNCHANGED Service!vars
BY DEF Service!vars

\* Waits and services are interrupted, of some requests at once.
LEMMA Interrupted ==
  ASSUME NEW W \in SUBSET Service!Waiting, NEW S \in SUBSET Service!Served,
         \A r \in Requests : StageOf(r)' = IF r \in W THEN "over"
                                           ELSE IF r \in S THEN "detached" ELSE StageOf(r),
         answer' = [r \in Requests |-> IF r \in W THEN "503" ELSE answer[r]]
  PROVE  Service!Next
BY DEF Service!Next, Service!Interrupt

\* One request leaves its tunnel or goes on to its next stage.
LEMMA Moved ==
  ASSUME NEW r \in Requests, \A q \in Requests \ {r} : StageOf(q)' = StageOf(q),
         NEW from, NEW to, StageOf(r) \in from, StageOf(r)' = to
  PROVE  Service!Move(r, from, to)
BY OneMoves DEF Stage, Service!Move

\* Hello takes the data sockets of the pairs it lists, whatever becomes of the pairs.
LEMMA HelloImplements ==
  ASSUME TypeOK, TypeOK', SocketInv, NEW s \in Sessions, NEW inflightPairs \in SUBSET Listable,
         OnHello(s, inflightPairs)
  PROVE  Service!Next
<1> DEFINE W == {}
           S == {r \in Service!Served : ~InUse(r)'}
<1>1. \A r \in Requests : StageKnown(r) /\ StageKnown(r)'
  <2>1. TypeOK' => \A r \in Requests : StageKnown(r)'
    BY DEF TypeOK, StageKnown, StageOf
  <2> QED
    BY <2>1, StageIsKnown
<1>2. /\ external' = external /\ answer' = answer /\ pending' = pending
      /\ liveSockets' \subseteq liveSockets
  BY DEF OnHello, externalVars, DestroySockets
<1>3. \A r \in Requests : InUse(r)' => InUse(r)
  BY <1>2 DEF InUse, SocketIds
<1>4. S \in SUBSET Service!Served /\ W \in SUBSET Service!Waiting
  OBVIOUS
<1>5. \A r \in Requests : StageOf(r)' = IF r \in W THEN "over"
                                        ELSE IF r \in S THEN "detached" ELSE StageOf(r)
  BY <1>1, <1>2, <1>3 DEF TypeOK, StageKnown, Service!Served
<1>6. answer' = [r \in Requests |-> IF r \in W THEN "503" ELSE answer[r]]
  BY <1>2 DEF TypeOK
<1> HIDE DEF W, S
<1> QED
  BY <1>4, <1>5, <1>6, Interrupted

\* The end of the tunnel interrupts everything.
LEMMA DestroyImplements ==
  ASSUME TypeOK, TypeOK', SocketInv, NEW T \in SUBSET Sessions, DestroyTunnel(T)
  PROVE  Service!Next
<1>1. \A r \in Requests : StageKnown(r) /\ StageKnown(r)'
  <2>1. TypeOK' => \A r \in Requests : StageKnown(r)'
    BY DEF TypeOK, StageKnown, StageOf
  <2> QED
    BY <2>1, StageIsKnown
<1>2. \A r \in Requests : external[r] = "open" => ~InUse(r)'
  <2> SUFFICES ASSUME NEW r \in Requests, external[r] = "open",
                      NEW k \in SocketIds, <<r, k>> \in liveSockets'
               PROVE  FALSE
    BY DEF InUse, SocketIds
  <2>1. <<r, k>> \in liveSockets /\ <<r, k>> \notin DataSocketsOf(pairs)
    BY DEF DestroyTunnel, DestroySockets
  <2>2. r \in pairs /\ dataSocket[r] = k
    BY <2>1 DEF SocketInv, ServedHoldsSlot, PairSocketsKnown
  <2> QED
    BY <2>1, <2>2 DEF DataSocketsOf
<1>3. \A r \in Requests :
        /\ external'[r] = IF r \in pending /\ external[r] = "open" THEN "ended" ELSE external[r]
        /\ answer'[r] = IF r \in pending /\ external[r] = "open" THEN "503" ELSE answer[r]
        /\ r \notin pending'
  BY DEF DestroyTunnel, DestroyAgent, Reply
<1>4. \A r \in Requests : StageOf(r)' = IF r \in Service!Waiting THEN "over"
                                        ELSE IF r \in Service!Served THEN "detached"
                                        ELSE StageOf(r)
  BY <1>1, <1>2, <1>3 DEF TypeOK, StageKnown, Service!Waiting, Service!Served
<1>5. answer' = [r \in Requests |-> IF r \in Service!Waiting THEN "503" ELSE answer[r]]
  BY <1>1, <1>3 DEF TypeOK, StageKnown, Service!Waiting, DestroyTunnel, Reply
<1> QED
  BY <1>4, <1>5, Interrupted

\* A step that leaves external, pending and liveSockets of the other requests alone moves at
\* most the stage of r.
OnlyConcerns(r) ==
  \A q \in Requests \ {r} :
    /\ external'[q] = external[q] /\ answer'[q] = answer[q]
    /\ q \in pending' <=> q \in pending
    /\ \A k \in SocketIds : <<q, k>> \in liveSockets' <=> <<q, k>> \in liveSockets

\* What such a step may do to r: nothing, or one of the moves of the service.
MoveOf(r) ==
  \/ StageOf(r)' = StageOf(r) /\ answer' = answer
  \/ /\ StageOf(r) = "new" /\ StageOf(r)' = "over"
     /\ answer' = [answer EXCEPT ![r] = "503"]
  \/ /\ StageOf(r) = "new" /\ StageOf(r)' = "waiting"
     /\ Cardinality(Service!InService) < MaxConnections /\ answer' = answer
  \/ StageOf(r) = "waiting" /\ StageOf(r)' = "served" /\ answer' = answer
  \/ /\ StageOf(r) = "served" /\ StageOf(r)' = "over" /\ r \notin WsRequests
     /\ \E code \in {"response", "502"} : answer' = [answer EXCEPT ![r] = code]
  \/ /\ StageOf(r) \in {"waiting", "served", "detached"} /\ StageOf(r)' = "over"
     /\ answer' = answer
  \/ /\ StageOf(r) = "waiting" /\ StageOf(r)' = "over"
     /\ answer' = [answer EXCEPT ![r] = "503"]
  \/ StageOf(r) = "served" /\ StageOf(r)' = "detached" /\ answer' = answer
  \/ /\ StageOf(r) = "detached" /\ StageOf(r)' = "served" /\ r \in WsRequests
     /\ Cardinality(Service!InService) < MaxConnections /\ answer' = answer

\* The service counts as the tunnel does.
LEMMA SameCardinality == \A S : Service!Cardinality(S) = Cardinality(S)
BY DEF Cardinality, Service!Cardinality

\* Such a step is a step of the service or a stutter.
LEMMA MoveIsStep ==
  ASSUME TypeOK, NEW r \in Requests, OnlyConcerns(r), MoveOf(r)
  PROVE  [Service!Next]_Service!vars
<1> SUFFICES Service!Next \/ UNCHANGED Service!vars
  OBVIOUS
<1>1. \A q \in Requests \ {r} : StageOf(q)' = StageOf(q)
  BY SameStage DEF OnlyConcerns
<1>2. CASE StageOf(r)' = StageOf(r) /\ answer' = answer
  BY <1>1, <1>2, Unnoticed
<1>3. CASE /\ StageOf(r) = "new" /\ StageOf(r)' = "over"
           /\ answer' = [answer EXCEPT ![r] = "503"]
  <2>1. Service!Move(r, {"new"}, "over")
    BY <1>1, <1>3, Moved
  <2> QED
    BY <1>3, <2>1 DEF Service!Next, Service!Refuse
<1>4. CASE /\ StageOf(r) = "new" /\ StageOf(r)' = "waiting"
           /\ Cardinality(Service!InService) < MaxConnections /\ answer' = answer
  <2>1. Service!Move(r, {"new"}, "waiting")
    BY <1>1, <1>4, Moved
  <2> QED
    BY <1>4, <2>1, SameCardinality DEF Service!Next, Service!Admit
<1>5. CASE StageOf(r) = "waiting" /\ StageOf(r)' = "served" /\ answer' = answer
  <2>1. Service!Move(r, {"waiting"}, "served")
    BY <1>1, <1>5, Moved
  <2> QED
    BY <1>5, <2>1 DEF Service!Next, Service!Serve
<1>6. CASE /\ StageOf(r) = "served" /\ StageOf(r)' = "over" /\ r \notin WsRequests
           /\ \E code \in {"response", "502"} : answer' = [answer EXCEPT ![r] = code]
  <2>1. Service!Move(r, {"served"}, "over")
    BY <1>1, <1>6, Moved
  <2> QED
    BY <1>6, <2>1 DEF Service!Next, Service!Finish
<1>7. CASE /\ StageOf(r) \in {"waiting", "served", "detached"} /\ StageOf(r)' = "over"
           /\ answer' = answer
  <2>1. Service!Move(r, {"waiting", "served", "detached"}, "over")
    BY <1>1, <1>7, Moved
  <2> QED
    BY <1>7, <2>1 DEF Service!Next, Service!Leave
<1>8. CASE /\ StageOf(r) = "waiting" /\ StageOf(r)' = "over"
           /\ answer' = [answer EXCEPT ![r] = "503"]
  <2> DEFINE W == {r}
             S == {}
  <2>1. W \in SUBSET Service!Waiting /\ S \in SUBSET Service!Served
    BY <1>8 DEF Service!Waiting
  <2>2. \A q \in Requests : StageOf(q)' = IF q \in W THEN "over"
                                          ELSE IF q \in S THEN "detached" ELSE StageOf(q)
    BY <1>1, <1>8
  <2>3. answer' = [q \in Requests |-> IF q \in W THEN "503" ELSE answer[q]]
    BY <1>8 DEF TypeOK
  <2> HIDE DEF W, S
  <2> QED
    BY <2>1, <2>2, <2>3, Interrupted
<1>9. CASE StageOf(r) = "served" /\ StageOf(r)' = "detached" /\ answer' = answer
  <2> DEFINE W == {}
             S == {r}
  <2>1. W \in SUBSET Service!Waiting /\ S \in SUBSET Service!Served
    BY <1>9 DEF Service!Served
  <2>2. \A q \in Requests : StageOf(q)' = IF q \in W THEN "over"
                                          ELSE IF q \in S THEN "detached" ELSE StageOf(q)
    BY <1>1, <1>9
  <2>3. answer' = [q \in Requests |-> IF q \in W THEN "503" ELSE answer[q]]
    BY <1>9 DEF TypeOK
  <2> HIDE DEF W, S
  <2> QED
    BY <2>1, <2>2, <2>3, Interrupted
<1>10. CASE /\ StageOf(r) = "detached" /\ StageOf(r)' = "served" /\ r \in WsRequests
            /\ Cardinality(Service!InService) < MaxConnections /\ answer' = answer
  <2>1. Service!Move(r, {"detached"}, "served")
    BY <1>1, <1>10, Moved
  <2> QED
    BY <1>10, <2>1, SameCardinality DEF Service!Next, Service!Resume
<1> QED
  BY <1>2, <1>3, <1>4, <1>5, <1>6, <1>7, <1>8, <1>9, <1>10 DEF MoveOf

\* The control channel, a late close event of a replaced socket and response headers pass
\* unnoticed; every step of one request is one of its moves.
LEMMA RequestStepImplements ==
  ASSUME TypeOK, TypeOK', SocketInv, FiniteSlots, NEW r \in Requests,
         \/ RefuseRequest(r) \/ OpenPair(r) \/ ReservationTimeout(r) \/ DataSocketArrives(r)
         \/ \E k \in SocketIds : ReplacementArrives(r, k)
         \/ PairFailed(r) \/ ResponseHeaders(r) \/ ResponseCompletes(r)
         \/ \E k \in SocketIds :
              DataSocketEnds(r, k) \/ DataSocketFails(r, k) \/ DataSocketClosed(r, k)
         \/ HttpExternalCloses(r)
         \/ \E failed \in BOOLEAN : WsExternalCloses(r, failed)
  PROVE  OnlyConcerns(r) /\ MoveOf(r)
<1>1. StageKnown(r) /\ StageKnown(r)'
  <2>1. TypeOK' => StageKnown(r)'
    BY DEF TypeOK, StageKnown, StageOf
  <2> QED
    BY <2>1, StageIsKnown
<1> USE DEF TypeOK, SocketInv, Unanswered, ServedHoldsSlot, PairSocketsKnown, SocketIds, InUse
<1>2. CASE RefuseRequest(r)
  <2>1. OnlyConcerns(r)
    BY <1>2 DEF RefuseRequest, OnlyConcerns, pairVars, socketVars
  <2>2. StageOf(r) = "new" /\ StageOf(r)' = "over"
    BY <1>1, <1>2 DEF RefuseRequest, StageKnown
  <2> QED
    BY <1>2, <2>1, <2>2 DEF RefuseRequest, MoveOf
<1>3. CASE OpenPair(r)
  <2>1. OnlyConcerns(r)
    BY <1>3 DEF OpenPair, OnlyConcerns, socketVars
  <2>2. StageOf(r) = "new" /\ StageOf(r)' = "waiting"
    BY <1>1, <1>3 DEF OpenPair, StageKnown
  <2>3. SlotFree /\ answer' = answer
    BY <1>3 DEF OpenPair
  <2> QED
    BY <2>1, <2>2, <2>3, RoomToAdmit DEF MoveOf
<1>4. CASE ReservationTimeout(r)
  <2>1. OnlyConcerns(r)
    BY <1>4 DEF ReservationTimeout, OnlyConcerns, Reply, socketVars
  <2>2. CASE external[r] = "open"
    <3>1. StageOf(r) = "waiting" /\ StageOf(r)' = "over"
      BY <1>1, <1>4, <2>2 DEF ReservationTimeout, StageKnown, Reply
    <3>2. answer' = [answer EXCEPT ![r] = "503"]
      BY <1>4, <2>2 DEF ReservationTimeout, Reply
    <3> QED
      BY <2>1, <3>1, <3>2 DEF MoveOf
  <2>3. CASE external[r] # "open"
    <3>1. external' = external /\ answer' = answer /\ liveSockets' = liveSockets
      BY <1>4, <2>3 DEF ReservationTimeout, Reply, socketVars
    <3>2. StageOf(r)' = StageOf(r)
      BY <1>1, <2>3, <3>1 DEF StageKnown, StageOf
    <3> QED
      BY <2>1, <3>1, <3>2 DEF MoveOf
  <2> QED
    BY <2>2, <2>3
<1>5. CASE DataSocketArrives(r)
  <2>1. OnlyConcerns(r) /\ external' = external /\ answer' = answer
    BY <1>5 DEF DataSocketArrives, OnlyConcerns, externalVars
  <2>2. CASE r \in pending /\ external[r] = "open"
    <3>1. r \notin pending' /\ <<r, 0>> \in liveSockets' /\ 0 \in SocketIds
      BY <1>5, <2>2, ServerTunnelAssumption DEF DataSocketArrives
    <3>2. StageOf(r) = "waiting" /\ StageOf(r)' = "served"
      BY <1>1, <2>1, <2>2, <3>1 DEF StageKnown
    <3> QED
      BY <2>1, <3>2 DEF MoveOf
  <2>3. CASE r \in pending /\ external[r] # "open"
    <3>1. StageOf(r)' = StageOf(r)
      BY <2>1, <2>3 DEF StageOf
    <3> QED
      BY <2>1, <3>1 DEF MoveOf
  <2>4. CASE r \notin pending
    <3>1. liveSockets' = liveSockets /\ pending' = pending
      BY <1>5, <2>4 DEF DataSocketArrives
    <3>2. StageOf(r)' = StageOf(r)
      BY <2>1, <3>1, SameStage
    <3> QED
      BY <2>1, <3>2 DEF MoveOf
  <2> QED
    BY <2>2, <2>3, <2>4
<1>6. ASSUME NEW k \in SocketIds, ReplacementArrives(r, k) PROVE OnlyConcerns(r) /\ MoveOf(r)
  <2>1. OnlyConcerns(r) /\ external' = external /\ answer' = answer /\ pending' = pending
    BY <1>6 DEF ReplacementArrives, SwapSocket, OnlyConcerns, externalVars
  <2>2. CASE ~Replaceable(r)
    <3>1. liveSockets' = liveSockets
      BY <1>6, <2>2 DEF ReplacementArrives
    <3>2. StageOf(r)' = StageOf(r)
      BY <2>1, <3>1, SameStage
    <3> QED
      BY <2>1, <3>2 DEF MoveOf
  <2>3. CASE Replaceable(r) /\ external[r] # "open"
    <3>1. StageOf(r)' = StageOf(r)
      BY <2>1, <2>3 DEF StageOf
    <3> QED
      BY <2>1, <3>1 DEF MoveOf
  <2>4. CASE Replaceable(r) /\ external[r] = "open"
    <3>1. <<r, k>> \in liveSockets' /\ r \in pairs /\ r \in WsRequests /\ r \notin pending
      BY <1>6, <2>4 DEF ReplacementArrives, SwapSocket, Replaceable
    <3>2. StageOf(r)' = "served" /\ StageOf(r) \in {"served", "detached"}
      BY <1>1, <2>1, <2>4, <3>1 DEF StageKnown
    <3>3. CASE StageOf(r) = "served"
      BY <2>1, <3>2, <3>3 DEF MoveOf
    <3>4. CASE StageOf(r) = "detached"
      <4>1. r \notin Service!InService
        BY <3>4 DEF Service!InService, Service!Waiting, Service!Served
      <4> QED
        BY <2>1, <3>1, <3>2, <3>4, <4>1, RoomToResume DEF MoveOf
    <3> QED
      BY <3>2, <3>3, <3>4
  <2> QED
    BY <2>2, <2>3, <2>4
<1>7. CASE PairFailed(r)
  <2> USE DEF PairFailed, TeardownPairs, DestroySockets, DataSocketsOf, ActiveSocketsOf, Reply
  <2>1. OnlyConcerns(r)
    BY <1>7 DEF OnlyConcerns
  <2>2. CASE external[r] # "open"
    <3>1. external'[r] = external[r] /\ answer' = answer
      BY <1>7, <2>2
    <3>2. StageOf(r)' = StageOf(r)
      BY <2>2, <3>1 DEF StageOf
    <3> QED
      BY <2>1, <3>1, <3>2 DEF MoveOf
  <2>3. CASE external[r] = "open" /\ r \in pending
    <3>1. StageOf(r) = "waiting" /\ StageOf(r)' = "over"
      BY <1>1, <1>7, <2>3 DEF StageKnown
    <3>2. answer' = [answer EXCEPT ![r] = "503"]
      BY <1>7, <2>3
    <3> QED
      BY <2>1, <3>1, <3>2 DEF MoveOf
  <2>4. CASE external[r] = "open" /\ r \notin pending
    <3>1. external' = external /\ answer' = answer /\ pending' = pending
      BY <1>7, <2>4
    <3>2. ~InUse(r)'
      <4> SUFFICES ASSUME NEW k \in SocketIds, <<r, k>> \in liveSockets' PROVE FALSE
        OBVIOUS
      <4>1. <<r, k>> \in liveSockets /\ <<r, k>> \notin DataSocketsOf({r} \cap pairs)
        BY <1>7
      <4>2. r \in pairs /\ dataSocket[r] = k
        BY <2>4, <4>1
      <4> QED
        BY <4>1, <4>2
    <3>3. StageOf(r)' = "detached" /\ StageOf(r) \in {"served", "detached"}
      BY <1>1, <2>4, <3>1, <3>2 DEF StageKnown
    <3> QED
      BY <2>1, <3>1, <3>3 DEF MoveOf
  <2> QED
    BY <2>2, <2>3, <2>4
<1>8. CASE ResponseHeaders(r)
  <2>1. UNCHANGED <<external, answer, pending, liveSockets>>
    BY <1>8 DEF ResponseHeaders, pairVars, socketVars
  <2>2. StageOf(r)' = StageOf(r)
    BY <2>1, SameStage
  <2> QED
    BY <2>1, <2>2 DEF OnlyConcerns, MoveOf
<1>9. ASSUME r \notin WsRequests, r \notin pending, pending' = pending, InUse(r),
             liveSockets' \subseteq liveSockets, \E code \in {"response", "502"} : Reply({r}, code)
      PROVE  MoveOf(r)
  <2>1. CASE external[r] = "open"
    <3>4. external'[r] = "ended"
      BY <1>9, <2>1 DEF Reply
    <3>1. StageOf(r) = "served" /\ StageOf(r)' = "over"
      BY <1>1, <1>9, <2>1, <3>4 DEF StageKnown
    <3>2. PICK code \in {"response", "502"} : Reply({r}, code)
      BY <1>9
    <3>3. answer' = [answer EXCEPT ![r] = code]
      BY <2>1, <3>2 DEF Reply
    <3> QED
      BY <1>9, <3>1, <3>3 DEF MoveOf
  <2>2. CASE external[r] # "open"
    <3>1. external'[r] = external[r] /\ answer' = answer
      BY <1>9, <2>2 DEF Reply
    <3>2. StageOf(r)' = StageOf(r)
      BY <2>2, <3>1 DEF StageOf
    <3> QED
      BY <3>1, <3>2 DEF MoveOf
  <2> QED
    BY <2>1, <2>2
<1>10. CASE ResponseCompletes(r)
  <2>1. OnlyConcerns(r)
    BY <1>10 DEF ResponseCompletes, OnlyConcerns, Reply, socketVars
  <2>2. r \notin WsRequests /\ r \notin pending /\ pending' = pending /\ InUse(r)
        /\ liveSockets' = liveSockets /\ Reply({r}, "response")
    BY <1>10, ServerTunnelAssumption DEF ResponseCompletes, Relaying, socketVars
  <2> QED
    BY <1>9, <2>1, <2>2
<1>11. ASSUME NEW k \in SocketIds, DataSocketEnds(r, k) PROVE OnlyConcerns(r) /\ MoveOf(r)
  <2>1. OnlyConcerns(r) /\ pending' = pending /\ liveSockets' \subseteq liveSockets
    BY <1>11 DEF DataSocketEnds, DestroySockets, EndResponse, Reply, OnlyConcerns
  <2>2. InUse(r) /\ r \notin pending
    BY <1>11 DEF DataSocketEnds
  <2>3. CASE r \notin WsRequests
    <3>1. \E code \in {"response", "502"} : Reply({r}, code)
      BY <1>11, <2>3 DEF DataSocketEnds, EndResponse
    <3> QED
      BY <1>9, <2>1, <2>2, <2>3, <3>1
  <2>4. CASE r \in WsRequests
    <3>1. answer' = answer /\ external'[r] = IF external[r] = "open" THEN "ended" ELSE external[r]
      BY <1>11, <2>4 DEF DataSocketEnds
    <3>2. \/ StageOf(r)' = StageOf(r)
          \/ StageOf(r) = "served" /\ StageOf(r)' = "over"
      BY <1>1, <2>2, <3>1 DEF StageKnown, StageOf
    <3> QED
      BY <2>1, <3>1, <3>2 DEF MoveOf
  <2> QED
    BY <2>3, <2>4
<1>12. ASSUME NEW k \in SocketIds, DataSocketFails(r, k) PROVE OnlyConcerns(r) /\ MoveOf(r)
  <2>1. OnlyConcerns(r) /\ pending' = pending /\ liveSockets' = liveSockets \ {<<r, k>>}
    BY <1>12 DEF DataSocketFails, DestroySockets, EndResponse, Reply, OnlyConcerns
  <2>2. InUse(r) /\ r \notin pending /\ <<r, k>> \in liveSockets
    BY <1>12 DEF DataSocketFails
  <2>3. CASE r \notin WsRequests
    <3>1. \E code \in {"response", "502"} : Reply({r}, code)
      BY <1>12, <2>3 DEF DataSocketFails, EndResponse
    <3> QED
      BY <1>9, <2>1, <2>2, <2>3, <3>1
  <2>4. CASE r \in WsRequests /\ k = 0
    <3>1. answer' = answer /\ external'[r] = "gone" /\ external[r] # "idle"
      BY <1>12, <2>2, <2>4 DEF DataSocketFails, Traces
    <3>2. \/ StageOf(r)' = StageOf(r)
          \/ StageOf(r) = "served" /\ StageOf(r)' = "over"
      BY <1>1, <2>2, <3>1 DEF StageKnown
    <3> QED
      BY <2>1, <3>1, <3>2 DEF MoveOf
  <2>5. CASE r \in WsRequests /\ k # 0
    <3>1. answer' = answer /\ external' = external
      BY <1>12, <2>5 DEF DataSocketFails
    <3>2. external[r] = "open" => ~InUse(r)'
      BY <2>1, <2>2
    <3>3. \/ StageOf(r)' = StageOf(r)
          \/ StageOf(r) = "served" /\ StageOf(r)' = "detached"
      BY <1>1, <2>1, <2>2, <3>1, <3>2 DEF StageKnown
    <3> QED
      BY <2>1, <3>1, <3>3 DEF MoveOf
  <2> QED
    BY <2>3, <2>4, <2>5
<1>13. ASSUME NEW k \in SocketIds, DataSocketClosed(r, k) PROVE OnlyConcerns(r) /\ MoveOf(r)
  <2>1. OnlyConcerns(r) /\ UNCHANGED <<answer, pending, liveSockets>>
    BY <1>13 DEF DataSocketClosed, OnlyConcerns
  <2>2. r \notin pending
    BY <1>13 DEF DataSocketClosed
  <2>3. external'[r] \in {external[r]} \cup (IF external[r] = "open" THEN {"ended"} ELSE {})
    BY <1>13 DEF DataSocketClosed
  <2>4. CASE external'[r] = external[r]
    <3>1. StageOf(r)' = StageOf(r)
      BY <2>1, <2>4, SameStage
    <3> QED
      BY <2>1, <3>1 DEF MoveOf
  <2>5. CASE external[r] = "open" /\ external'[r] = "ended"
    <3>1. StageOf(r) \in {"served", "detached"} /\ StageOf(r)' = "over"
      BY <1>1, <2>2, <2>5 DEF StageKnown
    <3> QED
      BY <2>1, <3>1 DEF MoveOf
  <2> QED
    BY <2>3, <2>4, <2>5
<1>14. ASSUME external[r] \in {"open", "ended"}, external'[r] = "gone", answer' = answer
       PROVE  MoveOf(r)
  <2>1. StageOf(r)' = "over" /\ StageOf(r) \in {"waiting", "served", "detached", "over"}
    BY <1>1, <1>14 DEF StageKnown
  <2> QED
    BY <1>14, <2>1 DEF MoveOf
<1>15. CASE HttpExternalCloses(r)
  <2>1. OnlyConcerns(r)
    BY <1>15 DEF HttpExternalCloses, TeardownPairs, DestroySockets, DataSocketsOf,
                 ActiveSocketsOf, OnlyConcerns, socketVars
  <2> QED
    BY <1>14, <1>15, <2>1 DEF HttpExternalCloses
<1>16. ASSUME NEW failed \in BOOLEAN, WsExternalCloses(r, failed)
       PROVE  OnlyConcerns(r) /\ MoveOf(r)
  <2>1. OnlyConcerns(r)
    BY <1>16 DEF WsExternalCloses, DestroySockets, OnlyConcerns, socketVars
  <2> QED
    BY <1>14, <1>16, <2>1 DEF WsExternalCloses
<1> HIDE DEF TypeOK, SocketInv, Unanswered, ServedHoldsSlot, PairSocketsKnown, SocketIds, InUse
<1> QED
  BY <1>2, <1>3, <1>4, <1>5, <1>6, <1>7, <1>8, <1>10, <1>11, <1>12, <1>13, <1>15, <1>16

\* A new tunnel is a new service, and every step of the tunnel is one of the service or none.
LEMMA StepImplements ==
  ASSUME TypeOK, TypeOK', SocketInv, FiniteSlots, [Next]_vars
  PROVE  [Service!Next]_Service!vars
<1>1. CASE UNCHANGED <<pending, liveSockets, external, answer>>
  <2>1. \A r \in Requests : StageOf(r)' = StageOf(r)
    BY <1>1, SameStage
  <2> QED
    BY <1>1, <2>1, Unnoticed
<1>2. CASE UNCHANGED vars
  BY <1>1, <1>2 DEF vars, pairVars, socketVars, externalVars
<1>3. ASSUME NEW s \in Sessions, AttachControlSession(s) \/ ControlSessionClose(s)
      PROVE  [Service!Next]_Service!vars
  BY <1>1, <1>3
     DEF AttachControlSession, ControlSessionClose, pairVars, socketVars, externalVars
<1>4. CASE Destroy
  BY <1>4, DestroyImplements DEF Destroy
<1>5. ASSUME NEW t \in Sessions, WindowExpires(t) PROVE [Service!Next]_Service!vars
  <2>1. CASE DestroyTunnel({t})
    BY <2>1, DestroyImplements
  <2>2. CASE UNCHANGED <<pairVars, socketVars, externalVars>>
    BY <1>1, <2>2 DEF pairVars, socketVars, externalVars
  <2> QED
    BY <1>5, <2>1, <2>2 DEF WindowExpires
<1> QED
  BY <1>2, <1>3, <1>4, <1>5, HelloImplements, RequestStepImplements, MoveIsStep DEF Next

\* For every number of requests, sessions and connections, the tunnel keeps the promises that
\* TunnelService makes to its externals, through losses, timeouts, failures and its own end.
THEOREM TunnelImplementsService == Spec => ImplementsService
<1>1. Init => Service!Init
  <2> SUFFICES ASSUME Init PROVE Service!Init
    OBVIOUS
  <2>1. \A r \in Requests : StageOf(r) = "new" /\ answer = [q \in Requests |-> None]
    BY StageIsKnown, InitTypeOK DEF Init, StageKnown
  <2> QED
    BY <2>1 DEF Service!Init, Init
<1>2. Init => SocketInv /\ FiniteSlots /\ TypeOK
  BY InitSocketInv, InitTypeOK, FS_EmptySet, ServerTunnelAssumption
     DEF Init, FiniteSlots, SlotsBounded
<1>3. TypeOK /\ SocketInv /\ FiniteSlots /\ [Next]_vars
        => /\ TypeOK' /\ SocketInv' /\ FiniteSlots'
           /\ [Service!Next]_Service!vars
  BY StepTypeOK, StepSocketInv, StepFiniteSlots, StepImplements
<1> QED
  BY <1>1, <1>2, <1>3, PTL DEF Spec, ImplementsService, Service!Spec

=============================================================================
