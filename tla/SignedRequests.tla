--------------------------- MODULE SignedRequests ---------------------------
(***************************************************************************)
(* Signed requests for a tunnel: the client signs one header and sends it  *)
(* with each of its attempts (client/tunnel.js, common/hmac.js); the       *)
(* server accepts a header that is fresh and whose nonce it has not seen   *)
(* (server/hmac-middleware.js, common/nonce-cache.js), and then grants or  *)
(* refuses the tunnel (server/router.js). Digests are not modelled: every  *)
(* header here is one its client signed for the request it comes with.     *)
(*                                                                         *)
(* Clocks count ticks, MsPerS of them a second. The nonce is the reading   *)
(* of the client's clock, so the stamp of a header gives both its nonce    *)
(* and, in whole seconds, its timestamp. What a client gets once it is     *)
(* authenticated is the registry's affair (TunnelManager): any answer.     *)
(***************************************************************************)
EXTENDS Integers, FiniteSets

CONSTANTS
  Clients,
  Skew,               \* hmacClockSkewToleranceS
  MsPerS,             \* ticks in a second
  CleanupInterval,    \* cleanupIntervalMs
  MAX_FETCH_RETRIES,
  MaxOffset,          \* bound: how far a client's clock is from the server's
  MaxTime,            \* bound: ticks of the server's clock
  None

ASSUME SignedAssumption ==
  /\ Skew \in Nat \ {0}
  /\ MsPerS \in Nat \ {0}
  /\ CleanupInterval \in Nat \ {0}
  /\ MAX_FETCH_RETRIES \in Nat \ {0}
  /\ MaxOffset \in Nat
  /\ MaxTime \in Nat
  /\ None \notin Int

VARIABLES
  now,       \* the server's clock
  stamp,     \* the client's clock when it signed, or None
  attempt,   \* number of the attempt a client has made last
  wire,      \* attempts that are on their way to the server
  outcome,   \* how _fetchTunnelInfo ended
  cache,     \* NonceCache._cache: the nonces seen, and when each may be forgotten
  sweptAt,   \* when _cleanup ran last
  accepted   \* history: how often this server process accepted a client's header

clientVars == <<stamp, attempt>>
serverVars == <<cache, sweptAt, accepted>>
vars == <<now, clientVars, wire, outcome, serverVars>>

Outcomes == {"open", "granted", "unauthorized", "rejected", "failed"}
Attempts == Clients \X (1..MAX_FETCH_RETRIES)

TypeOK ==
  /\ now \in Nat
  /\ stamp \in [Clients -> Int \cup {None}]
  /\ attempt \in [Clients -> 0..MAX_FETCH_RETRIES]
  /\ wire \subseteq Attempts
  /\ \A c \in Clients : attempt[c] > 0 => stamp[c] \in Int
  /\ \A c \in Clients, k \in 1..MAX_FETCH_RETRIES : <<c, k>> \in wire => k <= attempt[c]
  /\ outcome \in [Clients -> Outcomes]
  /\ DOMAIN cache \subseteq Int
  /\ cache \in [DOMAIN cache -> Int]
  /\ sweptAt \in Nat
  /\ accepted \in [Clients -> Nat]

Init ==
  /\ now = MaxOffset
  /\ stamp = [c \in Clients |-> None]
  /\ attempt = [c \in Clients |-> 0]
  /\ wire = {}
  /\ outcome = [c \in Clients |-> "open"]
  /\ cache = [n \in {} |-> 0]
  /\ sweptAt = now
  /\ accepted = [c \in Clients |-> 0]

-----------------------------------------------------------------------------
(* The server.                                                             *)

Distance(a, b) == IF a < b THEN b - a ELSE a - b

Seconds(t) == t \div MsPerS

InToleranceBelow(t, s) == Distance(Seconds(t), Seconds(s)) < Skew

\* verify: both times in whole seconds.
InTolerance(t, s) == Distance(Seconds(t), Seconds(s)) <= Skew

NonceTtlOfMaxAge == 2 * Skew * MsPerS

\* hmacNonceCacheTtlS
NonceTtl == 4 * Skew * MsPerS

\* isSeen, when it answers true
Seen(n) == n \in DOMAIN cache /\ cache[n] > now

\* isSeen, when it answers false
Remember(n) == cache' = [k \in DOMAIN cache \cup {n} |-> IF k = n THEN now + NonceTtl ELSE cache[k]]

Valid(c) == InTolerance(now, stamp[c]) /\ ~Seen(stamp[c])

Asking(c) == outcome[c] = "open" /\ attempt[c] > 0

RetryForever(c, rest) ==
  /\ attempt' = [attempt EXCEPT ![c] = @ + 1]
  /\ wire' = rest \cup {<<c, attempt[c] + 1>>}
  /\ UNCHANGED outcome

\* The client asks again, or gives up. It pauses for a second, which is less than a request may
\* take.
RetryOrFail(c, rest) ==
  IF attempt[c] < MAX_FETCH_RETRIES
    THEN /\ attempt' = [attempt EXCEPT ![c] = @ + 1]
         /\ wire' = rest \cup {<<c, attempt[c] + 1>>}
         /\ UNCHANGED outcome
    ELSE /\ outcome' = [outcome EXCEPT ![c] = "failed"]
         /\ wire' = rest
         /\ UNCHANGED attempt

\* The answer reaches the client if it still waits for this attempt: 500 is tried again, every
\* other status ends the loop.
Answer(c, k, result) ==
  LET rest == wire \ {<<c, k>>} IN
  IF ~Asking(c) \/ attempt[c] # k
    THEN wire' = rest /\ UNCHANGED <<attempt, outcome>>
    ELSE IF result = "error"
      THEN RetryOrFail(c, rest)
      ELSE /\ outcome' = [outcome EXCEPT ![c] = result]
           /\ wire' = rest
           /\ UNCHANGED attempt

\* 401
Refuse(c, k) ==
  /\ <<c, k>> \in wire
  /\ ~Valid(c)
  /\ Answer(c, k, "unauthorized")
  /\ UNCHANGED <<now, stamp, serverVars>>

\* 200; 400 or 409; 500 or 503
Accept(c, k, result) ==
  /\ <<c, k>> \in wire
  /\ Valid(c)
  /\ Remember(stamp[c])
  /\ accepted' = [accepted EXCEPT ![c] = @ + 1]
  /\ Answer(c, k, result)
  /\ UNCHANGED <<now, stamp, sweptAt>>

CleanupDue == now >= sweptAt + CleanupInterval

ExpiredLate(n) == cache[n] < now

Expired(n) == cache[n] <= now

\* _cleanup
Cleanup ==
  /\ CleanupDue
  /\ cache' = [n \in {k \in DOMAIN cache : ~Expired(k)} |-> cache[n]]
  /\ sweptAt' = now
  /\ UNCHANGED <<now, clientVars, wire, outcome, accepted>>

\* A new process has an empty cache; what was on its way is lost with the connections.
Restart ==
  /\ cache' = [n \in {} |-> 0]
  /\ sweptAt' = now
  /\ accepted' = [c \in Clients |-> 0]
  /\ wire' = {}
  /\ UNCHANGED <<now, clientVars, outcome>>

-----------------------------------------------------------------------------
(* A client.                                                               *)

\* Date.now() of a client
ClientClock(offset) == now + offset

\* The first attempt. The header is signed once, before the loop, by a clock that may be ahead
\* of the server's or behind it.
Sign(c, offset) ==
  /\ attempt[c] = 0
  /\ stamp' = [stamp EXCEPT ![c] = ClientClock(offset)]
  /\ attempt' = [attempt EXCEPT ![c] = 1]
  /\ wire' = wire \cup {<<c, 1>>}
  /\ UNCHANGED <<now, outcome, serverVars>>

\* fetch raises: the connection failed, before or after the server has read the request.
FetchRaises(c) ==
  /\ Asking(c)
  /\ RetryOrFail(c, wire)
  /\ UNCHANGED <<now, stamp, serverVars>>

-----------------------------------------------------------------------------

\* The timer of the cache fires when it is due, before the clock goes on.
Tick ==
  /\ now < MaxTime
  /\ ~CleanupDue
  /\ now' = now + 1
  /\ UNCHANGED <<clientVars, wire, outcome, serverVars>>

Next ==
  \/ Tick \/ Cleanup \/ Restart
  \/ \E c \in Clients, offset \in -MaxOffset..MaxOffset : Sign(c, offset)
  \/ \E c \in Clients : FetchRaises(c)
  \/ \E c \in Clients, k \in 1..MAX_FETCH_RETRIES :
        \/ Refuse(c, k)
        \/ \E result \in {"granted", "rejected", "error"} : Accept(c, k, result)

Spec == Init /\ [][Next]_vars

-----------------------------------------------------------------------------
(* Properties.                                                             *)

\* One process accepts a nonce at most once, however late or often its requests arrive: the
\* cache remembers it for as long as rounding to seconds and skew leave its timestamp acceptable.
AcceptedOnce ==
  \A c, d \in Clients :
    /\ accepted[c] <= 1
    /\ (accepted[c] = 1 /\ accepted[d] = 1 /\ stamp[c] = stamp[d]) => c = d

\* An expired nonce is forgotten within one interval, so that the cache is as small as the
\* requests of one lifetime and one interval.
NoncesForgotten == \A n \in DOMAIN cache : cache[n] + CleanupInterval > now

Alone(c) == \A d \in Clients \ {c} : stamp[d] # stamp[c]

Late(c) == Distance(now, stamp[c]) > Skew * MsPerS

\* The first attempt of a client is refused only if its clock and its delay together exceed the
\* tolerance (in ticks, not in rounded seconds), or if another client signed at the same tick.
PromptHonoured ==
  [][\A c \in Clients :
       outcome[c] = "open" /\ outcome'[c] = "unauthorized"
         => Late(c) \/ ~Alone(c) \/ attempt[c] > 1]_vars

=============================================================================
