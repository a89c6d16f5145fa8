------------------------------ MODULE Admission -----------------------------
(***************************************************************************)
(* Which addresses the public server talks to: the dispatch in             *)
(* server/index.js, the RateLimiter (server/rate-limiter.js), the          *)
(* BlocklistManager and its file (server/blocklist.js) and the admin       *)
(* routes that change them (server/router.js).                             *)
(*                                                                         *)
(* A request to a tunnel that exists changes nothing here, so that only    *)
(* requests to unknown tunnels ("probes") are actions. Time is counted in  *)
(* ticks and does not run backwards.                                       *)
(***************************************************************************)
EXTENDS Naturals

CONSTANTS
  Ips,            \* normalized addresses
  Unknown,        \* "unknown": what normalizeIp makes of an address that says nothing ("[]")
  Window,         \* windowMs
  MaxHits,        \* maxHits
  BlockDuration,  \* blockDurationMs
  Throttle,       \* blockEventThrottleMs
  MaxTime,        \* bound: the last tick
  NoEntry         \* no entry

ASSUME AdmissionAssumption ==
  /\ Window \in Nat
  /\ MaxHits \in Nat \ {0}
  /\ BlockDuration \in Nat
  /\ Throttle \in Nat \ {0} /\ Throttle <= BlockDuration
  /\ MaxTime \in Nat
  /\ NoEntry \notin Nat
  /\ \A list \in SUBSET Ips : list # NoEntry

VARIABLES
  now,             \* Date.now()
  count,           \* _hits: count of each address; 0 when it has no record
  windowStart,     \* _hits: windowStart of each address
  blockedUntil,    \* RateLimiter._blocked
  lastBlockEvent,  \* RateLimiter._lastBlockEvent
  permanent,       \* BlocklistManager._permanent
  lastPermEvent,   \* BlocklistManager._lastBlockEvent
  file,            \* blocklist.json: the addresses in it, or NoEntry when it cannot be parsed
  unsaved,         \* the last _persist failed
  misses,          \* history: when each address was answered 404 within the last Window ticks,
                   \* the newest first
  reported         \* history: last rate_limited event of each address since its last unblock

limiterVars   == <<count, windowStart, blockedUntil, lastBlockEvent>>
blocklistVars == <<permanent, lastPermEvent, file, unsaved>>
historyVars   == <<misses, reported>>
admissionVars == <<now, limiterVars, blocklistVars, historyVars>>

Times == 0..MaxTime

\* The history has room for as many misses of an address as there must never be.
Recent == 1..(2 * MaxHits)

AdmissionTypeOK ==
  /\ now \in Times
  /\ count \in [Ips -> 0..MaxHits]
  /\ windowStart \in [Ips -> Times \cup {NoEntry}]
  /\ blockedUntil \in [Ips -> 0..(MaxTime + BlockDuration) \cup {NoEntry}]
  /\ lastBlockEvent \in [Ips -> Times \cup {NoEntry}]
  /\ permanent \subseteq Ips
  /\ lastPermEvent \in [Ips -> Times \cup {NoEntry}]
  /\ file = NoEntry \/ file \subseteq Ips
  /\ unsaved \in BOOLEAN
  /\ misses \in [Ips -> [Recent -> Times \cup {NoEntry}]]
  /\ reported \in [Ips -> Times \cup {NoEntry}]

Nobody == [ip \in Ips |-> NoEntry]
NoMisses == [k \in Recent |-> NoEntry]

AdmissionInit ==
  /\ now = 0
  /\ count = [ip \in Ips |-> 0]
  /\ windowStart = Nobody
  /\ blockedUntil = Nobody
  /\ lastBlockEvent = Nobody
  /\ permanent = {}
  /\ lastPermEvent = Nobody
  /\ file = {}
  /\ unsaved = FALSE
  /\ misses = [ip \in Ips |-> NoMisses]
  /\ reported = Nobody

-----------------------------------------------------------------------------
(* The rate limiter.                                                       *)

\* An entry that is older than the age given.
OlderThan(time, age) == time # NoEntry /\ now - time > age

Blocked(ip) == blockedUntil[ip] # NoEntry /\ now < blockedUntil[ip]

\* The count of a hit now: the first of a new window, or one more in the window.
HitCount(ip) ==
  IF windowStart[ip] = NoEntry \/ OlderThan(windowStart[ip], Window) THEN 1 ELSE count[ip] + 1

ExceedsLate(n) == n > MaxHits + 1

Exceeds(n) == n > MaxHits

\* _emitRequestBlocked: at most one event per Throttle ticks. A first event is always due.
EmitRequestBlocked(ip) ==
  IF lastBlockEvent[ip] = NoEntry \/ now - lastBlockEvent[ip] >= Throttle
    THEN /\ lastBlockEvent' = [lastBlockEvent EXCEPT ![ip] = now]
         /\ reported' = [reported EXCEPT ![ip] = now]
    ELSE UNCHANGED <<lastBlockEvent, reported>>

\* 429: the address is blocked, and its block is not prolonged.
HitWhileBlocked(ip) ==
  /\ Blocked(ip)
  /\ EmitRequestBlocked(ip)
  /\ UNCHANGED <<count, windowStart, blockedUntil, misses>>

\* 429: the hit exceeds the limit and blocks the address.
HitBlocks(ip) ==
  /\ ~Blocked(ip)
  /\ Exceeds(HitCount(ip))
  /\ blockedUntil' = [blockedUntil EXCEPT ![ip] = now + BlockDuration]
  /\ count' = [count EXCEPT ![ip] = 0]
  /\ windowStart' = [windowStart EXCEPT ![ip] = NoEntry]
  /\ EmitRequestBlocked(ip)
  /\ UNCHANGED misses

\* A miss now, before those that were
MissNow(older) == [k \in Recent |-> IF k = 1 THEN now ELSE older[k - 1]]

\* 404: the hit is counted. A block that has expired is removed.
HitCounted(ip) ==
  /\ ~Blocked(ip)
  /\ ~Exceeds(HitCount(ip))
  /\ count' = [count EXCEPT ![ip] = HitCount(ip)]
  /\ windowStart' = [windowStart EXCEPT ![ip] = IF HitCount(ip) = 1 THEN now ELSE @]
  /\ blockedUntil' = [blockedUntil EXCEPT ![ip] = NoEntry]
  /\ misses' = [misses EXCEPT ![ip] = MissNow(@)]
  /\ UNCHANGED <<lastBlockEvent, reported>>

ForgetBlock(ip) ==
  /\ blockedUntil' = [blockedUntil EXCEPT ![ip] = NoEntry]
  /\ count' = [count EXCEPT ![ip] = 0]
  /\ windowStart' = [windowStart EXCEPT ![ip] = NoEntry]
  /\ lastBlockEvent' = [lastBlockEvent EXCEPT ![ip] = NoEntry]

\* DELETE /api/blocklist/temp/:ip. The histories of the address start again.
Unblock(ip) ==
  /\ blockedUntil[ip] # NoEntry
  /\ ForgetBlock(ip)
  /\ misses' = [misses EXCEPT ![ip] = NoMisses]
  /\ reported' = [reported EXCEPT ![ip] = NoEntry]
  /\ UNCHANGED <<now, blocklistVars>>

EventMemoryOfWindow == Window

\* How long _gc keeps the time of a block event.
EventMemory == BlockDuration

GcUnblocksAll == {ip \in Ips : blockedUntil[ip] # NoEntry}

GcUnblocks == {ip \in Ips : blockedUntil[ip] # NoEntry /\ ~Blocked(ip)}

Gc ==
  LET stale == {ip \in Ips : OlderThan(windowStart[ip], Window)}
  IN
  /\ blockedUntil' = [ip \in Ips |-> IF ip \in GcUnblocks THEN NoEntry ELSE blockedUntil[ip]]
  /\ count' = [ip \in Ips |-> IF ip \in stale THEN 0 ELSE count[ip]]
  /\ windowStart' = [ip \in Ips |-> IF ip \in stale THEN NoEntry ELSE windowStart[ip]]
  /\ lastBlockEvent' = [ip \in Ips |-> IF OlderThan(lastBlockEvent[ip], EventMemory)
                                         THEN NoEntry ELSE lastBlockEvent[ip]]
  /\ UNCHANGED <<now, blocklistVars, historyVars>>

-----------------------------------------------------------------------------
(* A request to an unknown tunnel.                                         *)

ReportPermanent(ip) ==
  lastPermEvent' = IF lastPermEvent[ip] = NoEntry \/ now - lastPermEvent[ip] >= Throttle
                     THEN [lastPermEvent EXCEPT ![ip] = now] ELSE lastPermEvent

\* 403 before the rate limiter is asked.
RejectPermanent(ip) ==
  /\ ip \in permanent
  /\ ReportPermanent(ip)
  /\ UNCHANGED <<now, limiterVars, permanent, file, unsaved, historyVars>>

Probe(ip) ==
  /\ ip \notin permanent
  /\ HitWhileBlocked(ip) \/ HitBlocks(ip) \/ HitCounted(ip)
  /\ UNCHANGED <<now, blocklistVars>>

-----------------------------------------------------------------------------
(* The permanent blocklist and its file.                                   *)

\* writeFileSync succeeds, or throws before or after it emptied the file; _persist swallows
\* the error.
Persist(list) ==
  \/ /\ file' = list
     /\ unsaved' = FALSE
  \/ /\ file' \in {file, NoEntry}
     /\ unsaved' = TRUE

AddPermanent(ip) ==
  /\ ip \notin permanent
  /\ permanent' = permanent \cup {ip}
  /\ Persist(permanent')
  /\ UNCHANGED <<now, limiterVars, lastPermEvent, historyVars>>

RemovePermanentUnsaved(ip) ==
  /\ ip \in permanent
  /\ permanent' = permanent \ {ip}
  /\ lastPermEvent' = [lastPermEvent EXCEPT ![ip] = NoEntry]
  /\ UNCHANGED <<now, limiterVars, file, unsaved, historyVars>>

RemovePermanent(ip) ==
  /\ ip \in permanent
  /\ permanent' = permanent \ {ip}
  /\ lastPermEvent' = [lastPermEvent EXCEPT ![ip] = NoEntry]
  /\ Persist(permanent')
  /\ UNCHANGED <<now, limiterVars, historyVars>>

\* A file that cannot be parsed counts as empty, and "unknown" is passed over, although
\* addPermanent takes it and saves it.
Loaded == (IF file = NoEntry THEN {} ELSE file) \ {Unknown}

\* No hit and no block is known any more; the histories start again.
ForgetEveryone ==
  /\ count' = [ip \in Ips |-> 0]
  /\ windowStart' = Nobody
  /\ blockedUntil' = Nobody
  /\ lastBlockEvent' = Nobody
  /\ misses' = [ip \in Ips |-> NoMisses]
  /\ reported' = Nobody

\* SIGINT or SIGTERM destroys the rate limiter 500 ms before the process exits: the requests
\* that are still read in between are counted from zero.
Shutdown ==
  /\ ForgetEveryone
  /\ UNCHANGED <<now, blocklistVars>>

\* A new process starts and loads the file.
StartProcess ==
  /\ ForgetEveryone
  /\ permanent' = Loaded'
  /\ unsaved' = FALSE
  /\ lastPermEvent' = Nobody
  /\ UNCHANGED now

Restart ==
  /\ UNCHANGED file
  /\ StartProcess

\* The process ends within writeFileSync, which has emptied the file and not filled it yet.
CrashWhilePersisting ==
  /\ file' = NoEntry
  /\ StartProcess

Tick ==
  /\ now < MaxTime
  /\ now' = now + 1
  /\ misses' = [ip \in Ips |-> [k \in Recent |->
                 IF misses[ip][k] # NoEntry /\ misses[ip][k] + Window < now + 1
                   THEN NoEntry ELSE misses[ip][k]]]
  /\ UNCHANGED <<limiterVars, blocklistVars, reported>>
-----------------------------------------------------------------------------
AdmissionNext ==
  \/ \E ip \in Ips : Probe(ip)
  \/ \E ip \in Ips : RejectPermanent(ip)
  \/ \E ip \in Ips : Unblock(ip)
  \/ Gc
  \/ \E ip \in Ips : AddPermanent(ip)
  \/ \E ip \in Ips : RemovePermanent(ip)
  \/ Shutdown
  \/ Restart
  \/ CrashWhilePersisting
  \/ Tick

AdmissionSpec == AdmissionInit /\ [][AdmissionNext]_admissionVars

-----------------------------------------------------------------------------
(* Safety.                                                                 *)

\* With a block longer than the window (as in the defaults of config.js, which checks neither):
\* however an address times its probes around the windows the limiter keeps, fewer than twice
\* maxHits of them are answered 404 in any windowMs, unless an administrator unblocks it.
HitsBounded == BlockDuration > Window => \A ip \in Ips : misses[ip][2 * MaxHits] = NoEntry

\* As long as the last save succeeded, a new process loads the list this one works with, but for
\* the entry "unknown", which no process loads.
FileCurrent == ~unsaved => Loaded = permanent \ {Unknown}

\* A block that has not expired is neither lifted nor prolonged by probes, by the collector of
\* old entries or by the permanent list: only an administrator or the end of the process ends it.
BlockHolds ==
  [][\A ip \in Ips :
       Blocked(ip) /\ blockedUntil'[ip] # blockedUntil[ip]
         => Unblock(ip) \/ Shutdown \/ Restart \/ CrashWhilePersisting]_admissionVars

\* The event log gets at most one rate_limited event of an address in blockEventThrottleMs,
\* although the collector forgets when the last one was.
EventsThrottled ==
  [][\A ip \in Ips :
       reported[ip] # NoEntry /\ reported'[ip] \notin {NoEntry, reported[ip]}
         => reported'[ip] - reported[ip] >= Throttle]_admissionVars

=============================================================================
