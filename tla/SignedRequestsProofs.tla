------------------------ MODULE SignedRequestsProofs ------------------------
(***************************************************************************)
(* A process accepts a nonce once, whatever the clients' clocks and the    *)
(* delays of their attempts. The heart of it is arithmetic: the second in  *)
(* which a nonce may be forgotten is later than any second in which the    *)
(* timestamp that came with it is acceptable.                              *)
(***************************************************************************)
EXTENDS SignedRequests, TLAPS

-----------------------------------------------------------------------------
(* Seconds.                                                                *)

\* What whole seconds are, for either sign of a clock (Seconds rounds down).
LEMMA SecondsBounds ==
  ASSUME NEW t \in Int
  PROVE  /\ Seconds(t) \in Int
         /\ MsPerS * Seconds(t) <= t
         /\ t < MsPerS * Seconds(t) + MsPerS
  BY SignedAssumption DEF SignedAssumption, Seconds

\* A larger number of whole seconds is larger in ticks.
LEMMA TicksMonotonic ==
  ASSUME NEW a \in Int, NEW b \in Int, a <= b
  PROVE  MsPerS * a <= MsPerS * b
<1>1. b - a \in Nat /\ MsPerS \in Nat
  BY SignedAssumption DEF SignedAssumption
<1>2. MsPerS * (b - a) >= 0
  BY <1>1
<1>3. MsPerS * (b - a) = MsPerS * b - MsPerS * a
  BY <1>1
<1>4. MsPerS * a \in Int /\ MsPerS * b \in Int
  BY <1>1
<1> QED
  BY <1>2, <1>3, <1>4

\* Seconds never run backwards.
LEMMA SecondsMonotonic ==
  ASSUME NEW a \in Int, NEW b \in Int, a <= b
  PROVE  Seconds(a) <= Seconds(b)
<1> DEFINE x == Seconds(a)
           y == Seconds(b)
<1>1. x \in Int /\ y \in Int /\ MsPerS * x <= a /\ b < MsPerS * y + MsPerS
  BY SecondsBounds
<1>2. SUFFICES ASSUME y + 1 <= x PROVE FALSE
  BY <1>1
<1> HIDE DEF x, y
<1>3. MsPerS * (y + 1) <= MsPerS * x
  BY <1>1, <1>2, TicksMonotonic
<1>4. MsPerS * (y + 1) = MsPerS * y + MsPerS
  BY <1>1, SignedAssumption DEF SignedAssumption
<1>5. MsPerS * x \in Int /\ MsPerS * y \in Int /\ MsPerS \in Int
  BY <1>1, SignedAssumption DEF SignedAssumption
<1> QED
  BY <1>1, <1>3, <1>4, <1>5

\* A number of whole seconds later the clock shows that many more.
LEMMA SecondsLater ==
  ASSUME NEW t \in Int, NEW n \in Int
  PROVE  Seconds(t + n * MsPerS) = Seconds(t) + n
<1> DEFINE x == Seconds(t)
           z == Seconds(t + n * MsPerS)
<1>1. MsPerS \in Nat \ {0} /\ n * MsPerS \in Int
  BY SignedAssumption DEF SignedAssumption
<1>2. x \in Int /\ MsPerS * x <= t /\ t < MsPerS * x + MsPerS
  BY SecondsBounds
<1>3. z \in Int /\ MsPerS * z <= t + n * MsPerS /\ t + n * MsPerS < MsPerS * z + MsPerS
  BY <1>1, SecondsBounds
<1> HIDE DEF x, z
<1>4. /\ MsPerS * (x + n) = MsPerS * x + n * MsPerS
      /\ MsPerS * (x + n + 1) = MsPerS * x + n * MsPerS + MsPerS
      /\ MsPerS * (z + 1) = MsPerS * z + MsPerS
      /\ MsPerS * x \in Int /\ MsPerS * z \in Int
  BY <1>1, <1>2, <1>3
<1>5. ~(z + 1 <= x + n)
  BY <1>1, <1>2, <1>3, <1>4, TicksMonotonic
<1>6. ~(x + n + 1 <= z)
  BY <1>1, <1>2, <1>3, <1>4, TicksMonotonic
<1>7. z = x + n
  BY <1>2, <1>3, <1>5, <1>6
<1> QED
  BY <1>7 DEF x, z

-----------------------------------------------------------------------------
(* Types.                                                                  *)

LEMMA NonceTtlIsInt == NonceTtl \in Nat
<1>1. 4 * Skew \in Nat /\ MsPerS \in Nat
  BY SignedAssumption DEF SignedAssumption
<1>2. (4 * Skew) * MsPerS \in Nat
  BY <1>1
<1> QED
  BY <1>2 DEF NonceTtl

LEMMA AnswerType ==
  ASSUME TypeOK, NEW c \in Clients, NEW k \in 1..MAX_FETCH_RETRIES,
         NEW result \in {"granted", "rejected", "error", "unauthorized"}, Answer(c, k, result)
  PROVE  /\ attempt' \in [Clients -> 0..MAX_FETCH_RETRIES]
         /\ \A d \in Clients : attempt'[d] >= attempt[d]
         /\ \A d \in Clients : attempt'[d] > 0 => attempt[d] > 0
         /\ wire' \subseteq Attempts
         /\ \A d \in Clients, j \in 1..MAX_FETCH_RETRIES : <<d, j>> \in wire' => j <= attempt'[d]
         /\ outcome' \in [Clients -> Outcomes]
  BY SignedAssumption
     DEF SignedAssumption, TypeOK, Answer, RetryOrFail, Asking, Attempts, Outcomes

\* Every operation keeps the types.
THEOREM TypeCorrect == Spec => []TypeOK
<1>1. Init => TypeOK
  BY SignedAssumption DEF SignedAssumption, Init, TypeOK, Outcomes
<1>2. TypeOK /\ [Next]_vars => TypeOK'
  <2> SUFFICES ASSUME TypeOK, [Next]_vars PROVE TypeOK'
    OBVIOUS
  <2>1. CASE Tick
    BY <2>1 DEF Tick, TypeOK, clientVars, serverVars
  <2>2. CASE Cleanup
    BY <2>2 DEF Cleanup, TypeOK, clientVars
  <2>3. CASE Restart
    BY <2>3 DEF Restart, TypeOK, clientVars
  <2>4. ASSUME NEW c \in Clients, NEW offset \in -MaxOffset..MaxOffset, Sign(c, offset)
        PROVE  TypeOK'
    <3>1. now + offset \in Int
      BY SignedAssumption DEF SignedAssumption, TypeOK
    <3> QED
      BY <2>4, <3>1, SignedAssumption
         DEF SignedAssumption, Sign, ClientClock, TypeOK, serverVars, Attempts
  <2>5. ASSUME NEW c \in Clients, FetchRaises(c)
        PROVE  TypeOK'
    BY <2>5, SignedAssumption
       DEF SignedAssumption, FetchRaises, RetryOrFail, Asking, TypeOK, serverVars, Attempts,
           Outcomes
  <2>6. ASSUME NEW c \in Clients, NEW k \in 1..MAX_FETCH_RETRIES, Refuse(c, k)
        PROVE  TypeOK'
    <3>1. /\ attempt' \in [Clients -> 0..MAX_FETCH_RETRIES]
          /\ \A d \in Clients : attempt'[d] > 0 => attempt[d] > 0
          /\ wire' \subseteq Attempts
          /\ \A d \in Clients, j \in 1..MAX_FETCH_RETRIES : <<d, j>> \in wire' => j <= attempt'[d]
          /\ outcome' \in [Clients -> Outcomes]
      BY <2>6, AnswerType DEF Refuse
    <3> QED
      BY <2>6, <3>1 DEF Refuse, TypeOK, serverVars
  <2>7. ASSUME NEW c \in Clients, NEW k \in 1..MAX_FETCH_RETRIES,
               NEW result \in {"granted", "rejected", "error"}, Accept(c, k, result)
        PROVE  TypeOK'
    <3>1. /\ attempt' \in [Clients -> 0..MAX_FETCH_RETRIES]
          /\ \A d \in Clients : attempt'[d] > 0 => attempt[d] > 0
          /\ wire' \subseteq Attempts
          /\ \A d \in Clients, j \in 1..MAX_FETCH_RETRIES : <<d, j>> \in wire' => j <= attempt'[d]
          /\ outcome' \in [Clients -> Outcomes]
      BY <2>7, AnswerType DEF Accept
    <3>2. stamp[c] \in Int
      BY <2>7 DEF Accept, TypeOK
    <3>4. now + NonceTtl \in Int
      BY NonceTtlIsInt DEF TypeOK
    <3>3. /\ DOMAIN cache' \subseteq Int
          /\ cache' \in [DOMAIN cache' -> Int]
      BY <2>7, <3>2, <3>4 DEF Accept, Remember, TypeOK
    <3>5. /\ accepted' \in [Clients -> Nat]
          /\ now' \in Nat /\ sweptAt' \in Nat
          /\ stamp' \in [Clients -> Int \cup {None}]
      BY <2>7 DEF Accept, TypeOK
    <3>6. \A d \in Clients : attempt'[d] > 0 => stamp'[d] \in Int
      BY <2>7, <3>1 DEF Accept, TypeOK
    <3> QED
      BY <3>1, <3>3, <3>5, <3>6 DEF TypeOK
  <2>8. CASE UNCHANGED vars
    BY <2>8 DEF vars, TypeOK, clientVars, serverVars
  <2> QED
    BY <2>1, <2>2, <2>3, <2>4, <2>5, <2>6, <2>7, <2>8 DEF Next
<1> QED
  BY <1>1, <1>2, PTL DEF Spec

-----------------------------------------------------------------------------
(* The nonce of an accepted header.                                        *)

\* A header that was accepted is refused from now on: its nonce is remembered until the second
\* in which its timestamp is out of tolerance, or that second has come.
Spent(c) ==
  \/ /\ stamp[c] \in DOMAIN cache
     /\ Seconds(cache[stamp[c]]) > Seconds(stamp[c]) + Skew
  \/ Seconds(now) > Seconds(stamp[c]) + Skew

AcceptedSpent == \A c \in Clients : accepted[c] >= 1 => attempt[c] > 0 /\ Spent(c)

NonceInv == AcceptedOnce /\ AcceptedSpent

\* A nonce that is accepted now may be forgotten only when its timestamp is too old.
LEMMA TtlOutlivesTolerance ==
  ASSUME NEW s \in Int, now \in Nat, InTolerance(now, s)
  PROVE  /\ Seconds(now + NonceTtl) > Seconds(s) + Skew
         /\ ~(Seconds(now) > Seconds(s) + Skew)
<1>1. Seconds(now + NonceTtl) = Seconds(now) + 4 * Skew
  <2>1. 4 * Skew \in Int
    BY SignedAssumption DEF SignedAssumption
  <2> QED
    BY <2>1, SecondsLater DEF NonceTtl
<1>2. Seconds(now) \in Int /\ Seconds(s) \in Int
  BY SecondsBounds
<1> QED
  BY <1>1, <1>2, SignedAssumption DEF SignedAssumption, InTolerance, Distance

\* A header that is spent is not valid.
LEMMA SpentRefused ==
  ASSUME TypeOK, NEW c \in Clients, attempt[c] > 0, Spent(c)
  PROVE  ~Valid(c)
<1>1. stamp[c] \in Int /\ now \in Nat
  BY DEF TypeOK
<1>2. SUFFICES ASSUME InTolerance(now, stamp[c]) PROVE Seen(stamp[c])
  BY DEF Valid
<1>3. ~(Seconds(now) > Seconds(stamp[c]) + Skew)
  BY <1>1, <1>2, TtlOutlivesTolerance
<1>4. /\ stamp[c] \in DOMAIN cache
      /\ Seconds(cache[stamp[c]]) > Seconds(stamp[c]) + Skew
  BY <1>3 DEF Spent
<1>5. cache[stamp[c]] \in Int
  BY <1>4 DEF TypeOK
<1>6. /\ Seconds(cache[stamp[c]]) \in Int /\ Seconds(now) \in Int
      /\ Seconds(stamp[c]) + Skew \in Int
  BY <1>1, <1>5, SecondsBounds, SignedAssumption DEF SignedAssumption
<1>7. ~(cache[stamp[c]] <= now)
  BY <1>1, <1>3, <1>4, <1>5, <1>6, SecondsMonotonic
<1> QED
  BY <1>1, <1>4, <1>5, <1>7 DEF Seen

\* The clock moves on and everything else that matters is left alone, or the cache forgets what
\* has expired.
LEMMA SpentStays ==
  ASSUME TypeOK, NEW c \in Clients, attempt[c] > 0, Spent(c),
         now' \in Nat, now <= now', stamp'[c] = stamp[c],
         \/ cache' = cache
         \/ cache' = [n \in {k \in DOMAIN cache : ~Expired(k)} |-> cache[n]]
  PROVE  Spent(c)'
<1>1. stamp[c] \in Int /\ now \in Nat
  BY DEF TypeOK
<1>2. Seconds(now) <= Seconds(now') /\ Seconds(now) \in Int /\ Seconds(now') \in Int
  BY <1>1, SecondsMonotonic, SecondsBounds
<1>3. Seconds(stamp[c]) + Skew \in Int
  BY <1>1, SecondsBounds, SignedAssumption DEF SignedAssumption
<1>4. Skew' = Skew /\ \A t : Seconds(t)' = Seconds(t)
  BY DEF Seconds
<1>5. CASE Seconds(now) > Seconds(stamp[c]) + Skew
  BY <1>2, <1>3, <1>5 DEF Spent, Seconds
<1>6. CASE /\ stamp[c] \in DOMAIN cache
           /\ Seconds(cache[stamp[c]]) > Seconds(stamp[c]) + Skew
  <2>1. cache[stamp[c]] \in Int
    BY <1>6 DEF TypeOK
  <2>2. CASE cache[stamp[c]] <= now
    <3>1. Seconds(cache[stamp[c]]) <= Seconds(now) /\ Seconds(cache[stamp[c]]) \in Int
      BY <1>1, <2>1, <2>2, SecondsMonotonic, SecondsBounds
    <3> QED
      BY <1>2, <1>3, <1>6, <3>1 DEF Spent, Seconds
  <2>3. CASE ~(cache[stamp[c]] <= now)
    BY <1>6, <2>3 DEF Spent, Expired, Seconds
  <2> QED
    BY <2>2, <2>3
<1> QED
  BY <1>5, <1>6 DEF Spent

\* What an accepted header leaves behind.
LEMMA AcceptSpends ==
  ASSUME TypeOK, NonceInv, NEW c \in Clients, NEW k \in 1..MAX_FETCH_RETRIES,
         NEW result \in {"granted", "rejected", "error"}, Accept(c, k, result)
  PROVE  NonceInv'
<1>1. stamp[c] \in Int /\ now \in Nat /\ attempt[c] > 0
  BY DEF Accept, TypeOK
<1>2. attempt' \in [Clients -> 0..MAX_FETCH_RETRIES] /\ \A d \in Clients : attempt'[d] >= attempt[d]
  BY AnswerType DEF Accept
<1>3. \A d \in Clients : accepted[d] >= 1 => stamp[d] # stamp[c]
  <2> SUFFICES ASSUME NEW d \in Clients, accepted[d] >= 1, stamp[d] = stamp[c] PROVE FALSE
    OBVIOUS
  <2>1. ~Valid(d)
    BY SpentRefused DEF NonceInv, AcceptedSpent
  <2> QED
    BY <2>1 DEF Accept, Valid
<1>4. accepted' = [accepted EXCEPT ![c] = @ + 1] /\ stamp' = stamp /\ accepted[c] = 0
  BY <1>3 DEF Accept, TypeOK
<1>5. AcceptedOnce'
  BY <1>3, <1>4 DEF AcceptedOnce, NonceInv, TypeOK
<1>6. ASSUME NEW d \in Clients, accepted'[d] >= 1
      PROVE  attempt'[d] > 0 /\ Spent(d)'
  <2>1. now' = now /\ stamp'[d] = stamp[d]
    BY DEF Accept
  <2>2. CASE d = c
    <3>1. /\ stamp[c] \in DOMAIN cache' /\ cache'[stamp[c]] = now + NonceTtl
      BY DEF Accept, Remember
    <3>2. Seconds(now + NonceTtl) > Seconds(stamp[c]) + Skew
      BY <1>1, TtlOutlivesTolerance DEF Accept, Valid
    <3> QED
      BY <1>1, <1>2, <2>1, <2>2, <3>1, <3>2 DEF Spent, Seconds, TypeOK
  <2>3. CASE d # c
    <3>1. accepted[d] >= 1 /\ attempt[d] > 0 /\ Spent(d) /\ stamp[d] # stamp[c]
      BY <1>3, <1>4, <1>6, <2>3 DEF NonceInv, AcceptedSpent, TypeOK
    <3>2. stamp[d] \in DOMAIN cache
            => stamp[d] \in DOMAIN cache' /\ cache'[stamp[d]] = cache[stamp[d]]
      BY <3>1 DEF Accept, Remember
    <3> QED
      BY <1>2, <2>1, <3>1, <3>2 DEF Spent, Seconds, TypeOK
  <2> QED
    BY <2>2, <2>3
<1> QED
  BY <1>5, <1>6 DEF NonceInv, AcceptedSpent

\* Whatever else happens leaves an accepted header spent.
LEMMA QuietStep ==
  ASSUME TypeOK, TypeOK', NonceInv, accepted' = accepted, now <= now',
         \A d \in Clients : accepted[d] >= 1 => stamp'[d] = stamp[d] /\ attempt'[d] >= attempt[d],
         \/ cache' = cache
         \/ cache' = [n \in {k \in DOMAIN cache : ~Expired(k)} |-> cache[n]]
  PROVE  NonceInv'
<1>1. AcceptedOnce'
  BY DEF NonceInv, AcceptedOnce, TypeOK
<1>2. ASSUME NEW d \in Clients, accepted'[d] >= 1
      PROVE  attempt'[d] > 0 /\ Spent(d)'
  <2>1. attempt[d] > 0 /\ Spent(d) /\ stamp'[d] = stamp[d] /\ attempt'[d] >= attempt[d]
    BY <1>2 DEF NonceInv, AcceptedSpent
  <2>2. Spent(d)'
    BY <2>1, SpentStays DEF TypeOK
  <2> QED
    BY <2>1, <2>2 DEF TypeOK
<1> QED
  BY <1>1, <1>2 DEF NonceInv, AcceptedSpent

\* A server process accepts a nonce at most once.
THEOREM NonceCorrect == Spec => []AcceptedOnce
<1>1. Init => NonceInv
  BY DEF Init, NonceInv, AcceptedOnce, AcceptedSpent
<1>2. TypeOK /\ TypeOK' /\ NonceInv /\ [Next]_vars => NonceInv'
  <2> SUFFICES ASSUME TypeOK, TypeOK', NonceInv, [Next]_vars PROVE NonceInv'
    OBVIOUS
  <2>1. CASE Tick
    BY <2>1, QuietStep DEF Tick, TypeOK, clientVars, serverVars
  <2>2. CASE Cleanup
    BY <2>2, QuietStep DEF Cleanup, TypeOK, clientVars
  <2>3. CASE Restart
    BY <2>3 DEF Restart, NonceInv, AcceptedOnce, AcceptedSpent
  <2>4. ASSUME NEW c \in Clients, NEW offset \in -MaxOffset..MaxOffset, Sign(c, offset)
        PROVE  NonceInv'
    <3>1. \A d \in Clients : accepted[d] >= 1 => d # c
      BY <2>4 DEF Sign, NonceInv, AcceptedSpent, TypeOK
    <3>2. \A d \in Clients : accepted[d] >= 1 => stamp'[d] = stamp[d] /\ attempt'[d] >= attempt[d]
      BY <2>4, <3>1 DEF Sign, TypeOK
    <3> QED
      BY <2>4, <3>2, QuietStep DEF Sign, TypeOK, serverVars
  <2>5. ASSUME NEW c \in Clients, FetchRaises(c)
        PROVE  NonceInv'
    <3>1. \A d \in Clients : attempt'[d] >= attempt[d]
      BY <2>5, SignedAssumption DEF SignedAssumption, FetchRaises, RetryOrFail, TypeOK
    <3> QED
      BY <2>5, <3>1, QuietStep DEF FetchRaises, TypeOK, serverVars
  <2>6. ASSUME NEW c \in Clients, NEW k \in 1..MAX_FETCH_RETRIES, Refuse(c, k)
        PROVE  NonceInv'
    <3>1. \A d \in Clients : attempt'[d] >= attempt[d]
      BY <2>6, AnswerType DEF Refuse
    <3> QED
      BY <2>6, <3>1, QuietStep DEF Refuse, TypeOK, serverVars
  <2>7. ASSUME NEW c \in Clients, NEW k \in 1..MAX_FETCH_RETRIES,
               NEW result \in {"granted", "rejected", "error"}, Accept(c, k, result)
        PROVE  NonceInv'
    BY <2>7, AcceptSpends
  <2>8. CASE UNCHANGED vars
    BY <2>8, QuietStep DEF vars, TypeOK, clientVars, serverVars
  <2> QED
    BY <2>1, <2>2, <2>3, <2>4, <2>5, <2>6, <2>7, <2>8 DEF Next
<1>3. NonceInv => AcceptedOnce
  BY DEF NonceInv
<1> QED
  BY <1>1, <1>2, <1>3, TypeCorrect, PTL DEF Spec

-----------------------------------------------------------------------------
(* The size of the cache.                                                  *)

\* What is in the cache had not expired when it was swept last, and that is at most one interval
\* ago.
SweepInv ==
  /\ sweptAt <= now
  /\ now <= sweptAt + CleanupInterval
  /\ \A n \in DOMAIN cache : cache[n] > sweptAt

\* An expired nonce is forgotten within one interval of the sweep (NonceCache._cleanup), whatever
\* the lifetime of nonces and the interval.
THEOREM NoncesCorrect == Spec => []NoncesForgotten
<1>1. Init => SweepInv
  BY SignedAssumption DEF SignedAssumption, Init, SweepInv
<1>2. TypeOK /\ TypeOK' /\ SweepInv /\ [Next]_vars => SweepInv'
  <2> SUFFICES ASSUME TypeOK, TypeOK', SweepInv, [Next]_vars PROVE SweepInv'
    OBVIOUS
  <2>1. CASE Tick
    BY <2>1, SignedAssumption DEF SignedAssumption, Tick, CleanupDue, TypeOK, SweepInv, serverVars
  <2>2. CASE Cleanup
    <3>1. \A n \in DOMAIN cache' : ~(cache[n] <= now) /\ cache'[n] = cache[n] /\ cache'[n] \in Int
      BY <2>2 DEF Cleanup, Expired, TypeOK
    <3> QED
      BY <2>2, <3>1, SignedAssumption DEF SignedAssumption, Cleanup, TypeOK, SweepInv
  <2>3. CASE Restart
    BY <2>3, SignedAssumption DEF SignedAssumption, Restart, TypeOK, SweepInv
  <2>4. ASSUME NEW c \in Clients, NEW k \in 1..MAX_FETCH_RETRIES,
               NEW result \in {"granted", "rejected", "error"}, Accept(c, k, result)
        PROVE  SweepInv'
    <3>1. NonceTtl \in Nat \ {0}
      <4> DEFINE m == 4 * Skew
      <4>1. m \in Nat \ {0} /\ MsPerS \in Nat \ {0}
        BY SignedAssumption DEF SignedAssumption
      <4> HIDE DEF m
      <4>2. m * MsPerS \in Nat \ {0}
        BY <4>1
      <4> QED
        BY <4>2 DEF NonceTtl, m
    <3>2. \A n \in DOMAIN cache' : \/ n \in DOMAIN cache /\ cache'[n] = cache[n]
                                   \/ cache'[n] = now + NonceTtl
      BY <2>4 DEF Accept, Remember
    <3>3. now' = now /\ sweptAt' = sweptAt
      BY <2>4 DEF Accept
    <3> QED
      BY <3>1, <3>2, <3>3 DEF TypeOK, SweepInv
  <2>5. CASE UNCHANGED <<now, serverVars>>
    BY <2>5 DEF SweepInv, serverVars
  <2> QED
    BY <2>1, <2>2, <2>3, <2>4, <2>5 DEF Next, Sign, FetchRaises, Refuse, vars
<1>3. TypeOK /\ SweepInv => NoncesForgotten
  BY SignedAssumption DEF SignedAssumption, TypeOK, SweepInv, NoncesForgotten
<1> QED
  BY <1>1, <1>2, <1>3, TypeCorrect, PTL DEF Spec

-----------------------------------------------------------------------------
(* Prompt requests.                                                        *)

\* A nonce in the cache is one that a client signed whose first attempt has been answered, or
\* given up.
Used(d, n) == attempt[d] > 0 /\ stamp[d] = n /\ (outcome[d] # "open" \/ attempt[d] > 1)

CacheInv == \A n \in DOMAIN cache : \E d \in Clients : Used(d, n)

\* What is out of tolerance in seconds is late in ticks.
LEMMA OutOfToleranceLate ==
  ASSUME NEW c \in Clients, stamp[c] \in Int, now \in Nat, ~InTolerance(now, stamp[c])
  PROVE  Late(c)
<1> DEFINE s == stamp[c]
<1> HIDE DEF s
<1>1. s \in Int /\ now \in Int /\ Skew \in Int /\ MsPerS \in Int
  BY SignedAssumption DEF SignedAssumption, s
<1>2. ASSUME NEW a \in Int, NEW b \in Int, a <= b, Seconds(b) - Seconds(a) > Skew
      PROVE  b - a > Skew * MsPerS
  <2>1. Seconds(a + Skew * MsPerS) = Seconds(a) + Skew /\ Skew * MsPerS \in Int
    BY <1>1, SecondsLater
  <2>2. Seconds(a) \in Int /\ Seconds(b) \in Int
    BY SecondsBounds
  <2>3. ~(b <= a + Skew * MsPerS)
    BY <1>1, <1>2, <2>1, <2>2, SecondsMonotonic
  <2> QED
    BY <2>1, <2>3
<1>3. Seconds(now) \in Int /\ Seconds(s) \in Int
  BY <1>1, SecondsBounds
<1>4. CASE now < s
  <2>1. Seconds(now) <= Seconds(s)
    BY <1>1, <1>4, SecondsMonotonic
  <2>2. Seconds(s) - Seconds(now) > Skew
    BY <1>1, <1>3, <2>1 DEF InTolerance, Distance, s
  <2> QED
    BY <1>1, <1>2, <1>4, <2>2 DEF Late, Distance, s
<1>5. CASE ~(now < s)
  <2>1. Seconds(s) <= Seconds(now)
    BY <1>1, <1>5, SecondsMonotonic
  <2>2. Seconds(now) - Seconds(s) > Skew
    BY <1>1, <1>3, <2>1 DEF InTolerance, Distance, s
  <2> QED
    BY <1>1, <1>2, <1>5, <2>2 DEF Late, Distance, s
<1> QED
  BY <1>4, <1>5

\* An attempt that is answered leaves its nonce used.
LEMMA AnswerUses ==
  ASSUME TypeOK, NEW c \in Clients, NEW k \in 1..MAX_FETCH_RETRIES, <<c, k>> \in wire,
         NEW result \in {"granted", "rejected", "error", "unauthorized"},
         Answer(c, k, result), stamp' = stamp
  PROVE  /\ Used(c, stamp[c])'
         /\ \A d \in Clients, n \in Int : Used(d, n) => Used(d, n)'
<1>1. k <= attempt[c] /\ k >= 1 /\ attempt[c] \in Int /\ k \in Int
  BY SignedAssumption DEF SignedAssumption, TypeOK
<1>2. CASE ~Asking(c) \/ attempt[c] # k
  <2>1. outcome' = outcome /\ attempt' = attempt
    BY <1>2 DEF Answer
  <2>2. outcome[c] # "open" \/ attempt[c] > 1
    BY <1>1, <1>2 DEF Asking
  <2> QED
    BY <1>1, <2>1, <2>2 DEF Used
<1>3. CASE Asking(c) /\ attempt[c] = k
  <2>1. \/ attempt' = [attempt EXCEPT ![c] = @ + 1] /\ outcome' = outcome
        \/ /\ attempt' = attempt
           /\ \E v \in {"failed", "granted", "rejected", "unauthorized"} :
                outcome' = [outcome EXCEPT ![c] = v]
    BY <1>3 DEF Answer, RetryOrFail
  <2> QED
    BY <1>1, <2>1 DEF Used, TypeOK
<1> QED
  BY <1>2, <1>3

\* The server refuses the first attempt of a client only when clock and delay exceed the
\* tolerance, or when another client has signed at the same tick (verify_req, NonceCache.isSeen).
THEOREM PromptCorrect == Spec => PromptHonoured
<1>1. Init => CacheInv
  BY DEF Init, CacheInv
<1>2. TypeOK /\ CacheInv /\ [Next]_vars => CacheInv'
  <2> SUFFICES ASSUME TypeOK, CacheInv, [Next]_vars PROVE CacheInv'
    OBVIOUS
  <2>1. CASE Tick \/ UNCHANGED vars
    BY <2>1 DEF Tick, CacheInv, Used, vars, clientVars, serverVars
  <2>2. CASE Cleanup
    BY <2>2 DEF Cleanup, CacheInv, Used, clientVars
  <2>3. CASE Restart
    BY <2>3 DEF Restart, CacheInv
  <2>4. ASSUME NEW c \in Clients, NEW offset \in -MaxOffset..MaxOffset, Sign(c, offset)
        PROVE  CacheInv'
    <3>1. \A d \in Clients, n \in Int : Used(d, n) => Used(d, n)'
      BY <2>4 DEF Sign, Used, TypeOK
    <3> QED
      BY <2>4, <3>1 DEF Sign, CacheInv, TypeOK, serverVars
  <2>5. ASSUME NEW c \in Clients, FetchRaises(c)
        PROVE  CacheInv'
    <3>1. \A d \in Clients, n \in Int : Used(d, n) => Used(d, n)'
      BY <2>5 DEF FetchRaises, RetryOrFail, Used, TypeOK
    <3> QED
      BY <2>5, <3>1 DEF FetchRaises, CacheInv, TypeOK, serverVars
  <2>6. ASSUME NEW c \in Clients, NEW k \in 1..MAX_FETCH_RETRIES, Refuse(c, k)
        PROVE  CacheInv'
    <3>1. \A d \in Clients, n \in Int : Used(d, n) => Used(d, n)'
      BY <2>6, AnswerUses DEF Refuse
    <3> QED
      BY <2>6, <3>1 DEF Refuse, CacheInv, TypeOK, serverVars
  <2>7. ASSUME NEW c \in Clients, NEW k \in 1..MAX_FETCH_RETRIES,
               NEW result \in {"granted", "rejected", "error"}, Accept(c, k, result)
        PROVE  CacheInv'
    <3>1. /\ Used(c, stamp[c])'
          /\ \A d \in Clients, n \in Int : Used(d, n) => Used(d, n)'
      BY <2>7, AnswerUses DEF Accept
    <3>2. DOMAIN cache' = DOMAIN cache \cup {stamp[c]} /\ stamp' = stamp
      BY <2>7 DEF Accept, Remember
    <3> QED
      BY <3>1, <3>2 DEF CacheInv, TypeOK, Used
  <2> QED
    BY <2>1, <2>2, <2>3, <2>4, <2>5, <2>6, <2>7 DEF Next
<1>3. TypeOK /\ CacheInv /\ [Next]_vars
        => [\A c \in Clients :
              outcome[c] = "open" /\ outcome'[c] = "unauthorized"
                => Late(c) \/ ~Alone(c) \/ attempt[c] > 1]_vars
  <2> SUFFICES ASSUME TypeOK, CacheInv, Next, NEW c \in Clients,
                      outcome[c] = "open", outcome'[c] = "unauthorized", ~(attempt[c] > 1)
               PROVE  Late(c) \/ ~Alone(c)
    OBVIOUS
  <2>1. PICK d \in Clients, k \in 1..MAX_FETCH_RETRIES : Refuse(d, k)
    <3>1. ASSUME NEW e \in Clients, NEW j \in 1..MAX_FETCH_RETRIES,
                 NEW result \in {"granted", "rejected", "error"}, Accept(e, j, result)
          PROVE  FALSE
      BY <3>1 DEF Accept, Answer, RetryOrFail, TypeOK
    <3>2. ASSUME NEW e \in Clients, FetchRaises(e)
          PROVE  FALSE
      BY <3>2 DEF FetchRaises, RetryOrFail, TypeOK
    <3> QED
      BY <3>1, <3>2 DEF Next, Tick, Cleanup, Restart, Sign, clientVars, serverVars
  <2>2. d = c
    BY <2>1 DEF Refuse, Answer, RetryOrFail, TypeOK
  <2>3. stamp[c] \in Int /\ now \in Nat
    BY <2>1, <2>2, SignedAssumption DEF SignedAssumption, Refuse, TypeOK
  <2>4. CASE ~InTolerance(now, stamp[c])
    BY <2>3, <2>4, OutOfToleranceLate
  <2>5. CASE Seen(stamp[c])
    <3>1. PICK f \in Clients : Used(f, stamp[c])
      BY <2>5 DEF Seen, CacheInv
    <3>2. f # c
      BY <3>1 DEF Used
    <3> QED
      BY <3>1, <3>2 DEF Used, Alone
  <2> QED
    BY <2>1, <2>2, <2>4, <2>5 DEF Refuse, Valid
<1> QED
  BY <1>1, <1>2, <1>3, TypeCorrect, PTL DEF Spec, PromptHonoured

=============================================================================
