------------------------- MODULE EventStreamsProofs -------------------------
(***************************************************************************)
(* Streams without gaps, and pages that show what the server has, for any  *)
(* sizes of the logs and any number of tunnels and events.                 *)
(***************************************************************************)
EXTENDS EventStreams, SequenceTheorems, TLAPS

Sayings == ListFacts \cup TunnelFacts \cup {"nothing"}

Statuses == {"none", "disconnected", "connected"}

Events == [seq : Nat, says : Sayings, place : Nat]

Snapshots == [seq : Nat, says : {"state"}, place : {0}, status : Statuses]

Entries == Events \cup Snapshots

Feeds ==
  [seq : Nat, rings : [LogIds -> Seq(Events)], forwards : SUBSET (LogIds \ {Global}),
   written : [LogIds -> Nat], lastFact : [LogIds -> Nat], source : LogIds \cup {Closed},
   ended : BOOLEAN, queue : Seq(Entries), read : Nat]

Types ==
  /\ feed \in Feeds
  /\ status \in Statuses
  /\ life \in 0..MaxLives
  /\ current \in 0..life
  /\ status # "none" => life > 0
  /\ blocked \in {"no", "yes", "expired"}

-----------------------------------------------------------------------------
(* What is written to a log.                                               *)

LEMMA BoundsTyped ==
  /\ MaxGlobal \in Nat \ {0} /\ MaxEvents \in Nat \ {0} /\ MaxLives \in Nat
  /\ LogIds = 0..MaxLives /\ Global \in LogIds /\ Closed \notin LogIds /\ Global = 0
  /\ \A l \in LogIds : Size(l) \in Nat \ {0}
BY StreamsAssumption DEF StreamsAssumption, LogIds, Global, Closed, Size

LEMMA SaidKnown ==
  ASSUME NEW type
  PROVE  Said(type) \in Sayings
BY DEF Said, Sayings, ListFacts, TunnelFacts

\* The ring drops its oldest event if it is too long.
LEMMA EvictedRing ==
  ASSUME NEW l \in LogIds, NEW ring \in Seq(Events), ring # <<>>
  PROVE  /\ Evict(ring, l) \in Seq(Events)
         /\ Len(Evict(ring, l)) <= Len(ring)
         /\ \A i \in 1..Len(Evict(ring, l)) :
              Evict(ring, l)[i] = ring[Len(ring) - Len(Evict(ring, l)) + i]
<1>1. Len(ring) \in Nat /\ Len(ring) > 0
  BY EmptySeq, LenProperties
<1>2. CASE Len(ring) > Size(l)
  <2>1. Evict(ring, l) = Tail(ring)
    BY <1>2 DEF Evict
  <2>2. /\ Tail(ring) \in Seq(Events) /\ Len(Tail(ring)) = Len(ring) - 1
        /\ \A i \in 1..Len(Tail(ring)) : Tail(ring)[i] = ring[i + 1]
    BY HeadTailProperties
  <2>3. \A i \in Nat : Len(ring) - (Len(ring) - 1) + i = i + 1
    BY <1>1
  <2> QED
    BY <1>1, <2>1, <2>2, <2>3
<1>3. CASE ~(Len(ring) > Size(l))
  BY <1>1, <1>3 DEF Evict
<1> QED
  BY <1>2, <1>3

\* The event that Write writes
Entry(f, l, says) == [seq |-> f.seq, says |-> says, place |-> f.written[l] + 1]

LEMMA Written ==
  ASSUME NEW f \in Feeds, NEW l \in LogIds, NEW says \in Sayings, NEW recorded \in BOOLEAN,
         NEW g, g = Write(f, l, says, recorded), NEW e, e = Entry(f, l, says)
  PROVE  /\ g \in Feeds /\ e \in Events
         /\ g.seq = f.seq /\ g.forwards = f.forwards /\ g.source = f.source
         /\ g.ended = f.ended /\ g.read = f.read
         /\ g.written[l] = f.written[l] + 1
         /\ g.lastFact[l] = IF says \in FactsFor(page.kind) THEN f.seq ELSE f.lastFact[l]
         /\ g.rings[l] = IF recorded THEN Evict(Append(f.rings[l], e), l) ELSE <<>>
         /\ \A k \in LogIds \ {l} :
              /\ g.written[k] = f.written[k]
              /\ g.lastFact[k] = f.lastFact[k]
              /\ g.rings[k] = f.rings[k]
         /\ g.queue = IF f.source = l /\ ~f.ended THEN Append(f.queue, e) ELSE f.queue
<1> DEFINE ring == IF recorded THEN Evict(Append(f.rings[l], e), l) ELSE <<>>
           queue == IF f.source = l /\ ~f.ended THEN Append(f.queue, e) ELSE f.queue
           last == IF says \in FactsFor(page.kind) THEN f.seq ELSE f.lastFact[l]
           places == [f.written EXCEPT ![l] = f.written[l] + 1]
           facts == [f.lastFact EXCEPT ![l] = last]
           rings == [f.rings EXCEPT ![l] = ring]
<1>1. e \in Events
  BY DEF Entry, Events, Feeds
<1>2. g = [f EXCEPT !.written = places, !.lastFact = facts, !.rings = rings, !.queue = queue]
  BY DEF Write, Entry, Feeds
<1>3. ring \in Seq(Events)
  <2>1. f.rings[l] \in Seq(Events)
    BY DEF Feeds
  <2>2. Append(f.rings[l], e) \in Seq(Events) /\ Append(f.rings[l], e) # <<>>
    BY <1>1, <2>1, AppendProperties
  <2>3. Evict(Append(f.rings[l], e), l) \in Seq(Events)
    BY <2>2, EvictedRing
  <2> QED
    BY <2>3, EmptySeq
<1>4. queue \in Seq(Entries)
  <2>1. f.queue \in Seq(Entries) /\ e \in Entries
    BY <1>1 DEF Feeds, Entries
  <2>2. Append(f.queue, e) \in Seq(Entries)
    BY <2>1, AppendProperties
  <2> QED
    BY <2>1, <2>2
<1>5. last \in Nat /\ f.written[l] + 1 \in Nat
  BY DEF Feeds
<1> HIDE DEF ring, queue, last
<1>6. places \in [LogIds -> Nat] /\ facts \in [LogIds -> Nat] /\ rings \in [LogIds -> Seq(Events)]
  BY <1>3, <1>5 DEF Feeds
<1>7. /\ places[l] = f.written[l] + 1 /\ facts[l] = last /\ rings[l] = ring
      /\ \A k \in LogIds \ {l} :
           places[k] = f.written[k] /\ facts[k] = f.lastFact[k] /\ rings[k] = f.rings[k]
  BY DEF Feeds
<1> HIDE DEF places, facts, rings
<1>8. /\ g.seq = f.seq /\ g.forwards = f.forwards /\ g.source = f.source
      /\ g.ended = f.ended /\ g.read = f.read
      /\ g.written = places /\ g.lastFact = facts /\ g.rings = rings /\ g.queue = queue
  BY <1>2 DEF Feeds
<1>9. g \in Feeds
  BY <1>2, <1>4, <1>6 DEF Feeds
<1> QED
  BY <1>1, <1>7, <1>8, <1>9 DEF ring, queue, last

-----------------------------------------------------------------------------
(* The streams.                                                            *)

\* A log's ring ends with the last event that was written.
RingInv(f, l) ==
  LET ring == f.rings[l] IN
  /\ Len(ring) <= f.written[l]
  /\ \A i \in 1..Len(ring) : ring[i].place = f.written[l] - Len(ring) + i

\* So does a stream, behind its snapshot, unless it was ended; and it began where the ring does, or
\* before.
StreamInv(f) ==
  f.source # Closed /\ ~f.ended =>
    LET left == Len(f.queue)
        total == f.written[f.source]
    IN
    /\ \A i \in 1..left :
         IF f.queue[i].says = "state" THEN i = 1 /\ f.read = 0
         ELSE f.queue[i].place = total - left + i
    /\ left > total => left = total + 1 /\ f.queue[1].says = "state"
    /\ f.read # 0 => f.read = total - left
    /\ f.read = 0 =>
         Len(f.rings[f.source]) <= IF left > 0 /\ f.queue[1].says = "state" THEN left - 1 ELSE left

FeedInv(f) ==
  /\ f \in Feeds
  /\ \A l \in LogIds : RingInv(f, l)
  /\ StreamInv(f)

LEMMA WriteKeepsFeed ==
  ASSUME NEW f, FeedInv(f), NEW l \in LogIds, NEW says \in Sayings, NEW recorded \in BOOLEAN
  PROVE  FeedInv(Write(f, l, says, recorded))
<1> SUFFICES ASSUME NEW g, g = Write(f, l, says, recorded), NEW e, e = Entry(f, l, says)
             PROVE  FeedInv(g)
  OBVIOUS
<1>0. f \in Feeds /\ (\A k \in LogIds : RingInv(f, k)) /\ StreamInv(f)
  BY DEF FeedInv
<1>1. /\ g \in Feeds /\ e \in Events
      /\ g.source = f.source /\ g.ended = f.ended /\ g.read = f.read
      /\ g.written[l] = f.written[l] + 1
      /\ g.rings[l] = IF recorded THEN Evict(Append(f.rings[l], e), l) ELSE <<>>
      /\ \A k \in LogIds \ {l} : g.written[k] = f.written[k] /\ g.rings[k] = f.rings[k]
      /\ g.queue = IF f.source = l /\ ~f.ended THEN Append(f.queue, e) ELSE f.queue
  <2>1. f \in Feeds
    BY <1>0
  <2> QED
    BY <2>1, Written
<1>2. e.place = f.written[l] + 1 /\ e.says = says /\ says # "state"
  BY DEF Entry, Sayings, ListFacts, TunnelFacts
<1>3. /\ f.written[l] \in Nat /\ g.written[l] = f.written[l] + 1
      /\ f.rings[l] \in Seq(Events) /\ Len(f.rings[l]) \in Nat
      /\ f.queue \in Seq(Entries) /\ Len(f.queue) \in Nat
  <2>1. f.written[l] \in Nat /\ f.rings[l] \in Seq(Events) /\ f.queue \in Seq(Entries)
    BY <1>0 DEF Feeds
  <2> QED
    BY <1>0, <1>1, <2>1, LenProperties DEF Feeds
<1>4. RingInv(g, l) /\ Len(g.rings[l]) <= Len(f.rings[l]) + 1
  <2>1. g.rings[l] = IF recorded THEN Evict(Append(f.rings[l], e), l) ELSE <<>>
    BY <1>1
  <2>2. CASE ~recorded
    <3>1. g.rings[l] = <<>> /\ Len(g.rings[l]) = 0
      BY <2>1, <2>2, EmptySeq
    <3> QED
      BY <1>3, <3>1 DEF RingInv
  <2>3. CASE recorded
    <3>a. PICK long : long = Append(f.rings[l], e)
      OBVIOUS
    <3>b. PICK ring : ring = Evict(long, l)
      OBVIOUS
    <3>1. /\ long \in Seq(Events) /\ long # <<>> /\ Len(long) = Len(f.rings[l]) + 1
          /\ \A i \in 1..Len(f.rings[l]) : long[i] = f.rings[l][i]
          /\ long[Len(f.rings[l]) + 1] = e
      BY <3>a, <1>1, <1>3, AppendProperties
    <3>2. /\ ring \in Seq(Events) /\ Len(ring) <= Len(long)
          /\ \A i \in 1..Len(ring) : ring[i] = long[Len(long) - Len(ring) + i]
      BY <3>b, <3>1, EvictedRing
    <3>3. g.rings[l] = ring
      BY <3>a, <3>b, <2>1, <2>3
    <3>9. Len(ring) \in Nat
      BY <3>2, LenProperties
    <3>4. \A i \in 1..Len(long) : long[i].place = g.written[l] - Len(long) + i
      <4> TAKE i \in 1..Len(long)
      <4>1. CASE i = Len(f.rings[l]) + 1
        <5>1. long[i] = e
          BY <3>1, <4>1
        <5>2. g.written[l] - Len(long) + i = f.written[l] + 1
          BY <1>3, <3>1, <4>1
        <5> QED
          BY <1>2, <5>1, <5>2
      <4>2. CASE i # Len(f.rings[l]) + 1
        <5>1. i \in 1..Len(f.rings[l])
          BY <1>3, <3>1, <4>2
        <5>2. f.written[l] - Len(f.rings[l]) + i = g.written[l] - Len(long) + i
          <6>1. Len(long) = Len(f.rings[l]) + 1 /\ g.written[l] = f.written[l] + 1
            BY <1>3, <3>1
          <6>2. PICK n \in Nat : n = Len(f.rings[l])
            BY <1>3
          <6>3. PICK m \in Nat : m = f.written[l]
            BY <1>3
          <6>4. m - n + i = (m + 1) - (n + 1) + i
            OBVIOUS
          <6> QED
            BY <6>1, <6>2, <6>3, <6>4, Zenon
        <5>3. f.rings[l][i].place = f.written[l] - Len(f.rings[l]) + i
          BY <1>0, <5>1 DEF RingInv
        <5> QED
          BY <3>1, <5>1, <5>2, <5>3
      <4> QED
        BY <4>1, <4>2
    <3>5. Len(f.rings[l]) <= f.written[l]
      BY <1>0 DEF RingInv
    <3>6. \A i \in 1..Len(ring) : ring[i].place = g.written[l] - Len(ring) + i
      <4> TAKE i \in 1..Len(ring)
      <4>0. g.written[l] \in Int /\ Len(long) \in Int /\ Len(ring) \in Int /\ i \in Int
        BY <1>3, <3>1, <3>9
      <4>1. Len(long) - Len(ring) + i \in 1..Len(long)
        BY <3>2, <4>0
      <4>2. ring[i].place = g.written[l] - Len(long) + (Len(long) - Len(ring) + i)
        BY <3>2, <3>4, <4>1
      <4>3. g.written[l] - Len(long) + (Len(long) - Len(ring) + i) = g.written[l] - Len(ring) + i
        BY <4>0
      <4> QED
        BY <4>2, <4>3
    <3> QED
      BY <1>3, <3>1, <3>2, <3>3, <3>5, <3>6, <3>9 DEF RingInv
  <2> QED
    BY <2>2, <2>3
<1>5. ASSUME NEW k \in LogIds, k # l
      PROVE  RingInv(g, k) /\ g.rings[k] = f.rings[k] /\ g.written[k] = f.written[k]
  <2>1. g.rings[k] = f.rings[k] /\ g.written[k] = f.written[k]
    BY <1>1, <1>5
  <2> QED
    BY <1>0, <2>1 DEF RingInv
<1>6. StreamInv(g)
  <2>1. SUFFICES ASSUME f.source # Closed, ~f.ended PROVE StreamInv(g)
    BY <1>1 DEF StreamInv
  <2>2. f.source \in LogIds
    BY <1>0, <2>1 DEF Feeds
  <2>3. CASE f.source # l
    <3>1. g.queue = f.queue
      BY <1>1, <2>3
    <3> QED
      BY <1>0, <1>1, <1>5, <2>2, <2>3, <3>1 DEF StreamInv
  <2>4. CASE f.source = l
    <3>1. g.queue = Append(f.queue, e) /\ e \in Entries
      BY <1>1, <2>1, <2>4 DEF Entries
    <3>2. /\ Len(g.queue) = Len(f.queue) + 1
          /\ \A i \in 1..Len(f.queue) : g.queue[i] = f.queue[i]
          /\ g.queue[Len(f.queue) + 1] = e
      BY <1>3, <3>1, AppendProperties
    <3>3. /\ \A i \in 1..Len(f.queue) :
               IF f.queue[i].says = "state" THEN i = 1 /\ f.read = 0
               ELSE f.queue[i].place = f.written[l] - Len(f.queue) + i
          /\ Len(f.queue) > f.written[l] =>
               Len(f.queue) = f.written[l] + 1 /\ f.queue[1].says = "state"
          /\ f.read # 0 => f.read = f.written[l] - Len(f.queue)
          /\ f.read = 0 =>
               Len(f.rings[l]) <= IF Len(f.queue) > 0 /\ f.queue[1].says = "state"
                                    THEN Len(f.queue) - 1 ELSE Len(f.queue)
      BY <1>0, <2>1, <2>4 DEF StreamInv
    <3>4. \A i \in 1..Len(g.queue) :
            IF g.queue[i].says = "state" THEN i = 1 /\ f.read = 0
            ELSE g.queue[i].place = g.written[l] - Len(g.queue) + i
      <4> TAKE i \in 1..Len(g.queue)
      <4>1. CASE i = Len(f.queue) + 1
        <5>1. g.queue[i] = e
          BY <3>2, <4>1
        <5>2. g.written[l] - Len(g.queue) + i = f.written[l] + 1
          BY <1>3, <3>2, <4>1
        <5> QED
          BY <1>2, <5>1, <5>2
      <4>2. CASE i # Len(f.queue) + 1
        <5>1. i \in 1..Len(f.queue)
          BY <1>3, <3>2, <4>2
        <5>2. f.written[l] - Len(f.queue) + i = g.written[l] - Len(g.queue) + i
          BY <1>3, <3>2, <5>1
        <5> QED
          BY <3>2, <3>3, <5>1, <5>2
      <4> QED
        BY <4>1, <4>2
    <3>5. ASSUME Len(g.queue) > g.written[l]
          PROVE  Len(g.queue) = g.written[l] + 1 /\ g.queue[1].says = "state"
      <4>1. Len(f.queue) > f.written[l] /\ Len(f.queue) > 0
        BY <1>3, <3>2, <3>5
      <4>2. Len(f.queue) = f.written[l] + 1 /\ f.queue[1].says = "state"
        BY <3>3, <4>1
      <4>3. g.queue[1] = f.queue[1]
        BY <1>3, <3>2, <4>1
      <4> QED
        BY <1>3, <3>2, <4>2, <4>3
    <3>6. f.read # 0 => f.read = g.written[l] - Len(g.queue)
      <4>1. f.read # 0 => f.read = f.written[l] - Len(f.queue)
        BY <3>3
      <4>2. g.written[l] - Len(g.queue) = f.written[l] - Len(f.queue)
        <5>1. /\ Len(g.queue) = Len(f.queue) + 1 /\ g.written[l] = f.written[l] + 1
              /\ Len(f.queue) \in Int /\ f.written[l] \in Int
          BY <1>3, <3>2
        <5> QED
          BY <5>1
      <4> QED
        BY <4>1, <4>2
    <3>7. f.read = 0 =>
            Len(g.rings[l]) <= IF Len(g.queue) > 0 /\ g.queue[1].says = "state"
                                 THEN Len(g.queue) - 1 ELSE Len(g.queue)
      <4>1. Len(g.rings[l]) \in Nat
        BY <1>1, LenProperties DEF Feeds
      <4>2. CASE Len(f.queue) > 0
        <5>1. g.queue[1] = f.queue[1]
          BY <1>3, <3>2, <4>2
        <5> QED
          BY <1>3, <1>4, <3>2, <3>3, <4>1, <4>2, <5>1, SMTT(30)
      <4>3. CASE Len(f.queue) = 0
        <5>1. g.queue[1] = e
          BY <3>2, <4>3
        <5> QED
          BY <1>2, <1>3, <1>4, <3>2, <3>3, <4>1, <4>3, <5>1
      <4> QED
        BY <1>3, <4>2, <4>3
    <3> QED
      BY <1>1, <2>4, <3>4, <3>5, <3>6, <3>7 DEF StreamInv
  <2> QED
    BY <2>3, <2>4
<1> QED
  BY <1>1, <1>4, <1>5, <1>6 DEF FeedInv

\* The next number is taken.
Numbered(f) == [f EXCEPT !.seq = @ + 1]

LEMMA NumberKeepsFeed ==
  ASSUME NEW f, FeedInv(f)
  PROVE  FeedInv(Numbered(f))
<1>0. f \in Feeds /\ f.seq + 1 \in Nat /\ Numbered(f) = [f EXCEPT !.seq = f.seq + 1]
  BY DEF FeedInv, Feeds, Numbered
<1>1. Numbered(f) \in Feeds
  BY <1>0 DEF Feeds
<1>2. /\ Numbered(f).rings = f.rings /\ Numbered(f).written = f.written
      /\ Numbered(f).source = f.source /\ Numbered(f).ended = f.ended
      /\ Numbered(f).queue = f.queue /\ Numbered(f).read = f.read
  BY DEF FeedInv, Feeds, Numbered
<1> QED
  BY <1>1, <1>2 DEF FeedInv, RingInv, StreamInv

LEMMA ForwardKeepsFeed ==
  ASSUME NEW f, FeedInv(f), NEW l, NEW says \in Sayings
  PROVE  FeedInv(Forward(f, l, says))
<1>1. FeedInv(Write(f, Global, says, TRUE))
  BY WriteKeepsFeed, BoundsTyped
<1> QED
  BY <1>1 DEF Forward

\* EventLog.push, and the forwarding
LEMMA PushKeepsFeed ==
  ASSUME NEW f, FeedInv(f), NEW l \in LogIds, NEW type
  PROVE  FeedInv(Push(f, l, type))
<1>1. Said(type) \in Sayings
  BY SaidKnown
<1>2. FeedInv(Numbered(f))
  BY NumberKeepsFeed
<1>3. FeedInv(Write(Numbered(f), l, Said(type), TRUE))
  BY <1>1, <1>2, WriteKeepsFeed
<1>4. FeedInv(Forward(Write(Numbered(f), l, Said(type), TRUE), l, Said(type)))
  BY <1>1, <1>3, ForwardKeepsFeed
<1> QED
  BY <1>4 DEF Push, Numbered

LEMMA PushIfKeepsFeed ==
  ASSUME NEW f, FeedInv(f), NEW l \in LogIds, NEW type, NEW condition
  PROVE  FeedInv(PushIf(condition, f, l, type))
BY PushKeepsFeed DEF PushIf

\* EventLog.clear
LEMMA ClearKeepsFeed ==
  ASSUME NEW f, FeedInv(f), NEW l \in LogIds
  PROVE  FeedInv(Clear(f, l))
<1>1. "nothing" \in Sayings
  BY DEF Sayings
<1>2. FeedInv(Numbered(f))
  BY NumberKeepsFeed
<1>3. FeedInv(Write(Numbered(f), l, "nothing", FALSE))
  BY <1>1, <1>2, WriteKeepsFeed
<1>4. FeedInv(Forward(Write(Numbered(f), l, "nothing", FALSE), l, "nothing"))
  BY <1>1, <1>3, ForwardKeepsFeed
<1> QED
  BY <1>4 DEF Clear, Numbered

\* A log starts to forward.
LEMMA ForwarderKeepsFeed ==
  ASSUME NEW f, FeedInv(f), NEW l \in LogIds \ {Global}
  PROVE  FeedInv([f EXCEPT !.forwards = @ \cup {l}])
<1> SUFFICES ASSUME NEW g, g = [f EXCEPT !.forwards = @ \cup {l}] PROVE FeedInv(g)
  OBVIOUS
<1>1. f \in Feeds /\ f.forwards \cup {l} \in SUBSET (LogIds \ {Global})
  BY DEF FeedInv, Feeds
<1>2. g \in Feeds
  BY <1>1 DEF Feeds
<1>3. /\ g.rings = f.rings /\ g.written = f.written /\ g.source = f.source
      /\ g.ended = f.ended /\ g.queue = f.queue /\ g.read = f.read
  BY <1>1 DEF Feeds
<1> QED
  BY <1>2, <1>3 DEF FeedInv, RingInv, StreamInv

\* EventLog.destroy
LEMMA DestroyedLog ==
  ASSUME NEW f \in Feeds, NEW l \in LogIds, NEW g, g = DestroyLog(f, l)
  PROVE  /\ g \in Feeds
         /\ g.seq = f.seq /\ g.written = f.written /\ g.lastFact = f.lastFact
         /\ g.source = f.source /\ g.queue = f.queue /\ g.read = f.read
         /\ g.forwards = f.forwards \ {l}
         /\ g.ended = (f.ended \/ f.source = l)
         /\ g.rings[l] = <<>>
         /\ \A k \in LogIds \ {l} : g.rings[k] = f.rings[k]
<1> DEFINE rings == [f.rings EXCEPT ![l] = <<>>]
           ended == f.ended \/ f.source = l
<1>1. g = [f EXCEPT !.rings = rings, !.forwards = f.forwards \ {l}, !.ended = ended]
  BY DEF DestroyLog, Feeds
<1>2. /\ rings \in [LogIds -> Seq(Events)] /\ rings[l] = <<>>
      /\ \A k \in LogIds \ {l} : rings[k] = f.rings[k]
      /\ ended \in BOOLEAN /\ f.forwards \ {l} \in SUBSET (LogIds \ {Global})
  BY EmptySeq DEF Feeds
<1> HIDE DEF rings
<1>3. g \in Feeds
  BY <1>1, <1>2 DEF Feeds
<1> QED
  BY <1>1, <1>2, <1>3 DEF Feeds

LEMMA DestroyKeepsFeed ==
  ASSUME NEW f, FeedInv(f), NEW l \in LogIds
  PROVE  FeedInv(DestroyLog(f, l))
<1> SUFFICES ASSUME NEW g, g = DestroyLog(f, l) PROVE FeedInv(g)
  OBVIOUS
<1>1. f \in Feeds /\ (\A k \in LogIds : RingInv(f, k)) /\ StreamInv(f)
  BY DEF FeedInv
<1>2. /\ g \in Feeds /\ g.written = f.written
      /\ g.source = f.source /\ g.queue = f.queue /\ g.read = f.read
      /\ g.ended = (f.ended \/ f.source = l) /\ g.rings[l] = <<>>
      /\ \A k \in LogIds \ {l} : g.rings[k] = f.rings[k]
  <2>1. f \in Feeds
    BY <1>1
  <2> QED
    BY <2>1, DestroyedLog
<1>3. ASSUME NEW k \in LogIds PROVE RingInv(g, k)
  <2>1. CASE k = l
    <3>1. g.rings[k] = <<>> /\ Len(g.rings[k]) = 0 /\ g.written[k] \in Nat
      BY <1>2, <2>1, EmptySeq DEF Feeds
    <3> QED
      BY <3>1 DEF RingInv
  <2>2. CASE k # l
    BY <1>1, <1>2, <2>2 DEF RingInv
  <2> QED
    BY <2>1, <2>2
<1>4. StreamInv(g)
  BY <1>1, <1>2 DEF StreamInv, Feeds
<1> QED
  BY <1>2, <1>3, <1>4 DEF FeedInv

\* The snapshot of the tunnels
LEMMA SnapshotTyped ==
  ASSUME Types
  PROVE  /\ Snapshot \in Snapshots
         /\ Snapshot.says = "state" /\ Snapshot.status = status /\ Snapshot.seq = feed.seq
BY DEF Snapshot, Snapshots, Types, Feeds

\* The events route
LEMMA Subscribed ==
  ASSUME Types, Subscribe
  PROVE  /\ Route \in LogIds
         /\ feed' \in Feeds
         /\ feed'.source = Route /\ ~feed'.ended /\ feed'.read = 0
         /\ feed'.seq = feed.seq /\ feed'.rings = feed.rings /\ feed'.forwards = feed.forwards
         /\ feed'.written = feed.written /\ feed'.lastFact = feed.lastFact
         /\ Route # Global => feed'.queue = feed.rings[Route]
         /\ Route = Global => /\ feed'.queue = <<Snapshot>> \o feed.rings[Route]
                              /\ Len(feed'.queue) = Len(feed.rings[Route]) + 1
                              /\ feed'.queue[1] = Snapshot
                              /\ \A i \in 2..Len(feed'.queue) :
                                   feed'.queue[i] = feed.rings[Route][i - 1]
<1> DEFINE ring == feed.rings[Route]
           queue == (IF Route = Global THEN <<Snapshot>> ELSE <<>>) \o ring
<1>1. Route \in LogIds
  BY BoundsTyped DEF Route, Types
<1>2. ring \in Seq(Events) /\ ring \in Seq(Entries) /\ Len(ring) \in Nat
  <2>1. ring \in Seq(Events) /\ Events \subseteq Entries
    BY <1>1 DEF Types, Feeds, Entries
  <2> QED
    BY <2>1, SeqMonotonic, LenProperties
<1>3. Snapshot \in Entries
  BY SnapshotTyped DEF Entries
<1>4. feed' = [feed EXCEPT !.source = Route, !.ended = FALSE, !.read = 0, !.queue = queue]
  BY DEF Subscribe
<1> HIDE DEF ring
<1>5. Route # Global => queue = ring
  BY <1>2, ConcatEmptySeq
<1>6. Route = Global =>
        /\ queue = <<Snapshot>> \o ring /\ queue \in Seq(Entries)
        /\ Len(queue) = Len(ring) + 1
        /\ queue[1] = Snapshot
        /\ \A i \in 2..Len(queue) : queue[i] = ring[i - 1]
  <2> SUFFICES ASSUME Route = Global
               PROVE  /\ queue = <<Snapshot>> \o ring /\ queue \in Seq(Entries)
                      /\ Len(queue) = Len(ring) + 1
                      /\ queue[1] = Snapshot
                      /\ \A i \in 2..Len(queue) : queue[i] = ring[i - 1]
    OBVIOUS
  <2>1. queue = <<Snapshot>> \o ring
    OBVIOUS
  <2>2. <<Snapshot>> \in Seq(Entries) /\ Len(<<Snapshot>>) = 1 /\ <<Snapshot>>[1] = Snapshot
    BY <1>3
  <2> HIDE DEF queue
  <2>3. /\ queue \in Seq(Entries)
        /\ Len(queue) = 1 + Len(ring)
        /\ \A i \in 1..(1 + Len(ring)) :
             queue[i] = IF i <= 1 THEN <<Snapshot>>[i] ELSE ring[i - 1]
    BY <1>2, <2>1, <2>2, ConcatProperties
  <2> QED
    BY <1>2, <2>1, <2>2, <2>3
<1> HIDE DEF queue
<1>7. queue \in Seq(Entries)
  BY <1>2, <1>5, <1>6
<1>8. /\ feed'.source = Route /\ ~feed'.ended /\ feed'.read = 0 /\ feed'.queue = queue
      /\ feed'.seq = feed.seq /\ feed'.rings = feed.rings /\ feed'.forwards = feed.forwards
      /\ feed'.written = feed.written /\ feed'.lastFact = feed.lastFact
  BY <1>4 DEF Types, Feeds
<1>9. feed' \in Feeds
  BY <1>1, <1>4, <1>7 DEF Types, Feeds
<1> QED
  BY <1>1, <1>5, <1>6, <1>8, <1>9 DEF ring

LEMMA SubscribeKeepsFeed ==
  ASSUME Types, FeedInv(feed), Subscribe
  PROVE  FeedInv(feed')
<1> DEFINE ring == feed.rings[Route]
<1>1. /\ Route \in LogIds /\ feed' \in Feeds
      /\ feed'.source = Route /\ feed'.read = 0
      /\ feed'.rings = feed.rings /\ feed'.written = feed.written
  BY Subscribed
<1>2. ring \in Seq(Events) /\ Len(ring) \in Nat /\ feed.written[Route] \in Nat
  <2>1. ring \in Seq(Events) /\ feed.written[Route] \in Nat
    BY <1>1 DEF Types, Feeds
  <2> QED
    BY <2>1, LenProperties
<1>3. /\ Len(ring) <= feed.written[Route]
      /\ \A i \in 1..Len(ring) : ring[i].place = feed.written[Route] - Len(ring) + i
  BY <1>1 DEF FeedInv, RingInv
<1>4. \A i \in 1..Len(ring) : ring[i].says # "state"
  <2>1. \A i \in 1..Len(ring) : ring[i] \in Events
    BY <1>2, ElementOfSeq
  <2> QED
    BY <2>1 DEF Events, Sayings, ListFacts, TunnelFacts
<1> HIDE DEF ring
<1>5. StreamInv(feed')
  <2>1. CASE Route # Global
    <3>1. feed'.queue = ring
      BY <2>1, Subscribed DEF ring
    <3>2. Len(ring) > 0 => ring[1].says # "state"
      BY <1>2, <1>4
    <3>3. ~(Len(ring) > feed.written[Route])
      BY <1>2, <1>3
    <3> QED
      BY <1>1, <1>2, <1>3, <1>4, <3>1, <3>2, <3>3 DEF StreamInv, ring
  <2>2. CASE Route = Global
    <3> DEFINE queue == feed'.queue
               total == feed.written[Route]
    <3>1. /\ Len(queue) = Len(ring) + 1
          /\ queue[1] = Snapshot
          /\ \A i \in 2..Len(queue) : queue[i] = ring[i - 1]
      BY <2>2, Subscribed DEF ring
    <3>2. queue[1].says = "state"
      BY <3>1, SnapshotTyped
    <3> HIDE DEF queue, total
    <3>3. ASSUME NEW i \in 1..Len(queue)
          PROVE  IF queue[i].says = "state" THEN i = 1 ELSE queue[i].place = total - Len(queue) + i
      <4>1. CASE i = 1
        BY <3>2, <4>1
      <4>2. CASE i # 1
        <5>1. i \in 2..Len(queue) /\ i - 1 \in 1..Len(ring)
          BY <1>2, <3>1, <4>2
        <5>2. queue[i].says # "state" /\ queue[i].place = total - Len(ring) + (i - 1)
          BY <1>3, <1>4, <3>1, <5>1 DEF total
        <5>3. total - Len(ring) + (i - 1) = total - Len(queue) + i
          <6>1. total \in Int /\ Len(ring) \in Int /\ i \in Int /\ Len(queue) = Len(ring) + 1
            BY <1>2, <3>1, <5>1 DEF total
          <6> QED
            BY <6>1
        <5> QED
          BY <5>2, <5>3
      <4> QED
        BY <4>1, <4>2
    <3>4. Len(queue) > total => Len(queue) = total + 1
      BY <1>2, <1>3, <3>1 DEF total
    <3>5. Len(ring) <= IF Len(queue) > 0 /\ queue[1].says = "state"
                         THEN Len(queue) - 1 ELSE Len(queue)
      BY <1>2, <3>1
    <3> QED
      BY <1>1, <3>2, <3>3, <3>4, <3>5 DEF StreamInv, queue, total, ring
  <2> QED
    BY <2>1, <2>2
<1> QED
  BY <1>1, <1>5 DEF FeedInv, RingInv

\* The page reads the first of its stream.
LEMMA Received ==
  ASSUME Types, Receive
  PROVE  /\ feed' \in Feeds /\ Head(feed.queue) \in Entries
         /\ feed'.queue = Tail(feed.queue) /\ feed'.read = Head(feed.queue).place
         /\ feed'.seq = feed.seq /\ feed'.rings = feed.rings /\ feed'.forwards = feed.forwards
         /\ feed'.written = feed.written /\ feed'.lastFact = feed.lastFact
         /\ feed'.source = feed.source /\ feed'.ended = feed.ended
         /\ Len(feed.queue) \in Nat \ {0} /\ Len(feed'.queue) = Len(feed.queue) - 1
         /\ Head(feed.queue) = feed.queue[1]
         /\ \A i \in 1..Len(feed'.queue) : feed'.queue[i] = feed.queue[i + 1]
<1> DEFINE head == Head(feed.queue)
<1>1. feed.queue \in Seq(Entries) /\ feed.queue # <<>>
  BY DEF Types, Feeds, Receive
<1>2. /\ head \in Entries /\ Tail(feed.queue) \in Seq(Entries)
      /\ Len(Tail(feed.queue)) = Len(feed.queue) - 1
      /\ \A i \in 1..Len(Tail(feed.queue)) : Tail(feed.queue)[i] = feed.queue[i + 1]
  BY <1>1, HeadTailProperties
<1>3. Len(feed.queue) \in Nat \ {0} /\ head = feed.queue[1]
  BY <1>1, EmptySeq, LenProperties
<1>4. head.place \in Nat
  BY <1>2 DEF Entries, Events, Snapshots
<1>5. feed' = [feed EXCEPT !.queue = Tail(feed.queue), !.read = head.place]
  BY DEF Receive, Types, Feeds
<1> HIDE DEF head
<1>6. feed' \in Feeds
  BY <1>2, <1>4, <1>5 DEF Types, Feeds
<1>7. /\ feed'.queue = Tail(feed.queue) /\ feed'.read = head.place
      /\ feed'.seq = feed.seq /\ feed'.rings = feed.rings /\ feed'.forwards = feed.forwards
      /\ feed'.written = feed.written /\ feed'.lastFact = feed.lastFact
      /\ feed'.source = feed.source /\ feed'.ended = feed.ended
  BY <1>5 DEF Types, Feeds
<1> QED
  BY <1>2, <1>3, <1>6, <1>7 DEF head

LEMMA ReceiveKeepsFeed ==
  ASSUME Types, FeedInv(feed), Receive
  PROVE  FeedInv(feed')
<1> DEFINE left == Len(feed.queue)
           total == feed.written[feed.source]
<1>1. /\ feed' \in Feeds
      /\ feed'.rings = feed.rings /\ feed'.written = feed.written
      /\ feed'.source = feed.source /\ feed'.ended = feed.ended
      /\ left \in Nat \ {0} /\ Len(feed'.queue) = left - 1
      /\ feed'.read = feed.queue[1].place
      /\ \A i \in 1..Len(feed'.queue) : feed'.queue[i] = feed.queue[i + 1]
  BY Received
<1>2. SUFFICES ASSUME feed.source # Closed, ~feed.ended PROVE StreamInv(feed')
  BY <1>1 DEF FeedInv, RingInv, StreamInv
<1>3. feed.source \in LogIds /\ total \in Nat
  BY <1>2 DEF Types, Feeds
<1>4. /\ \A i \in 1..left :
           IF feed.queue[i].says = "state" THEN i = 1 /\ feed.read = 0
           ELSE feed.queue[i].place = total - left + i
      /\ left > total => left = total + 1 /\ feed.queue[1].says = "state"
      /\ feed.read # 0 => feed.read = total - left
      /\ feed.read = 0 =>
           Len(feed.rings[feed.source]) <=
             IF left > 0 /\ feed.queue[1].says = "state" THEN left - 1 ELSE left
  BY <1>2 DEF FeedInv, StreamInv
<1>5. Len(feed.rings[feed.source]) \in Nat
  <2>1. feed.rings[feed.source] \in Seq(Events)
    BY <1>3 DEF Types, Feeds
  <2> QED
    BY <2>1, LenProperties
<1> HIDE DEF left, total
<1>6. ASSUME NEW i \in 1..(left - 1)
      PROVE  /\ feed'.queue[i].says # "state"
             /\ feed'.queue[i].place = total - (left - 1) + i
  <2>1. i + 1 \in 1..left /\ i + 1 # 1 /\ feed'.queue[i] = feed.queue[i + 1]
    BY <1>1
  <2>2. feed.queue[i + 1].says # "state" /\ feed.queue[i + 1].place = total - left + (i + 1)
    BY <1>4, <2>1
  <2>3. total - left + (i + 1) = total - (left - 1) + i
    BY <1>1, <1>3
  <2> QED
    BY <2>1, <2>2, <2>3
<1>7. ~(left - 1 > total)
  BY <1>1, <1>3, <1>4
<1>8. CASE feed.queue[1].says = "state"
  <2>1. feed'.read = 0
    <3>1. feed.queue[1] \in Entries
      BY Received
    <3>2. feed.queue[1] \in Snapshots
      BY <1>8, <3>1 DEF Entries, Events, Sayings, ListFacts, TunnelFacts
    <3> QED
      BY <1>1, <3>2 DEF Snapshots
  <2>2. feed.read = 0
    BY <1>1, <1>4, <1>8
  <2>3. Len(feed.rings[feed.source]) <= left - 1
    BY <1>1, <1>4, <1>8, <2>2
  <2>4. left - 1 > 0 => feed'.queue[1].says # "state"
    BY <1>1, <1>6
  <2> QED
    BY <1>1, <1>3, <1>6, <1>7, <2>1, <2>3, <2>4 DEF StreamInv, total
<1>9. CASE feed.queue[1].says # "state"
  <2>1. feed'.read = total - left + 1
    BY <1>1, <1>4, <1>9
  <2>2. left <= total
    BY <1>1, <1>3, <1>4, <1>9
  <2>3. feed'.read = total - (left - 1) /\ feed'.read # 0
    BY <1>1, <1>3, <2>1, <2>2
  <2> QED
    BY <1>1, <1>3, <1>6, <1>7, <2>3 DEF StreamInv, total
<1> QED
  BY <1>8, <1>9

LEMMA StreamsKept == Spec => [](Types /\ FeedInv(feed))
<1>1. Init => Types /\ FeedInv(feed)
  <2> SUFFICES ASSUME Init PROVE Types /\ FeedInv(feed)
    OBVIOUS
  <2>1. /\ feed.source = Closed /\ \A l \in LogIds : feed.rings[l] = <<>> /\ feed.written[l] = 0
    BY DEF Init
  <2>2. feed \in Feeds
    BY EmptySeq DEF Init, Feeds
  <2>3. Types
    BY <2>2, BoundsTyped DEF Init, Types, Statuses, Global
  <2>4. \A l \in LogIds : RingInv(feed, l)
    BY <2>1, EmptySeq DEF RingInv
  <2> QED
    BY <2>1, <2>2, <2>3, <2>4 DEF FeedInv, StreamInv
<1>2. Types /\ FeedInv(feed) /\ [Next]_vars => (Types /\ FeedInv(feed))'
  <2> SUFFICES ASSUME Types, FeedInv(feed), [Next]_vars PROVE (Types /\ FeedInv(feed))'
    OBVIOUS
  <2>0. FeedInv(feed') => feed' \in Feeds
    BY DEF FeedInv
  <2>1. CASE CreateTunnel
    <3>1. life + 1 \in LogIds \ {Global} /\ life + 1 \in 0..MaxLives
      BY <2>1, BoundsTyped DEF CreateTunnel, Types
    <3>2. FeedInv([feed EXCEPT !.forwards = @ \cup {life + 1}])
      BY <3>1, ForwarderKeepsFeed
    <3>3. FeedInv(feed')
      BY <2>1, <3>1, <3>2, PushKeepsFeed DEF CreateTunnel, Logged
    <3>4. Types'
      BY <2>0, <2>1, <3>1, <3>3 DEF CreateTunnel, Types, Statuses
    <3> QED
      BY <3>3, <3>4
  <2>2. ASSUME NEW resumes \in BOOLEAN, Hello(resumes)
        PROVE  (Types /\ FeedInv(feed))'
    <3>1. life \in LogIds
      BY BoundsTyped DEF Types
    <3>2. FeedInv(feed')
      BY <2>2, <3>1, PushKeepsFeed DEF Hello, Logged
    <3>3. life > 0
      BY <2>2 DEF Hello, Types
    <3> QED
      BY <2>0, <2>2, <3>2, <3>3 DEF Hello, Types, Statuses
  <2>3. ASSUME NEW silent \in BOOLEAN, ControlCloses(silent)
        PROVE  (Types /\ FeedInv(feed))'
    <3>1. life \in LogIds
      BY BoundsTyped DEF Types
    <3>2. FeedInv(PushIf(silent, feed, life, "control.heartbeat_timeout"))
      BY <3>1, PushIfKeepsFeed
    <3>3. FeedInv(feed')
      BY <2>3, <3>1, <3>2, PushKeepsFeed DEF ControlCloses, Logged
    <3>4. life > 0
      BY <2>3 DEF ControlCloses, Types
    <3> QED
      BY <2>0, <2>3, <3>3, <3>4 DEF ControlCloses, Types, Statuses
  <2>4. ASSUME NEW expired \in BOOLEAN, NEW attached \in BOOLEAN, Destroy(expired, attached)
        PROVE  (Types /\ FeedInv(feed))'
    <3>1. life \in LogIds
      BY BoundsTyped DEF Types
    <3> DEFINE over == PushIf(expired, feed, life, "tunnel.window_expired")
               gone == PushIf(attached, over, life, "control.disconnected")
    <3>2. FeedInv(over)
      BY <3>1, PushIfKeepsFeed
    <3> HIDE DEF over
    <3>3. FeedInv(gone)
      BY <3>1, <3>2, PushIfKeepsFeed
    <3>4. feed' = Push(gone, life, "tunnel.destroyed")
      BY <2>4 DEF Destroy, Logged, over
    <3> HIDE DEF gone
    <3>5. FeedInv(feed')
      BY <3>1, <3>3, <3>4, PushKeepsFeed
    <3> QED
      BY <2>0, <2>4, <3>5 DEF Destroy, Types, Statuses
  <2>5. CASE RequestLogged
    <3>1. life \in LogIds
      BY BoundsTyped DEF Types
    <3>2. FeedInv(feed')
      BY <2>5, <3>1, PushKeepsFeed DEF RequestLogged, Logged
    <3> QED
      BY <2>0, <2>5, <3>2 DEF RequestLogged, Types
  <2>6. ASSUME NEW l \in LogIds, CleanupLog(l)
        PROVE  (Types /\ FeedInv(feed))'
    <3>1. current \in LogIds /\ Global \in 0..life
      BY BoundsTyped DEF Types
    <3>2. FeedInv(feed')
      BY <2>6, <3>1, DestroyKeepsFeed DEF CleanupLog
    <3> QED
      BY <2>0, <2>6, <3>1, <3>2 DEF CleanupLog, Types
  <2>7. ASSUME NEW l \in LogIds, ClearEvents(l)
        PROVE  (Types /\ FeedInv(feed))'
    <3>1. FeedInv(feed')
      BY <2>7, ClearKeepsFeed DEF ClearEvents, Logged
    <3> QED
      BY <2>0, <2>7, <3>1 DEF ClearEvents, Types
  <2>8. ASSUME ServerError \/ Block \/ Unblock
        PROVE  (Types /\ FeedInv(feed))'
    <3>1. FeedInv(feed')
      BY <2>8, BoundsTyped, PushKeepsFeed DEF ServerError, Block, Unblock, ListChanges, Logged
    <3> QED
      BY <2>0, <2>8, <3>1 DEF ServerError, Block, Unblock, ListChanges, Types
  <2>9. CASE ServerEdits
    <3>1. FeedInv(feed')
      BY <2>9, BoundsTyped, PushKeepsFeed DEF ServerEdits, ListChanges, Logged
    <3> QED
      BY <2>0, <2>9, <3>1 DEF ServerEdits, ListChanges, Types
  <2>10. CASE Subscribe
    <3>1. FeedInv(feed')
      BY <2>10, SubscribeKeepsFeed
    <3> QED
      BY <2>0, <2>10, <3>1 DEF Subscribe, Types
  <2>11. CASE StreamCloses
    <3>1. feed' = [feed EXCEPT !.source = Closed, !.ended = FALSE, !.queue = <<>>, !.read = 0]
      BY <2>11 DEF StreamCloses
    <3>2. feed' \in Feeds
      BY <3>1, EmptySeq DEF Types, Feeds
    <3>3. feed'.rings = feed.rings /\ feed'.written = feed.written /\ feed'.source = Closed
      BY <3>1 DEF Types, Feeds
    <3> QED
      BY <2>11, <3>2, <3>3 DEF StreamCloses, Types, FeedInv, RingInv, StreamInv
  <2>12. CASE Receive
    <3>1. FeedInv(feed')
      BY <2>12, ReceiveKeepsFeed
    <3> QED
      BY <2>0, <2>12, <3>1 DEF Receive, Types
  <2>13. ASSUME Load \/ BlockExpires
                \/ (\E what \in {"add", "remove"}, typed \in BOOLEAN : SendEdit(what, typed))
                \/ AnswerArrives \/ EditFails \/ UNCHANGED vars
         PROVE  (Types /\ FeedInv(feed))'
    <3>1. /\ UNCHANGED <<feed, status, life, current>>
          /\ blocked' \in {blocked, "expired"}
      BY <2>13 DEF Load, BlockExpires, SendEdit, AnswerArrives, EditFails, vars
    <3> QED
      BY <3>1 DEF Types
  <2> QED
    BY <2>1, <2>2, <2>3, <2>4, <2>5, <2>6, <2>7, <2>8, <2>9, <2>10, <2>11, <2>12, <2>13, BoundsTyped
       DEF Next, TunnelNext, ListNext
<1> QED
  BY <1>1, <1>2, PTL DEF Spec

\* A stream is a log from some event on: without gap or repetition, with nothing that the ring
\* still has left out (EventLog.addSseClient and push in server/admin/event-log.js), for any
\* sizes of the rings and any number of tunnels and events.
THEOREM StreamCorrect == Spec => []StreamContiguous
<1>1. Types /\ FeedInv(feed) => StreamContiguous
  <2> SUFFICES ASSUME Types, FeedInv(feed), feed.source # Closed, ~feed.ended
               PROVE  LET log == feed.source
                          events == IF feed.queue # <<>> /\ Head(feed.queue).says = "state"
                                      THEN Tail(feed.queue) ELSE feed.queue
                          Coming == {events[i].place : i \in DOMAIN events}
                      IN
                      /\ \A i \in DOMAIN events :
                           events[i].place = feed.written[log] - Len(events) + i
                      /\ feed.read # 0 => feed.read = feed.written[log] - Len(events)
                      /\ \A i \in DOMAIN feed.rings[log] :
                           feed.rings[log][i].place \in Coming \cup 1..feed.read
    BY DEF StreamContiguous
  <2> DEFINE log == feed.source
             queue == feed.queue
             ring == feed.rings[log]
             total == feed.written[log]
             events == IF queue # <<>> /\ Head(queue).says = "state" THEN Tail(queue) ELSE queue
             left == Len(events)
  <2>1. /\ log \in LogIds /\ total \in Nat
        /\ queue \in Seq(Entries) /\ Len(queue) \in Nat
        /\ ring \in Seq(Events) /\ Len(ring) \in Nat /\ DOMAIN ring = 1..Len(ring)
    <3>1. log \in LogIds
      BY DEF Types, Feeds
    <3>2. total \in Nat /\ queue \in Seq(Entries) /\ ring \in Seq(Events)
      BY <3>1 DEF Types, Feeds
    <3> QED
      BY <3>1, <3>2, LenProperties
  <2>2. /\ \A i \in 1..Len(queue) :
             IF queue[i].says = "state" THEN i = 1 /\ feed.read = 0
             ELSE queue[i].place = total - Len(queue) + i
        /\ Len(queue) > total => Len(queue) = total + 1 /\ queue[1].says = "state"
        /\ feed.read # 0 => feed.read = total - Len(queue)
        /\ feed.read = 0 =>
             Len(ring) <= IF Len(queue) > 0 /\ queue[1].says = "state"
                            THEN Len(queue) - 1 ELSE Len(queue)
    BY DEF FeedInv, StreamInv
  <2>3. /\ Len(ring) <= total
        /\ \A i \in 1..Len(ring) : ring[i].place = total - Len(ring) + i
    BY <2>1 DEF FeedInv, RingInv
  <2>4. feed.read \in Nat
    BY DEF Types, Feeds
  <2> HIDE DEF log, queue, ring, total
  <2>5. /\ left \in Nat /\ DOMAIN events = 1..left
        /\ \A i \in 1..left : events[i].place = total - left + i
        /\ left <= total
        /\ feed.read # 0 => feed.read = total - left
        /\ feed.read = 0 => Len(ring) <= left
    <3>1. queue # <<>> => Len(queue) > 0 /\ Head(queue) = queue[1]
      BY <2>1, EmptySeq, LenProperties
    <3>2. CASE queue # <<>> /\ Head(queue).says = "state"
      <4>1. events = Tail(queue)
        BY <3>2
      <4>2. /\ events \in Seq(Entries) /\ left = Len(queue) - 1
            /\ \A i \in 1..left : events[i] = queue[i + 1]
        BY <2>1, <3>2, <4>1, HeadTailProperties
      <4> HIDE DEF events
      <4>3. left \in Nat /\ DOMAIN events = 1..left
        BY <4>2, LenProperties
      <4>4. ASSUME NEW i \in 1..left
            PROVE  events[i].place = total - left + i
        <5>1. i + 1 \in 1..Len(queue) /\ i + 1 # 1
          BY <2>1, <4>2, <4>3
        <5>2. events[i].place = total - Len(queue) + (i + 1)
          BY <2>2, <4>2, <5>1
        <5>3. total - Len(queue) + (i + 1) = total - left + i
          <6>1. total \in Int /\ Len(queue) \in Int /\ i \in Int /\ left = Len(queue) - 1
            BY <2>1, <4>2
          <6> QED
            BY <6>1
        <5> QED
          BY <5>2, <5>3
      <4>5. feed.read = 0
        BY <2>1, <2>2, <3>1, <3>2
      <4>6. left <= total /\ Len(ring) <= left
        BY <2>1, <2>2, <3>1, <3>2, <4>2, <4>5
      <4> QED
        BY <4>3, <4>4, <4>5, <4>6
    <3>3. CASE ~(queue # <<>> /\ Head(queue).says = "state")
      <4>1. events = queue
        BY <3>3
      <4>2. ~(Len(queue) > 0 /\ queue[1].says = "state")
        BY <2>1, <3>1, <3>3, EmptySeq
      <4>3. \A i \in 1..Len(queue) : queue[i].says # "state"
        BY <2>1, <2>2, <4>2
      <4>4. Len(queue) <= total
        BY <2>1, <2>2, <4>2
      <4>5. left = Len(queue) /\ DOMAIN events = 1..left
        BY <2>1, <4>1, LenProperties
      <4> QED
        BY <2>1, <2>2, <4>1, <4>2, <4>3, <4>4, <4>5
    <3> QED
      BY <3>2, <3>3
  <2> HIDE DEF events, left
  <2> DEFINE Coming == {events[i].place : i \in DOMAIN events}
  <2>6. ASSUME NEW i \in 1..Len(ring)
        PROVE  ring[i].place \in Coming \cup 1..feed.read
    <3> DEFINE p == ring[i].place
    <3>1. p = total - Len(ring) + i /\ p \in 1..total
      BY <2>1, <2>3
    <3> HIDE DEF p
    <3>2. CASE p > total - left
      <4> DEFINE j == p - (total - left)
      <4>1. j \in 1..left /\ total - left + j = p
        BY <2>1, <2>5, <3>1, <3>2
      <4> HIDE DEF j
      <4>2. events[j].place = p
        BY <2>5, <4>1
      <4> QED
        BY <2>5, <4>1, <4>2 DEF p
    <3>3. CASE ~(p > total - left)
      <4>1. feed.read # 0
        BY <2>1, <2>5, <3>1, <3>3
      <4>2. p \in 1..feed.read
        BY <2>1, <2>4, <2>5, <3>1, <3>3, <4>1
      <4> QED
        BY <4>2 DEF p
    <3> QED
      BY <3>2, <3>3
  <2> QED
    BY <2>1, <2>5, <2>6 DEF log, queue, ring, total, events, left
<1> QED
  BY <1>1, StreamsKept, PTL

-----------------------------------------------------------------------------
(* The events that are kept.                                               *)

\* The events of a log that are in its ring or on their way to the page
Of(f, l) == Range(f.rings[l]) \cup (IF f.source = l THEN Range(f.queue) ELSE {})

Facts == FactsFor(page.kind)

\* What concerns the page is not newer than the last event of the log that does.
FactsInv(f) ==
  /\ f \in Feeds
  /\ f.source = Closed => f.queue = <<>>
  /\ \A l \in LogIds :
       /\ f.lastFact[l] <= f.seq
       /\ \A e \in Of(f, l) : e.says \in Facts => e.seq <= f.lastFact[l]

\* From f to g the log l gets an event that says so.
Gets(f, g, l, says) ==
  /\ \A e \in Of(g, l) : e \in Of(f, l) \/ (e.seq = g.seq /\ e.says = says)
  /\ g.lastFact[l] = IF says \in Facts THEN g.seq ELSE f.lastFact[l]

Keeps(f, g, l) == Of(g, l) = Of(f, l) /\ g.lastFact[l] = f.lastFact[l]

\* From f to g an event is recorded, in l and, if it is forwarded, in the global log.
Records(f, g, l, says) ==
  /\ f \in Feeds /\ g \in Feeds
  /\ g.seq = f.seq + 1
  /\ g.source = f.source /\ g.ended = f.ended /\ g.forwards = f.forwards
  /\ f.source = Closed => g.queue = f.queue
  /\ \A k \in LogIds :
       IF k = l \/ (k = Global /\ l \in f.forwards) THEN Gets(f, g, k, says) ELSE Keeps(f, g, k)

LEMMA RangesKnown ==
  ASSUME NEW S, NEW s \in Seq(S)
  PROVE  /\ Range(<<>>) = {}
         /\ Range(s) \subseteq S
         /\ \A e \in S : Range(Append(s, e)) = Range(s) \cup {e}
         /\ s # <<>> => Range(Tail(s)) \subseteq Range(s) /\ Head(s) \in Range(s)
<1>1. Len(s) \in Nat /\ DOMAIN s = 1..Len(s) /\ \A i \in 1..Len(s) : s[i] \in S
  BY LenProperties, ElementOfSeq
<1>2. Range(<<>>) = {}
  BY DEF Range
<1>3. Range(s) = {s[i] : i \in 1..Len(s)} /\ Range(s) \subseteq S
  BY <1>1 DEF Range
<1>4. ASSUME NEW e \in S
      PROVE  Range(Append(s, e)) = Range(s) \cup {e}
  <2>1. /\ Append(s, e) \in Seq(S) /\ Len(Append(s, e)) = Len(s) + 1
        /\ \A i \in 1..Len(s) : Append(s, e)[i] = s[i]
        /\ Append(s, e)[Len(s) + 1] = e
    BY AppendProperties
  <2>2. Range(Append(s, e)) = {Append(s, e)[i] : i \in 1..(Len(s) + 1)}
    BY <2>1, LenProperties DEF Range
  <2>3. 1..(Len(s) + 1) = 1..Len(s) \cup {Len(s) + 1}
    BY <1>1
  <2> QED
    BY <1>3, <2>1, <2>2, <2>3
<1>5. ASSUME s # <<>>
      PROVE  Range(Tail(s)) \subseteq Range(s) /\ Head(s) \in Range(s)
  <2>1. /\ Tail(s) \in Seq(S) /\ Len(Tail(s)) = Len(s) - 1
        /\ \A i \in 1..Len(Tail(s)) : Tail(s)[i] = s[i + 1]
    BY <1>5, HeadTailProperties
  <2>2. Range(Tail(s)) = {Tail(s)[i] : i \in 1..(Len(s) - 1)}
    BY <2>1, LenProperties DEF Range
  <2>3. \A i \in 1..(Len(s) - 1) : i + 1 \in 1..Len(s)
    BY <1>1
  <2>4. 1 \in 1..Len(s) /\ Head(s) = s[1]
    BY <1>1, <1>5, EmptySeq
  <2> QED
    BY <1>3, <2>1, <2>2, <2>3, <2>4
<1> QED
  BY <1>2, <1>3, <1>4, <1>5

LEMMA TailKept ==
  ASSUME NEW S, NEW s \in Seq(S), s # <<>>
  PROVE  Range(Tail(s)) \subseteq Range(s) /\ Head(s) \in Range(s)
BY RangesKnown

LEMMA WriteGets ==
  ASSUME NEW f \in Feeds, NEW l \in LogIds, NEW says \in Sayings, NEW recorded \in BOOLEAN,
         NEW g, g = Write(f, l, says, recorded)
  PROVE  /\ g \in Feeds /\ g.seq = f.seq
         /\ g.source = f.source /\ g.ended = f.ended /\ g.forwards = f.forwards
         /\ f.source = Closed => g.queue = f.queue
         /\ Gets(f, g, l, says)
         /\ \A k \in LogIds \ {l} : Keeps(f, g, k)
<1> SUFFICES ASSUME NEW e, e = Entry(f, l, says)
             PROVE  /\ g \in Feeds /\ g.seq = f.seq
                    /\ g.source = f.source /\ g.ended = f.ended /\ g.forwards = f.forwards
                    /\ f.source = Closed => g.queue = f.queue
                    /\ Gets(f, g, l, says)
                    /\ \A k \in LogIds \ {l} : Keeps(f, g, k)
  OBVIOUS
<1>1. /\ g \in Feeds /\ e \in Events
      /\ g.seq = f.seq /\ g.forwards = f.forwards /\ g.source = f.source /\ g.ended = f.ended
      /\ g.lastFact[l] = IF says \in Facts THEN f.seq ELSE f.lastFact[l]
      /\ g.rings[l] = IF recorded THEN Evict(Append(f.rings[l], e), l) ELSE <<>>
      /\ \A k \in LogIds \ {l} : g.lastFact[k] = f.lastFact[k] /\ g.rings[k] = f.rings[k]
      /\ g.queue = IF f.source = l /\ ~f.ended THEN Append(f.queue, e) ELSE f.queue
  BY Written DEF Facts
<1>2. e.seq = g.seq /\ e.says = says
  BY <1>1 DEF Entry
<1>3. f.rings[l] \in Seq(Events) /\ f.queue \in Seq(Entries) /\ e \in Entries
  BY <1>1 DEF Feeds, Entries
<1>4. Range(g.rings[l]) \subseteq Range(f.rings[l]) \cup {e}
  <2>1. CASE ~recorded
    BY <1>1, <1>3, <2>1, RangesKnown
  <2>2. CASE recorded
    <3>1. Append(f.rings[l], e) \in Seq(Events) /\ Append(f.rings[l], e) # <<>>
      BY <1>1, <1>3, AppendProperties
    <3>2. Range(Evict(Append(f.rings[l], e), l)) \subseteq Range(Append(f.rings[l], e))
      <4>1. Range(Tail(Append(f.rings[l], e))) \subseteq Range(Append(f.rings[l], e))
        BY <3>1, TailKept
      <4> QED
        BY <4>1 DEF Evict
    <3> QED
      BY <1>1, <1>3, <2>2, <3>2, RangesKnown
  <2> QED
    BY <2>1, <2>2
<1>5. f.source = l => Range(g.queue) \subseteq Range(f.queue) \cup {e}
  BY <1>1, <1>3, RangesKnown
<1>6. f.source # l => g.queue = f.queue
  BY <1>1
<1>7. Gets(f, g, l, says)
  BY <1>1, <1>2, <1>4, <1>5 DEF Gets, Of
<1>8. \A k \in LogIds \ {l} : Keeps(f, g, k)
  BY <1>1, <1>6 DEF Keeps, Of
<1>9. f.source = Closed => g.queue = f.queue
  BY <1>6, BoundsTyped
<1> QED
  BY <1>1, <1>7, <1>8, <1>9

LEMMA GlobalGets ==
  ASSUME NEW f \in Feeds, NEW says \in Sayings, NEW g, g = Write(f, Global, says, TRUE)
  PROVE  /\ g \in Feeds /\ g.seq = f.seq
         /\ g.source = f.source /\ g.ended = f.ended /\ g.forwards = f.forwards
         /\ f.source = Closed => g.queue = f.queue
         /\ Gets(f, g, Global, says)
         /\ \A k \in LogIds \ {Global} : Keeps(f, g, k)
<1>1. PICK recorded \in BOOLEAN : recorded
  OBVIOUS
<1>2. g = Write(f, Global, says, recorded)
  BY <1>1 DEF Write
<1>3. Global \in LogIds
  BY BoundsTyped
<1> QED
  BY <1>2, <1>3, WriteGets

LEMMA NumberedFeed ==
  ASSUME NEW f \in Feeds, NEW n, n = Numbered(f)
  PROVE  /\ n \in Feeds /\ n.seq = f.seq + 1
         /\ n.source = f.source /\ n.ended = f.ended /\ n.forwards = f.forwards
         /\ n.queue = f.queue /\ n.rings = f.rings /\ n.lastFact = f.lastFact
         /\ \A l : Of(n, l) = Of(f, l)
<1>1. f.seq + 1 \in Nat /\ n = [f EXCEPT !.seq = f.seq + 1]
  BY DEF Feeds, Numbered
<1>2. n \in Feeds
  BY <1>1 DEF Feeds
<1>3. /\ n.seq = f.seq + 1
      /\ n.source = f.source /\ n.ended = f.ended /\ n.forwards = f.forwards
      /\ n.queue = f.queue /\ n.rings = f.rings /\ n.lastFact = f.lastFact
  BY <1>1 DEF Feeds
<1> QED
  BY <1>2, <1>3 DEF Of

\* What is numbered, written and forwarded is recorded.
LEMMA ForwardRecords ==
  ASSUME NEW f \in Feeds, NEW l \in LogIds, NEW says \in Sayings, NEW recorded \in BOOLEAN,
         NEW g, g = Forward(Write(Numbered(f), l, says, recorded), l, says)
  PROVE  Records(f, g, l, says)
<1> SUFFICES ASSUME NEW n, n = Numbered(f), NEW w, w = Write(n, l, says, recorded)
             PROVE  Records(f, g, l, says)
  OBVIOUS
<1>1. /\ n \in Feeds /\ n.seq = f.seq + 1
      /\ n.source = f.source /\ n.ended = f.ended /\ n.forwards = f.forwards
      /\ n.queue = f.queue /\ n.lastFact = f.lastFact
      /\ \A k : Of(n, k) = Of(f, k)
  BY NumberedFeed
<1>2. /\ w \in Feeds /\ w.seq = n.seq
      /\ w.source = n.source /\ w.ended = n.ended /\ w.forwards = n.forwards
      /\ n.source = Closed => w.queue = n.queue
      /\ Gets(n, w, l, says)
      /\ \A k \in LogIds \ {l} : Keeps(n, w, k)
  BY <1>1, WriteGets
<1>3. l \in w.forwards => l # Global
  BY <1>2 DEF Feeds
<1>4. CASE l \notin w.forwards
  <2>1. g = w
    BY <1>4 DEF Forward
  <2> QED
    BY <1>1, <1>2, <1>4, <2>1 DEF Records, Gets, Keeps
<1>5. CASE l \in w.forwards
  <2>1. g = Write(w, Global, says, TRUE) /\ Global \in LogIds
    BY <1>5, BoundsTyped DEF Forward
  <2>2. /\ g \in Feeds /\ g.seq = w.seq
        /\ g.source = w.source /\ g.ended = w.ended /\ g.forwards = w.forwards
        /\ w.source = Closed => g.queue = w.queue
        /\ Gets(w, g, Global, says)
        /\ \A k \in LogIds \ {Global} : Keeps(w, g, k)
    <3>1. w \in Feeds /\ g = Write(w, Global, says, TRUE)
      BY <1>2, <2>1
    <3>2. \A h : h = Write(w, Global, says, TRUE) =>
                /\ h \in Feeds /\ h.seq = w.seq
                /\ h.source = w.source /\ h.ended = w.ended /\ h.forwards = w.forwards
                /\ w.source = Closed => h.queue = w.queue
                /\ Gets(w, h, Global, says)
                /\ \A k \in LogIds \ {Global} : Keeps(w, h, k)
      BY <3>1, GlobalGets
    <3> QED
      BY <3>1, <3>2, Zenon
  <2>3. Gets(f, g, l, says)
    <3>1. l \in LogIds \ {Global}
      BY <1>3, <1>5
    <3>2. Keeps(w, g, l) /\ g.seq = w.seq
      BY <2>2, <3>1
    <3>3. Gets(n, w, l, says) /\ w.seq = n.seq
      BY <1>2
    <3>4. Gets(n, g, l, says)
      BY <3>2, <3>3 DEF Gets, Keeps
    <3> QED
      BY <1>1, <3>4 DEF Gets
  <2>4. Gets(f, g, Global, says)
    <3>1. Global \in LogIds \ {l}
      BY <1>3, <1>5, <2>1
    <3>2. Keeps(n, w, Global)
      BY <1>2, <3>1
    <3>3. Gets(w, g, Global, says)
      BY <2>2
    <3>4. Gets(n, g, Global, says)
      BY <3>2, <3>3 DEF Gets, Keeps
    <3> QED
      BY <1>1, <3>4 DEF Gets
  <2>5. ASSUME NEW k \in LogIds, k # l, k # Global
        PROVE  Keeps(f, g, k)
    BY <1>1, <1>2, <2>2, <2>5 DEF Keeps
  <2> QED
    BY <1>1, <1>2, <1>5, <2>2, <2>3, <2>4, <2>5 DEF Records
<1> QED
  BY <1>4, <1>5

LEMMA PushRecords ==
  ASSUME NEW f \in Feeds, NEW l \in LogIds, NEW type
  PROVE  Records(f, Push(f, l, type), l, Said(type))
BY SaidKnown, ForwardRecords DEF Push, Numbered

LEMMA ClearRecords ==
  ASSUME NEW f \in Feeds, NEW l \in LogIds
  PROVE  Records(f, Clear(f, l), l, "nothing")
<1>1. "nothing" \in Sayings
  BY DEF Sayings
<1> QED
  BY <1>1, ForwardRecords DEF Clear, Numbered

LEMMA EntriesNumbered ==
  ASSUME NEW f \in Feeds, NEW l \in LogIds, NEW e \in Of(f, l)
  PROVE  e \in Entries /\ e.seq \in Nat
<1>1. f.rings[l] \in Seq(Events) /\ f.queue \in Seq(Entries)
  BY DEF Feeds
<1>2. Range(f.rings[l]) \subseteq Entries /\ Range(f.queue) \subseteq Entries
  BY <1>1, RangesKnown DEF Entries
<1>3. e \in Entries
  BY <1>2 DEF Of
<1> QED
  BY <1>3 DEF Entries, Events, Snapshots

LEMMA RecordsKeepsFacts ==
  ASSUME NEW f, FactsInv(f), NEW l \in LogIds, NEW says, NEW g, Records(f, g, l, says)
  PROVE  FactsInv(g)
<1>1. /\ f.seq \in Nat /\ g.seq = f.seq + 1 /\ g \in Feeds
      /\ \A k \in LogIds : f.lastFact[k] \in Nat
  BY DEF Records, Feeds
<1>2. ASSUME NEW k \in LogIds
      PROVE  /\ g.lastFact[k] <= g.seq
             /\ \A e \in Of(g, k) : e.says \in Facts => e.seq <= g.lastFact[k]
  <2>1. /\ f.lastFact[k] <= f.seq
        /\ \A e \in Of(f, k) : e.says \in Facts => e.seq <= f.lastFact[k]
    BY DEF FactsInv
  <2>2. CASE Keeps(f, g, k)
    BY <1>1, <2>1, <2>2 DEF Keeps
  <2>3. CASE Gets(f, g, k, says)
    <3>1. CASE says \in Facts
      <4>1. g.lastFact[k] = g.seq
        BY <2>3, <3>1 DEF Gets
      <4>2. ASSUME NEW e \in Of(g, k), e.says \in Facts
            PROVE  e.seq <= g.seq
        <5>1. CASE e \in Of(f, k)
          <6>1. e.seq <= f.lastFact[k]
            BY <2>1, <4>2, <5>1
          <6>2. e.seq \in Nat
            BY <1>1, <5>1, EntriesNumbered DEF Records
          <6> QED
            BY <1>1, <2>1, <6>1, <6>2
        <5>2. CASE e.seq = g.seq
          BY <1>1, <5>2
        <5> QED
          BY <2>3, <5>1, <5>2 DEF Gets
      <4> QED
        BY <1>1, <4>1, <4>2
    <3>2. CASE says \notin Facts
      BY <1>1, <2>1, <2>3, <3>2 DEF Gets
    <3> QED
      BY <3>1, <3>2
  <2> QED
    BY <2>2, <2>3 DEF Records
<1>3. g.source = Closed => g.queue = <<>>
  BY DEF Records, FactsInv
<1> QED
  BY <1>1, <1>2, <1>3 DEF FactsInv

LEMMA PushKeepsFacts ==
  ASSUME NEW f, FactsInv(f), NEW l \in LogIds, NEW type
  PROVE  FactsInv(Push(f, l, type))
BY PushRecords, RecordsKeepsFacts DEF FactsInv

LEMMA PushIfKeepsFacts ==
  ASSUME NEW f, FactsInv(f), NEW l \in LogIds, NEW type, NEW condition
  PROVE  FactsInv(PushIf(condition, f, l, type))
BY PushKeepsFacts DEF PushIf

LEMMA FactsNamed ==
  Facts \subseteq ListFacts \cup TunnelFacts /\ "state" \notin Facts /\ "nothing" \notin Facts
BY DEF Facts, FactsFor, ListFacts, TunnelFacts

\* Nothing is recorded, and a stream is opened, read or closed, or a log destroyed.
Shortens(f, g) ==
  /\ g \in Feeds /\ g.seq = f.seq /\ g.lastFact = f.lastFact
  /\ g.source = Closed => g.queue = <<>>
  /\ \A l \in LogIds : \A e \in Of(g, l) : e \in Of(f, l) \/ e = Snapshot

LEMMA ShortensKeepsFacts ==
  ASSUME Types, NEW f, FactsInv(f), NEW g, Shortens(f, g)
  PROVE  FactsInv(g)
<1>1. Snapshot.says \notin Facts
  BY SnapshotTyped, FactsNamed
<1> QED
  BY <1>1 DEF FactsInv, Shortens

LEMMA ForwarderKeepsFacts ==
  ASSUME NEW f, FactsInv(f), NEW l \in LogIds \ {Global},
         NEW g, g = [f EXCEPT !.forwards = @ \cup {l}]
  PROVE  /\ FactsInv(g)
         /\ g \in Feeds /\ g.seq = f.seq /\ g.lastFact = f.lastFact /\ g.source = f.source
         /\ g.ended = f.ended /\ g.queue = f.queue /\ g.rings = f.rings
         /\ g.forwards = f.forwards \cup {l}
         /\ \A k : Of(g, k) = Of(f, k)
<1>1. f \in Feeds /\ f.forwards \cup {l} \in SUBSET (LogIds \ {Global})
  BY DEF FactsInv, Feeds
<1>2. g \in Feeds
  BY <1>1 DEF Feeds
<1>3. /\ g.seq = f.seq /\ g.lastFact = f.lastFact /\ g.source = f.source
      /\ g.ended = f.ended /\ g.queue = f.queue /\ g.rings = f.rings
      /\ g.forwards = f.forwards \cup {l}
  BY <1>1 DEF Feeds
<1> QED
  BY <1>2, <1>3 DEF FactsInv, Of

LEMMA DestroyShortens ==
  ASSUME NEW f, FactsInv(f), NEW l \in LogIds
  PROVE  Shortens(f, DestroyLog(f, l))
<1> SUFFICES ASSUME NEW g, g = DestroyLog(f, l) PROVE Shortens(f, g)
  OBVIOUS
<1>1. f \in Feeds
  BY DEF FactsInv
<1>2. /\ g \in Feeds /\ g.seq = f.seq /\ g.lastFact = f.lastFact
      /\ g.source = f.source /\ g.queue = f.queue
      /\ g.rings[l] = <<>>
      /\ \A k \in LogIds \ {l} : g.rings[k] = f.rings[k]
  BY <1>1, DestroyedLog
<1>3. Range(g.rings[l]) = {}
  BY <1>2 DEF Range
<1> QED
  BY <1>2, <1>3 DEF Shortens, Of, FactsInv

LEMMA SubscribeShortens ==
  ASSUME Types, FactsInv(feed), Subscribe
  PROVE  Shortens(feed, feed')
<1>1. /\ Route \in LogIds /\ feed' \in Feeds
      /\ feed'.source = Route /\ feed'.seq = feed.seq
      /\ feed'.lastFact = feed.lastFact /\ feed'.rings = feed.rings
  BY Subscribed
<1>2. ASSUME NEW e \in Range(feed'.queue)
      PROVE  e \in Range(feed.rings[Route]) \/ e = Snapshot
  <2> DEFINE ring == feed.rings[Route]
  <2>1. ring \in Seq(Events) /\ DOMAIN ring = 1..Len(ring) /\ Len(ring) \in Nat
    <3>1. ring \in Seq(Events)
      BY <1>1 DEF Types, Feeds
    <3> QED
      BY <3>1, LenProperties
  <2>2. CASE Route # Global
    BY <1>2, <2>2, Subscribed
  <2>3. CASE Route = Global
    <3>1. /\ Len(feed'.queue) = Len(ring) + 1
          /\ feed'.queue[1] = Snapshot
          /\ \A i \in 2..Len(feed'.queue) : feed'.queue[i] = ring[i - 1]
      BY <2>3, Subscribed
    <3>2. PICK i \in 1..Len(feed'.queue) : e = feed'.queue[i]
      <4>1. DOMAIN feed'.queue = 1..Len(feed'.queue)
        BY <1>1, LenProperties DEF Feeds
      <4> QED
        BY <1>2, <4>1 DEF Range
    <3> HIDE DEF ring
    <3>3. CASE i = 1
      BY <3>1, <3>2, <3>3
    <3>4. CASE i # 1
      <4>1. i \in 2..Len(feed'.queue) /\ i - 1 \in 1..Len(ring)
        BY <2>1, <3>1, <3>2, <3>4
      <4>2. e = ring[i - 1] /\ i - 1 \in DOMAIN ring
        BY <2>1, <3>1, <3>2, <4>1
      <4> QED
        BY <4>2 DEF Range, ring
    <3> QED
      BY <3>3, <3>4
  <2> QED
    BY <2>2, <2>3
<1>3. feed'.source # Closed
  BY <1>1, BoundsTyped
<1> QED
  BY <1>1, <1>2, <1>3 DEF Shortens, Of

LEMMA CloseShortens ==
  ASSUME Types, StreamCloses
  PROVE  /\ Shortens(feed, feed')
         /\ feed'.source = Closed /\ feed'.queue = <<>> /\ ~feed'.ended
         /\ feed'.rings = feed.rings /\ feed'.forwards = feed.forwards
<1>1. feed' = [feed EXCEPT !.source = Closed, !.ended = FALSE, !.queue = <<>>, !.read = 0]
  BY DEF StreamCloses
<1>2. feed' \in Feeds
  BY <1>1, EmptySeq DEF Types, Feeds
<1>3. /\ feed'.seq = feed.seq /\ feed'.lastFact = feed.lastFact /\ feed'.rings = feed.rings
      /\ feed'.source = Closed /\ feed'.queue = <<>> /\ ~feed'.ended
      /\ feed'.forwards = feed.forwards
  BY <1>1 DEF Types, Feeds
<1>4. Range(feed'.queue) = {}
  BY <1>3 DEF Range
<1> QED
  BY <1>2, <1>3, <1>4 DEF Shortens, Of

LEMMA ReceiveShortens ==
  ASSUME Types, FactsInv(feed), Receive
  PROVE  /\ Shortens(feed, feed')
         /\ feed.source \in LogIds /\ Head(feed.queue) \in Of(feed, feed.source)
<1>1. feed.queue \in Seq(Entries) /\ feed.queue # <<>>
  BY DEF Types, Feeds, Receive
<1>2. Range(Tail(feed.queue)) \subseteq Range(feed.queue) /\ Head(feed.queue) \in Range(feed.queue)
  BY <1>1, TailKept
<1>3. feed.source \in LogIds
  BY <1>1 DEF FactsInv, Types, Feeds
<1>4. /\ feed' \in Feeds /\ feed'.queue = Tail(feed.queue)
      /\ feed'.seq = feed.seq /\ feed'.lastFact = feed.lastFact /\ feed'.rings = feed.rings
      /\ feed'.source = feed.source
  BY Received
<1>5. feed'.source # Closed
  BY <1>3, <1>4, BoundsTyped
<1> QED
  BY <1>2, <1>3, <1>4, <1>5 DEF Shortens, Of

-----------------------------------------------------------------------------
(* The page's own state.                                                   *)

Views == {"unknown"} \cup ListFacts \cup TunnelFacts \cup Statuses

Pages == [kind : PageKinds, view : Views, latest : Nat, typed : BOOLEAN]

Edits ==
  [phase : {"none", "sent", "answered"}, what : {"", "add", "remove"}, typed : BOOLEAN,
   ok : BOOLEAN, seq : Nat]

PageTypes == page \in Pages /\ edit \in Edits

LEMMA ShownTyped ==
  ASSUME PageTypes, NEW view \in Views, NEW e, e.seq \in Nat
  PROVE  /\ Shows(view, e) \in Pages /\ Shows(view, e).kind = page.kind
         /\ Shows(view, e).view = view /\ Shows(view, e).latest = e.seq
BY DEF PageTypes, Pages, Shows

LEMMA HandlesTyped ==
  ASSUME PageTypes, NEW e \in Entries
  PROVE  Handles(e) \in Pages /\ Handles(e).kind = page.kind
<1>1. e.seq \in Nat
  BY DEF Entries, Events, Snapshots
<1>2. /\ "disconnected" \in Views
      /\ e.says \in TunnelFacts \cup ListFacts => e.says \in Views
      /\ e.says = "state" => e.status \in Views
  BY DEF Entries, Events, Snapshots, Views, Statuses, Sayings, ListFacts, TunnelFacts
<1>3. page \in Pages
  BY DEF PageTypes
<1>4. page.kind \in {"overview", "tunnel", "temp", "perm"}
  BY <1>3 DEF Pages, PageKinds
<1>5. CASE page.kind = "overview"
  BY <1>1, <1>2, <1>3, <1>5, ShownTyped DEF Handles, OverviewHandles
<1>6. CASE page.kind = "tunnel"
  BY <1>1, <1>2, <1>3, <1>6, ShownTyped DEF Handles, TunnelPageHandles
<1>7. CASE page.kind \in {"temp", "perm"}
  BY <1>1, <1>2, <1>3, <1>7, ShownTyped DEF Handles, BlocklistHandles
<1> QED
  BY <1>4, <1>5, <1>6, <1>7

\* The page stays what it is, and keeps its shape.
LEMMA PageStays ==
  ASSUME Types, PageTypes, [Next]_vars
  PROVE  PageTypes' /\ page'.kind = page.kind
<1>1. page \in Pages /\ edit \in Edits
  BY DEF PageTypes
<1>2. CASE UNCHANGED <<page, edit>>
  BY <1>1, <1>2 DEF PageTypes
<1>3. CASE Load
  BY <1>1, <1>3 DEF Load, PageTypes, Pages, Views, ListFacts, Types, Feeds
<1>4. ASSUME NEW what \in {"add", "remove"}, NEW typed \in BOOLEAN, SendEdit(what, typed)
      PROVE  PageTypes' /\ page'.kind = page.kind
  BY <1>1, <1>4 DEF SendEdit, NoEdit, PageTypes, Edits
<1>5. CASE ServerEdits
  <2>1. feed'.seq \in Nat
    <3>1. ASSUME NEW type PROVE Push(feed, Global, type).seq \in Nat
      <4>1. feed \in Feeds /\ Global \in LogIds
        BY BoundsTyped DEF Types
      <4>2. Records(feed, Push(feed, Global, type), Global, Said(type))
        BY <4>1, PushRecords
      <4> QED
        BY <4>2 DEF Records, Feeds
    <3> QED
      BY <1>5, <3>1 DEF ServerEdits, ListChanges, Logged, Types, Feeds
  <2>2. edit' = [edit EXCEPT !.phase = "answered", !.ok = (edit.what = "add") = (blocked = "no"),
                             !.seq = feed'.seq] /\ page' = page
    BY <1>5 DEF ServerEdits
  <2>3. ((edit.what = "add") = (blocked = "no")) \in BOOLEAN
    OBVIOUS
  <2> QED
    BY <1>1, <2>1, <2>2, <2>3 DEF PageTypes, Edits
<1>6. CASE AnswerArrives
  <2>1. edit.seq \in Nat /\ "listed" \in Views /\ "unlisted" \in Views
    BY <1>1 DEF Edits, Views, ListFacts
  <2>2. edit' \in Edits
    BY <1>6 DEF AnswerArrives, NoEdit, Edits
  <2>3. page' \in {page, Shows("listed", edit), Shows("unlisted", edit)}
        \/ \E t \in BOOLEAN : page' = [page EXCEPT !.typed = t]
    BY <1>6 DEF AnswerArrives, RowChanges
  <2>4. ASSUME NEW t \in BOOLEAN
        PROVE  [page EXCEPT !.typed = t] \in Pages /\ [page EXCEPT !.typed = t].kind = page.kind
    BY <1>1 DEF Pages
  <2>5. ASSUME NEW view \in {"listed", "unlisted"}
        PROVE  Shows(view, edit) \in Pages /\ Shows(view, edit).kind = page.kind
    <3>1. view \in Views
      BY <2>1, <2>5
    <3> QED
      BY <2>1, <3>1, ShownTyped
  <2>6. page' \in Pages /\ page'.kind = page.kind
    <3>1. CASE page' = page
      BY <1>1, <3>1
    <3>2. CASE \E view \in {"listed", "unlisted"} : page' = Shows(view, edit)
      BY <2>5, <3>2
    <3>3. CASE \E t \in BOOLEAN : page' = [page EXCEPT !.typed = t]
      BY <2>4, <3>3
    <3> QED
      BY <2>3, <3>1, <3>2, <3>3
  <2> QED
    BY <2>2, <2>6 DEF PageTypes
<1>7. CASE EditFails
  BY <1>1, <1>7 DEF EditFails, NoEdit, PageTypes, Edits
<1>8. CASE Receive
  <2>1. Head(feed.queue) \in Entries
    BY <1>8, Received
  <2>2. page' = Handles(Head(feed.queue)) /\ edit' = edit
    BY <1>8 DEF Receive
  <2> QED
    BY <1>1, <2>1, <2>2, HandlesTyped DEF PageTypes
<1> QED
  BY <1>2, <1>3, <1>4, <1>5, <1>6, <1>7, <1>8
     DEF Next, TunnelNext, ListNext, CreateTunnel, Hello, ControlCloses, Destroy, RequestLogged,
         CleanupLog, ClearEvents, Block, BlockExpires, Unblock, ServerError, Subscribe,
         StreamCloses, vars

LEMMA FactsKept == Spec => [](PageTypes /\ FactsInv(feed))
<1>1. Init => PageTypes /\ FactsInv(feed)
  <2> SUFFICES ASSUME Init PROVE PageTypes /\ FactsInv(feed)
    OBVIOUS
  <2>1. PageTypes
    <3>1. page \in Pages
      <4>1. PICK k \in PageKinds :
              page = [kind |-> k, view |-> "unknown", latest |-> 0, typed |-> FALSE]
        BY DEF Init
      <4>2. "unknown" \in Views /\ 0 \in Nat
        BY DEF Views
      <4> QED
        BY <4>1, <4>2 DEF Pages
    <3> QED
      BY <3>1 DEF Init, PageTypes, Edits, NoEdit
  <2>2. feed \in Feeds
    BY EmptySeq DEF Init, Feeds
  <2>3. /\ feed.source = Closed /\ feed.queue = <<>> /\ feed.seq = 0
        /\ \A l \in LogIds : feed.rings[l] = <<>> /\ feed.lastFact[l] = 0
    BY DEF Init
  <2>4. \A l \in LogIds : Of(feed, l) = {}
    BY <2>3, BoundsTyped DEF Of, Range
  <2> QED
    BY <2>1, <2>2, <2>3, <2>4 DEF FactsInv
<1>2. Types /\ PageTypes /\ FactsInv(feed) /\ [Next]_vars => (PageTypes /\ FactsInv(feed))'
  <2> SUFFICES ASSUME Types, PageTypes, FactsInv(feed), [Next]_vars
               PROVE  (PageTypes /\ FactsInv(feed))'
    OBVIOUS
  <2>1. PageTypes' /\ page'.kind = page.kind
    BY PageStays
  <2>2. SUFFICES FactsInv(feed')
    BY <2>1 DEF FactsInv, Facts, Of
  <2>3. life \in LogIds /\ current \in LogIds /\ Global \in LogIds
    BY BoundsTyped DEF Types
  <2>4. CASE CreateTunnel
    <3>1. life + 1 \in LogIds \ {Global}
      BY <2>4, BoundsTyped DEF CreateTunnel, Types
    <3>2. FactsInv([feed EXCEPT !.forwards = @ \cup {life + 1}])
      BY <3>1, ForwarderKeepsFacts
    <3> QED
      BY <2>4, <3>1, <3>2, PushKeepsFacts DEF CreateTunnel, Logged
  <2>5. ASSUME NEW resumes \in BOOLEAN, Hello(resumes)
        PROVE  FactsInv(feed')
    BY <2>3, <2>5, PushKeepsFacts DEF Hello, Logged
  <2>6. ASSUME NEW silent \in BOOLEAN, ControlCloses(silent)
        PROVE  FactsInv(feed')
    <3>1. FactsInv(PushIf(silent, feed, life, "control.heartbeat_timeout"))
      BY <2>3, PushIfKeepsFacts
    <3> QED
      BY <2>3, <2>6, <3>1, PushKeepsFacts DEF ControlCloses, Logged
  <2>7. ASSUME NEW expired \in BOOLEAN, NEW attached \in BOOLEAN, Destroy(expired, attached)
        PROVE  FactsInv(feed')
    <3> DEFINE over == PushIf(expired, feed, life, "tunnel.window_expired")
               gone == PushIf(attached, over, life, "control.disconnected")
    <3>1. FactsInv(over)
      BY <2>3, PushIfKeepsFacts
    <3> HIDE DEF over
    <3>2. FactsInv(gone)
      BY <2>3, <3>1, PushIfKeepsFacts
    <3>3. feed' = Push(gone, life, "tunnel.destroyed")
      BY <2>7 DEF Destroy, Logged, over
    <3> HIDE DEF gone
    <3> QED
      BY <2>3, <3>2, <3>3, PushKeepsFacts
  <2>8. CASE RequestLogged
    BY <2>3, <2>8, PushKeepsFacts DEF RequestLogged, Logged
  <2>9. ASSUME NEW l \in LogIds, CleanupLog(l)
        PROVE  FactsInv(feed')
    BY <2>3, <2>9, DestroyShortens, ShortensKeepsFacts DEF CleanupLog
  <2>10. ASSUME NEW l \in LogIds, ClearEvents(l)
         PROVE  FactsInv(feed')
    BY <2>10, ClearRecords, RecordsKeepsFacts DEF ClearEvents, Logged, FactsInv
  <2>11. CASE ServerError \/ Block \/ Unblock
    BY <2>3, <2>11, PushKeepsFacts DEF ServerError, Block, Unblock, ListChanges, Logged
  <2>12. CASE ServerEdits
    BY <2>3, <2>12, PushKeepsFacts DEF ServerEdits, ListChanges, Logged
  <2>13. CASE Subscribe
    BY <2>13, SubscribeShortens, ShortensKeepsFacts
  <2>14. CASE StreamCloses
    BY <2>14, CloseShortens, ShortensKeepsFacts
  <2>15. CASE Receive
    BY <2>15, ReceiveShortens, ShortensKeepsFacts
  <2>16. CASE UNCHANGED feed
    BY <2>16
  <2> QED
    BY <2>3, <2>4, <2>5, <2>6, <2>7, <2>8, <2>9, <2>10, <2>11, <2>12, <2>13, <2>14, <2>15, <2>16
       DEF Next, TunnelNext, ListNext, Load, BlockExpires, SendEdit, AnswerArrives, EditFails, vars
<1> QED
  BY <1>1, <1>2, StreamsKept, PTL DEF Spec

-----------------------------------------------------------------------------
(* The blocklist page.                                                     *)

Agrees(view) ==
  /\ blocked = "yes" => view = "listed"
  /\ view = "listed" => blocked # "no"

\* What an answered change of the page makes it show
Answer == IF edit.what = "add" THEN "listed" ELSE "unlisted"

\* The last event of the list, the page if it shows its effect or a later state, and an answer on
\* its way that is not older, agree with the server.
ListInv ==
  page.kind \in {"temp", "perm"} =>
    /\ feed.source \in {Closed, Global}
    /\ page.latest <= feed.seq /\ edit.seq <= feed.seq
    /\ \A e \in Of(feed, Global) :
         e.says \in ListFacts /\ e.seq = feed.lastFact[Global] => Agrees(e.says)
    /\ page.view # "unknown" /\ feed.lastFact[Global] <= page.latest => Agrees(page.view)
    /\ edit.phase = "answered" /\ (edit.what = "add" => edit.ok)
         /\ feed.lastFact[Global] <= edit.seq => Agrees(Answer)

\* An event is recorded that tells how the list is now.
LEMMA ListChangeKeepsInv ==
  ASSUME Types, PageTypes, FactsInv(feed), ListInv, page.kind \in {"temp", "perm"},
         NEW to \in {"yes", "no"}, ListChanges(to), UNCHANGED page
  PROVE  /\ feed'.seq = feed.seq + 1 /\ feed'.lastFact[Global] = feed'.seq
         /\ feed'.source \in {Closed, Global}
         /\ page.latest <= feed.seq
         /\ \A e \in Of(feed', Global) :
              e.says \in ListFacts /\ e.seq = feed'.lastFact[Global] => Agrees(e.says)'
<1> DEFINE type == IF to = "yes" THEN "ip.blocked" ELSE "ip.unblocked"
<1>1. feed' = Push(feed, Global, type) /\ blocked' = to
  BY DEF ListChanges, Logged
<1>2. Said(type) = (IF to = "yes" THEN "listed" ELSE "unlisted")
  BY DEF Said
<1>3. Facts = ListFacts
  BY DEF Facts, FactsFor
<1>4. feed \in Feeds /\ Global \in LogIds /\ Global \notin feed.forwards
  BY BoundsTyped DEF Types, Feeds
<1> HIDE DEF type
<1>5. Records(feed, feed', Global, Said(type))
  BY <1>1, <1>4, PushRecords
<1>6. /\ feed'.seq = feed.seq + 1 /\ feed'.source = feed.source
      /\ Gets(feed, feed', Global, Said(type))
  BY <1>4, <1>5 DEF Records
<1>7. feed'.lastFact[Global] = feed'.seq
  BY <1>2, <1>3, <1>6 DEF Gets, ListFacts
<1>8. ASSUME NEW e \in Of(feed', Global), e.says \in ListFacts, e.seq = feed'.lastFact[Global]
      PROVE  Agrees(e.says)'
  <2>1. CASE e \in Of(feed, Global)
    <3>1. e.seq <= feed.lastFact[Global] /\ feed.lastFact[Global] <= feed.seq
      BY <1>3, <1>4, <1>8, <2>1 DEF FactsInv
    <3>2. e.seq \in Nat /\ feed.lastFact[Global] \in Nat /\ feed.seq \in Nat
      BY <1>4, <2>1, EntriesNumbered DEF Feeds
    <3> QED
      BY <1>6, <1>7, <1>8, <3>1, <3>2
  <2>2. CASE e.says = Said(type)
    BY <1>1, <1>2, <2>2 DEF Agrees
  <2> QED
    BY <1>6, <2>1, <2>2 DEF Gets
<1> QED
  BY <1>6, <1>7, <1>8 DEF ListInv

LEMMA ListKept == Spec => []ListInv
<1>1. Init => ListInv
  <2> SUFFICES ASSUME Init PROVE ListInv
    OBVIOUS
  <2>1. feed.source = Closed /\ feed.rings[Global] = <<>> /\ feed.seq = 0
    BY BoundsTyped DEF Init
  <2>2. Of(feed, Global) = {}
    BY <2>1, BoundsTyped DEF Of, Range
  <2>3. edit.phase = "none" /\ edit.seq = 0 /\ page.view = "unknown" /\ page.latest = 0
    <3>1. PICK k \in PageKinds :
              page = [kind |-> k, view |-> "unknown", latest |-> 0, typed |-> FALSE]
      BY DEF Init
    <3> QED
      BY <3>1 DEF Init, NoEdit
  <2> QED
    BY <2>1, <2>2, <2>3 DEF ListInv
<1>2. Types /\ PageTypes /\ FactsInv(feed) /\ ListInv /\ [Next]_vars => ListInv'
  <2> SUFFICES ASSUME Types, PageTypes, FactsInv(feed), ListInv, [Next]_vars,
                      page.kind \in {"temp", "perm"}
               PROVE  ListInv'
    BY PageStays DEF ListInv
  <2>0. /\ page'.kind = page.kind
        /\ feed \in Feeds /\ Global \in LogIds /\ Global \notin feed.forwards
        /\ feed.seq \in Nat /\ feed.lastFact[Global] \in Nat
        /\ page.latest \in Nat /\ edit.seq \in Nat
        /\ feed.lastFact[Global] <= feed.seq
        /\ \A e \in Of(feed, Global) :
             e.seq \in Nat /\ (e.says \in ListFacts => e.seq <= feed.lastFact[Global])
    <3>1. feed \in Feeds /\ Global \in LogIds
      BY BoundsTyped DEF Types
    <3>2. Facts = ListFacts
      BY DEF Facts, FactsFor
    <3>3. page.latest \in Nat /\ edit.seq \in Nat
      BY DEF PageTypes, Pages, Edits
    <3> QED
      BY <3>1, <3>2, <3>3, PageStays, EntriesNumbered DEF FactsInv, Feeds
  <2>1. /\ feed.source \in {Closed, Global}
        /\ page.latest <= feed.seq /\ edit.seq <= feed.seq
        /\ \A e \in Of(feed, Global) :
             e.says \in ListFacts /\ e.seq = feed.lastFact[Global] => Agrees(e.says)
        /\ page.view # "unknown" /\ feed.lastFact[Global] <= page.latest => Agrees(page.view)
        /\ edit.phase = "answered" /\ (edit.what = "add" => edit.ok)
             /\ feed.lastFact[Global] <= edit.seq => Agrees(Answer)
    BY DEF ListInv
  <2>2. CASE Load
    BY <2>0, <2>1, <2>2 DEF Load, ListInv, Agrees, Answer, Of, PageTypes, Pages
  <2>3. CASE Block \/ Unblock
    <3>1. PICK to \in {"yes", "no"} : ListChanges(to)
      BY <2>3 DEF Block, Unblock
    <3>2. UNCHANGED <<page, edit>>
      BY <2>3 DEF Block, Unblock
    <3>3. /\ feed'.seq = feed.seq + 1 /\ feed'.lastFact[Global] = feed'.seq
          /\ feed'.source \in {Closed, Global}
          /\ \A e \in Of(feed', Global) :
               e.says \in ListFacts /\ e.seq = feed'.lastFact[Global] => Agrees(e.says)'
      BY <3>1, <3>2, ListChangeKeepsInv
    <3>4. ~(feed'.lastFact[Global] <= page.latest) /\ ~(feed'.lastFact[Global] <= edit.seq)
          /\ page.latest <= feed'.seq /\ edit.seq <= feed'.seq
      BY <2>0, <2>1, <3>3
    <3> QED
      BY <3>2, <3>3, <3>4 DEF ListInv, Of
  <2>4. CASE BlockExpires
    <3>1. \A v : Agrees(v) => Agrees(v)'
      BY <2>4 DEF BlockExpires, Agrees
    <3> QED
      BY <2>1, <2>4, <3>1 DEF BlockExpires, ListInv, Of, Answer
  <2>5. CASE ServerError \/ ClearEvents(Global)
    <3>1. PICK says : Records(feed, feed', Global, says) /\ says \notin ListFacts
      <4>1. "nothing" \notin ListFacts /\ Said("server.error") = "nothing"
        BY DEF ListFacts, Said
      <4> QED
        BY <2>0, <2>5, <4>1, PushRecords, ClearRecords DEF ServerError, ClearEvents, Logged
    <3>2. /\ feed'.seq = feed.seq + 1 /\ feed'.source = feed.source
          /\ Gets(feed, feed', Global, says)
      BY <2>0, <3>1 DEF Records
    <3>3. Facts = ListFacts
      BY DEF Facts, FactsFor
    <3>4. /\ feed'.lastFact[Global] = feed.lastFact[Global]
          /\ \A e \in Of(feed', Global) : e.says \in ListFacts => e \in Of(feed, Global)
      BY <3>1, <3>2, <3>3 DEF Gets
    <3>5. UNCHANGED <<page, edit, blocked>>
      BY <2>5 DEF ServerError, ClearEvents
    <3>6. page.latest <= feed'.seq /\ edit.seq <= feed'.seq
      BY <2>0, <2>1, <3>2
    <3> QED
      BY <2>1, <3>2, <3>4, <3>5, <3>6 DEF ListInv, Agrees, Answer, Of
  <2>6. ASSUME NEW what \in {"add", "remove"}, NEW typed \in BOOLEAN, SendEdit(what, typed)
        PROVE  ListInv'
    <3>1. UNCHANGED <<feed, blocked, page>> /\ edit'.phase = "sent" /\ edit'.seq = 0
      BY <2>6 DEF SendEdit, NoEdit
    <3>2. edit'.seq <= feed.seq
      BY <2>0, <3>1
    <3> QED
      BY <2>1, <3>1, <3>2 DEF ListInv, Agrees, Of
  <2>7. CASE ServerEdits
    <3>0. /\ page' = page /\ edit'.what = edit.what /\ edit'.seq = feed'.seq
          /\ edit'.ok = ((edit.what = "add") = (blocked = "no"))
      BY <2>7 DEF ServerEdits, PageTypes, Edits
    <3>1. CASE (edit.what = "add") = (blocked = "no")
      <4> DEFINE to == IF edit.what = "add" THEN "yes" ELSE "no"
      <4>1. ListChanges(to) /\ to \in {"yes", "no"}
        BY <2>7, <3>1 DEF ServerEdits
      <4>2. /\ feed'.seq = feed.seq + 1 /\ feed'.lastFact[Global] = feed'.seq
            /\ feed'.source \in {Closed, Global}
            /\ \A e \in Of(feed', Global) :
                 e.says \in ListFacts /\ e.seq = feed'.lastFact[Global] => Agrees(e.says)'
        BY <3>0, <4>1, ListChangeKeepsInv
      <4>3. ~(feed'.lastFact[Global] <= page.latest) /\ page.latest <= feed'.seq
            /\ edit'.seq <= feed'.seq
        BY <2>0, <2>1, <3>0, <4>2
      <4>4. Agrees(Answer)'
        BY <3>0, <4>1 DEF ListChanges, Agrees, Answer
      <4> QED
        BY <3>0, <4>2, <4>3, <4>4 DEF ListInv, Of
    <3>2. CASE ~((edit.what = "add") = (blocked = "no"))
      <4>1. UNCHANGED <<feed, blocked>>
        BY <2>7, <3>2 DEF ServerEdits
      <4>2. (edit'.what = "add" => edit'.ok) => Agrees(Answer)'
        BY <3>0, <3>2, <4>1 DEF Agrees, Answer
      <4> QED
        BY <2>0, <2>1, <3>0, <4>1, <4>2 DEF ListInv, Of, Agrees
    <3> QED
      BY <3>1, <3>2
  <2>8. CASE AnswerArrives
    <3>0. edit'.phase = "none" /\ edit'.seq <= feed.seq
      <4>1. edit'.phase = "none" /\ edit'.seq = 0
        BY <2>8 DEF AnswerArrives, NoEdit
      <4> QED
        BY <2>0, <4>1
    <3>1. /\ UNCHANGED <<feed, blocked>> /\ edit' = NoEdit /\ edit.phase = "answered"
          /\ page' = IF edit.what = "add" /\ ~edit.ok THEN page ELSE RowChanges
      BY <2>8 DEF AnswerArrives
    <3>2. CASE (edit.what = "add" /\ ~edit.ok) \/ edit.typed
      <4>1. page'.view = page.view /\ page'.latest = page.latest
        BY <3>1, <3>2 DEF RowChanges, PageTypes, Pages
      <4> QED
        BY <2>1, <3>0, <3>1, <4>1 DEF ListInv, Of, Agrees
    <3>3. CASE ~(edit.what = "add" /\ ~edit.ok) /\ ~edit.typed
      <4>1. page'.view = Answer /\ page'.latest = edit.seq
        BY <3>1, <3>3 DEF RowChanges, Answer, Shows, PageTypes, Pages
      <4>2. edit.what = "add" => edit.ok
        BY <3>3
      <4> QED
        BY <2>1, <3>0, <3>1, <4>1, <4>2 DEF ListInv, Of, Agrees
    <3> QED
      BY <3>2, <3>3
  <2>9. CASE EditFails
    <3>1. UNCHANGED <<feed, blocked, page>> /\ edit'.phase = "none" /\ edit'.seq = 0
      BY <2>9 DEF EditFails, NoEdit
    <3>2. edit'.seq <= feed.seq
      BY <2>0, <3>1
    <3> QED
      BY <2>1, <3>1, <3>2 DEF ListInv, Of, Agrees
  <2>10. CASE Subscribe \/ StreamCloses
    <3>1. /\ Shortens(feed, feed') /\ feed'.source \in {Closed, Global}
      BY <2>10, SubscribeShortens, Subscribed, CloseShortens DEF Route
    <3>2. /\ feed'.seq = feed.seq /\ feed'.lastFact = feed.lastFact
          /\ \A e \in Of(feed', Global) : e.says \in ListFacts => e \in Of(feed, Global)
      BY <2>0, <3>1, SnapshotTyped DEF Shortens, ListFacts
    <3>3. UNCHANGED <<page, edit, blocked>>
      BY <2>10 DEF Subscribe, StreamCloses
    <3> QED
      BY <2>1, <3>1, <3>2, <3>3 DEF ListInv, Agrees, Answer, Of
  <2>11. CASE Receive
    <3> DEFINE e == Head(feed.queue)
    <3>1. Shortens(feed, feed') /\ e \in Of(feed, Global) /\ feed'.source = feed.source
      BY <2>1, <2>11, ReceiveShortens, Received, BoundsTyped
    <3>2. /\ feed'.seq = feed.seq /\ feed'.lastFact = feed.lastFact
          /\ \A x \in Of(feed', Global) : x.says \in ListFacts => x \in Of(feed, Global)
      BY <2>0, <3>1, SnapshotTyped DEF Shortens, ListFacts
    <3>3. /\ page' = BlocklistHandles(e) /\ UNCHANGED <<edit, blocked>>
      BY <2>11 DEF Receive, Handles
    <3> HIDE DEF e
    <3>4. /\ page'.latest <= feed.seq
          /\ page'.view # "unknown" /\ feed.lastFact[Global] <= page'.latest => Agrees(page'.view)
      <4>1. CASE e.says \in ListFacts
        <5>1. page'.view = e.says /\ page'.latest = e.seq
          BY <3>3, <4>1 DEF BlocklistHandles, Shows, PageTypes, Pages
        <5> QED
          BY <2>0, <2>1, <3>1, <4>1, <5>1
      <4>2. CASE e.says \notin ListFacts
        BY <2>1, <3>3, <4>2 DEF BlocklistHandles
      <4> QED
        BY <4>1, <4>2
    <3> QED
      BY <2>1, <3>1, <3>2, <3>3, <3>4 DEF ListInv, Agrees, Answer, Of
  <2>12. CASE UNCHANGED vars
    BY <2>1, <2>12 DEF vars, ListInv, Agrees, Answer, Of
  <2> QED
    BY <2>2, <2>3, <2>4, <2>5, <2>6, <2>7, <2>8, <2>9, <2>10, <2>11, <2>12 DEF Next, ListNext
<1> QED
  BY <1>1, <1>2, StreamsKept, FactsKept, PTL DEF Spec

LEMMA ListCorrect == Spec => []BlocklistCurrent
<1>1. PageTypes /\ ListInv => BlocklistCurrent
  BY DEF ListInv, BlocklistCurrent, UpToDate, Agrees
<1> QED
  BY <1>1, ListKept, FactsKept, PTL

-----------------------------------------------------------------------------
(* The page of a tunnel.                                                   *)

\* What a tunnel's page must show of the l-th tunnel
Standing(l) == IF l = life /\ status # "none" THEN status ELSE "destroyed"

Shown(says) == IF says = "created" THEN "disconnected" ELSE says

Newest(f, l, view) ==
  \A e \in Of(f, l) : e.says \in TunnelFacts /\ e.seq = f.lastFact[l] => Shown(e.says) = view

\* The last event of every tunnel tells how it stands, the later tunnel's is the later one, and the
\* page is not ahead of the tunnel it follows, nor of the one it would follow next.
TunnelPageInv ==
  page.kind = "tunnel" =>
    /\ page.latest <= feed.seq
    /\ feed.source = Closed \/ feed.source \in 1..life
    /\ feed.source # Closed /\ current # Global => feed.source <= current
    /\ \A l \in 1..life : Newest(feed, l, Standing(l))
    /\ \A l, m \in 1..life : l < m => feed.lastFact[l] < feed.lastFact[m]
    /\ \A l \in 1..life : l = feed.source \/ l = current =>
         /\ page.latest <= feed.lastFact[l]
         /\ page.latest = feed.lastFact[l] => page.view = Standing(l)

\* From f to g only the log l and the global log change.
Reaches(f, g, l) ==
  /\ FactsInv(g) /\ f.seq <= g.seq /\ g.source = f.source
  /\ \A k \in LogIds \ {l, Global} : Keeps(f, g, k)

\* From f to g nothing is recorded that concerns the page.
Quiet(f, g) ==
  /\ f.seq <= g.seq
  /\ \A k \in LogIds :
       /\ g.lastFact[k] = f.lastFact[k]
       /\ \A e \in Of(g, k) : e.says \in Facts => e \in Of(f, k)

LEMMA ReachesItself ==
  ASSUME NEW f, FactsInv(f), NEW l \in LogIds
  PROVE  Reaches(f, f, l)
BY DEF Reaches, Keeps, FactsInv, Feeds

LEMMA PushIfReaches ==
  ASSUME NEW f \in Feeds, NEW l \in LogIds, NEW g, Reaches(f, g, l), NEW condition, NEW type,
         NEW h, h = PushIf(condition, g, l, type)
  PROVE  Reaches(f, h, l)
<1>1. FactsInv(g) /\ g \in Feeds /\ f.seq <= g.seq /\ g.source = f.source
  BY DEF Reaches, FactsInv
<1>2. FactsInv(h)
  BY <1>1, PushIfKeepsFacts
<1>3. CASE ~condition
  BY <1>3 DEF PushIf
<1>4. CASE condition
  <2>1. Records(g, h, l, Said(type))
    BY <1>1, <1>4, PushRecords DEF PushIf
  <2>2. /\ h.seq = g.seq + 1 /\ h.source = g.source
        /\ \A k \in LogIds \ {l, Global} : Keeps(g, h, k)
    BY <2>1 DEF Records
  <2>3. f.seq \in Nat /\ g.seq \in Nat
    BY <1>1 DEF Feeds
  <2>4. f.seq <= h.seq
    BY <1>1, <2>2, <2>3
  <2> QED
    BY <1>1, <1>2, <2>2, <2>4 DEF Reaches, Keeps
<1> QED
  BY <1>3, <1>4

LEMMA ShortensQuiet ==
  ASSUME Types, NEW f \in Feeds, NEW g, Shortens(f, g)
  PROVE  Quiet(f, g)
<1>1. Snapshot.says \notin Facts
  BY SnapshotTyped, FactsNamed
<1>2. f.seq <= g.seq
  BY DEF Shortens, Feeds
<1> QED
  BY <1>1, <1>2 DEF Quiet, Shortens

LEMMA RecordsQuiet ==
  ASSUME NEW f \in Feeds, NEW l \in LogIds, NEW says, says \notin Facts,
         NEW g, Records(f, g, l, says)
  PROVE  Quiet(f, g) /\ g.source = f.source
<1>1. f.seq <= g.seq
  BY DEF Records, Feeds
<1>2. ASSUME NEW k \in LogIds
      PROVE  /\ g.lastFact[k] = f.lastFact[k]
             /\ \A e \in Of(g, k) : e.says \in Facts => e \in Of(f, k)
  <2>1. CASE Gets(f, g, k, says)
    BY <2>1 DEF Gets
  <2>2. CASE Keeps(f, g, k)
    BY <2>2 DEF Keeps
  <2> QED
    BY <2>1, <2>2 DEF Records
<1> QED
  BY <1>1, <1>2 DEF Quiet, Records

\* The events that stand at the end of what the actions of a tunnel record
LEMMA LastIsNewest ==
  ASSUME NEW f, FactsInv(f), page.kind = "tunnel", NEW l \in LogIds,
         NEW type, Said(type) \in TunnelFacts, NEW g, g = Push(f, l, type)
  PROVE  /\ g.seq = f.seq + 1 /\ g.lastFact[l] = g.seq /\ Newest(g, l, Shown(Said(type)))
         /\ g.source = f.source
         /\ \A k \in LogIds \ {l, Global} : Keeps(f, g, k)
<1>1. f \in Feeds /\ Facts = TunnelFacts
  BY DEF FactsInv, Facts, FactsFor
<1>2. Records(f, g, l, Said(type))
  BY <1>1, PushRecords
<1>3. /\ g.seq = f.seq + 1 /\ g.source = f.source /\ Gets(f, g, l, Said(type))
      /\ \A k \in LogIds \ {l, Global} : Keeps(f, g, k)
  BY <1>2 DEF Records
<1>4. g.lastFact[l] = g.seq
  BY <1>1, <1>3 DEF Gets
<1>5. ASSUME NEW e \in Of(g, l), e.says \in TunnelFacts, e.seq = g.lastFact[l]
      PROVE  e.says = Said(type)
  <2>1. CASE e \in Of(f, l)
    <3>1. e.seq <= f.lastFact[l] /\ f.lastFact[l] <= f.seq
      BY <1>1, <1>5, <2>1 DEF FactsInv
    <3>2. e.seq \in Nat /\ f.lastFact[l] \in Nat /\ f.seq \in Nat
      BY <1>1, <2>1, EntriesNumbered DEF Feeds
    <3> QED
      BY <1>3, <1>4, <1>5, <3>1, <3>2
  <2> QED
    BY <1>3, <1>5, <2>1 DEF Gets
<1> QED
  BY <1>3, <1>4, <1>5 DEF Newest

\* An event is recorded that tells how the last tunnel stands.
LEMMA TunnelTold ==
  ASSUME Types, FactsInv(feed), PageTypes, TunnelPageInv, page.kind = "tunnel", UNCHANGED page,
         life' \in LogIds \ {Global}, life <= life', current' \in {current, life'},
         current \in 0..life, \A l \in 1..life : l # life' => Standing(l) = "destroyed",
         NEW f, Reaches(feed, f, life'),
         NEW type, Said(type) \in TunnelFacts, feed' = Push(f, life', type),
         Shown(Said(type)) = IF status' # "none" THEN status' ELSE "destroyed",
         life' = life \/ life' = life + 1
  PROVE  TunnelPageInv'
<1> DEFINE n == life'
<1>1. /\ FactsInv(f) /\ f.source = feed.source /\ feed.seq <= f.seq
      /\ \A k \in LogIds \ {n, Global} : Keeps(feed, f, k)
  BY DEF Reaches
<1>2. /\ feed'.seq = f.seq + 1 /\ feed'.lastFact[n] = feed'.seq
      /\ Newest(feed', n, Shown(Said(type)))
      /\ feed'.source = f.source
      /\ \A k \in LogIds \ {n, Global} : Keeps(f, feed', k)
  BY <1>1, LastIsNewest
<1>3. /\ n \in Nat \ {0} /\ life \in Nat /\ current \in Nat /\ Global = 0 /\ Closed \notin 0..n
      /\ n = life \/ n = life + 1
      /\ \A l \in 1..n : l \in LogIds
      /\ \A l \in 1..n : l # n => l \in 1..life /\ l \in LogIds \ {n, Global}
  BY BoundsTyped DEF Types, Closed
<1>4. /\ feed.seq \in Nat /\ f.seq \in Nat /\ page.latest \in Nat
      /\ \A l \in LogIds : feed.lastFact[l] \in Nat /\ feed.lastFact[l] <= feed.seq
  BY <1>1 DEF FactsInv, Feeds, PageTypes, Pages
<1>5. \A l \in 1..n : l # n => Of(feed', l) = Of(feed, l) /\ feed'.lastFact[l] = feed.lastFact[l]
  BY <1>1, <1>2, <1>3 DEF Keeps
<1>6. /\ page.latest <= feed.seq
      /\ feed.source = Closed \/ feed.source \in 1..life
      /\ feed.source # Closed /\ current # Global => feed.source <= current
      /\ \A l \in 1..life : Newest(feed, l, Standing(l))
      /\ \A l, m \in 1..life : l < m => feed.lastFact[l] < feed.lastFact[m]
      /\ \A l \in 1..life : l = feed.source \/ l = current =>
           /\ page.latest <= feed.lastFact[l]
           /\ page.latest = feed.lastFact[l] => page.view = Standing(l)
  BY DEF TunnelPageInv
<1>7. \A l \in 1..n : Standing(l)' = IF l = n THEN Shown(Said(type)) ELSE "destroyed"
  BY DEF Standing
<1>8. /\ page.latest < feed'.seq /\ page.latest <= feed'.seq
      /\ \A l \in LogIds : feed.lastFact[l] < feed'.seq
  BY <1>1, <1>2, <1>4, <1>6
<1>9. feed'.source = feed.source
  BY <1>1, <1>2
<1> HIDE DEF n
<1>10. ASSUME NEW l \in 1..n
       PROVE  Newest(feed', l, Standing(l)')
  <2>1. CASE l = n
    BY <1>2, <1>7, <2>1
  <2>2. CASE l # n
    <3>1. Newest(feed, l, "destroyed")
      BY <1>3, <1>6, <2>2 DEF n
    <3> QED
      BY <1>5, <1>7, <2>2, <3>1 DEF Newest
  <2> QED
    BY <2>1, <2>2
<1>11. ASSUME NEW l \in 1..n, NEW m \in 1..n, l < m
       PROVE  feed'.lastFact[l] < feed'.lastFact[m]
  <2>1. l # n /\ l \in 1..life
    BY <1>3, <1>11
  <2>2. CASE m = n
    BY <1>2, <1>3, <1>5, <1>8, <2>1, <2>2
  <2>3. CASE m # n
    <3>1. m \in 1..life
      BY <1>3, <2>3
    <3> QED
      BY <1>5, <1>6, <1>11, <2>1, <2>3, <3>1
  <2> QED
    BY <2>2, <2>3
<1>12. ASSUME NEW l \in 1..n, l = feed'.source \/ l = current'
       PROVE  /\ page.latest <= feed'.lastFact[l]
              /\ page.latest = feed'.lastFact[l] => page.view = Standing(l)'
  <2>1. CASE l = n
    <3>1. feed'.lastFact[l] = feed'.seq /\ page.latest < feed'.seq /\ feed'.seq \in Nat
      BY <1>2, <1>4, <1>8, <2>1
    <3> QED
      BY <1>4, <3>1
  <2>2. CASE l # n
    <3>1. l = feed.source \/ l = current
      BY <1>9, <1>12, <2>2 DEF n
    <3>2. l \in 1..life /\ Standing(l) = "destroyed" /\ Standing(l)' = "destroyed"
      BY <1>3, <1>7, <2>2 DEF n
    <3> QED
      BY <1>5, <1>6, <2>2, <3>1, <3>2
  <2> QED
    BY <2>1, <2>2
<1>13. /\ feed'.source = Closed \/ feed'.source \in 1..n
       /\ feed'.source # Closed /\ current' # Global => feed'.source <= current'
  BY <1>3, <1>6, <1>9 DEF n
<1> QED
  BY <1>8, <1>10, <1>11, <1>12, <1>13 DEF TunnelPageInv, n, Newest, Of

\* Nothing is recorded of the tunnels; the stream may be opened or cut.
LEMMA TunnelQuiet ==
  ASSUME Types, FactsInv(feed), PageTypes, TunnelPageInv, page.kind = "tunnel",
         UNCHANGED <<page, status, life>>, feed' \in Feeds, Quiet(feed, feed'),
         current' \in {current, Global},
         feed'.source \in {feed.source, Closed} \/ (feed'.source = current /\ current' = current),
         current # Global \/ feed'.source \in {feed.source, Closed}
  PROVE  TunnelPageInv'
<1>1. /\ life \in Nat /\ current \in 0..life /\ Global = 0
      /\ \A l \in 1..life : l \in LogIds
  BY BoundsTyped DEF Types
<1>2. /\ feed.seq \in Nat /\ feed'.seq \in Nat /\ page.latest \in Nat /\ feed.seq <= feed'.seq
      /\ \A l \in LogIds : feed.lastFact[l] \in Nat
  BY DEF FactsInv, Feeds, PageTypes, Pages, Quiet
<1>3. /\ page.latest <= feed.seq
      /\ feed.source = Closed \/ feed.source \in 1..life
      /\ feed.source # Closed /\ current # Global => feed.source <= current
      /\ \A l \in 1..life : Newest(feed, l, Standing(l))
      /\ \A l, m \in 1..life : l < m => feed.lastFact[l] < feed.lastFact[m]
      /\ \A l \in 1..life : l = feed.source \/ l = current =>
           /\ page.latest <= feed.lastFact[l]
           /\ page.latest = feed.lastFact[l] => page.view = Standing(l)
  BY DEF TunnelPageInv
<1>4. \A l \in 1..life : /\ feed'.lastFact[l] = feed.lastFact[l]
                         /\ \A e \in Of(feed', l) : e.says \in TunnelFacts => e \in Of(feed, l)
  BY <1>1 DEF Quiet, Facts, FactsFor
<1>5. page.latest <= feed'.seq
  BY <1>2, <1>3
<1>6. \A l \in 1..life : Newest(feed', l, Standing(l))
  BY <1>3, <1>4 DEF Newest
<1>7. \A l \in 1..life : l = feed'.source \/ l = current' => l = feed.source \/ l = current
  BY <1>1, BoundsTyped DEF Closed
<1>8. /\ feed'.source = Closed \/ feed'.source \in 1..life
      /\ feed'.source # Closed /\ current' # Global => feed'.source <= current'
  BY <1>1, <1>3, BoundsTyped
<1>9. \A l : Standing(l)' = Standing(l)
  BY DEF Standing
<1> QED
  BY <1>3, <1>4, <1>5, <1>6, <1>7, <1>8, <1>9 DEF TunnelPageInv, Newest, Of

LEMMA TunnelPageKept == Spec => []TunnelPageInv
<1>1. Init => TunnelPageInv
  <2> SUFFICES ASSUME Init PROVE TunnelPageInv
    OBVIOUS
  <2>1. feed.source = Closed /\ feed.seq = 0 /\ page.latest = 0 /\ life = 0
    <3>1. PICK k \in PageKinds :
              page = [kind |-> k, view |-> "unknown", latest |-> 0, typed |-> FALSE]
      BY DEF Init
    <3> QED
      BY <3>1 DEF Init
  <2>2. 1..life = {}
    BY <2>1
  <2> QED
    BY <2>1, <2>2 DEF TunnelPageInv
<1>2. Types /\ PageTypes /\ FactsInv(feed) /\ TunnelPageInv /\ [Next]_vars => TunnelPageInv'
  <2> SUFFICES ASSUME Types, PageTypes, FactsInv(feed), TunnelPageInv, [Next]_vars,
                      page.kind = "tunnel"
               PROVE  TunnelPageInv'
    BY PageStays DEF TunnelPageInv
  <2>1. /\ feed \in Feeds /\ life \in LogIds /\ current \in LogIds /\ current \in 0..life
        /\ Global \in LogIds /\ life \in Nat /\ Facts = TunnelFacts
        /\ status \in Statuses /\ (status # "none" => life \in LogIds \ {Global})
        /\ \A l \in 1..life : l # life + 1
    BY BoundsTyped DEF Types, Facts, FactsFor
  <2>2. \A l \in 1..life : l # life => Standing(l) = "destroyed"
    BY DEF Standing
  <2>3. CASE CreateTunnel
    <3> DEFINE f == [feed EXCEPT !.forwards = @ \cup {life + 1}]
    <3>1. /\ status = "none" /\ status' = "disconnected" /\ life' = life + 1 /\ current' = life + 1
          /\ feed' = Push(f, life + 1, "tunnel.created") /\ UNCHANGED page
      BY <2>3 DEF CreateTunnel, Logged
    <3>2. life + 1 \in LogIds \ {Global} /\ life <= life + 1
      BY <2>1, <2>3, BoundsTyped DEF CreateTunnel
    <3>3. Reaches(feed, f, life + 1)
      <4>1. FactsInv(f) /\ f.seq = feed.seq /\ f.source = feed.source /\ f.lastFact = feed.lastFact
            /\ \A k : Of(f, k) = Of(feed, k)
        BY <3>2, ForwarderKeepsFacts
      <4>2. feed.seq <= feed.seq
        BY <2>1 DEF Feeds
      <4> HIDE DEF f
      <4> QED
        BY <4>1, <4>2 DEF Reaches, Keeps
    <3>4. Said("tunnel.created") = "created" /\ Shown("created") = "disconnected"
          /\ "created" \in TunnelFacts
      BY DEF Said, Shown, TunnelFacts
    <3>5. \A l \in 1..life : Standing(l) = "destroyed"
      BY <3>1 DEF Standing
    <3> HIDE DEF f
    <3> QED
      BY <2>1, <3>1, <3>2, <3>3, <3>4, <3>5, TunnelTold
  <2>4. ASSUME NEW resumes \in BOOLEAN, Hello(resumes)
        PROVE  TunnelPageInv'
    <3> DEFINE type == IF resumes THEN "control.resumed" ELSE "control.connected"
    <3>1. /\ status # "none" /\ status' = "connected" /\ feed' = Push(feed, life, type)
          /\ UNCHANGED <<life, current, page>>
      BY <2>4 DEF Hello, Logged
    <3>2. Said(type) = "connected" /\ Shown("connected") = "connected"
          /\ "connected" \in TunnelFacts
      BY DEF Said, Shown, TunnelFacts
    <3>3. Reaches(feed, feed, life)
      BY <2>1, ReachesItself
    <3> HIDE DEF type
    <3> QED
      BY <2>1, <2>2, <3>1, <3>2, <3>3, TunnelTold
  <2>5. ASSUME NEW silent \in BOOLEAN, ControlCloses(silent)
        PROVE  TunnelPageInv'
    <3> DEFINE f == PushIf(silent, feed, life, "control.heartbeat_timeout")
    <3>1. /\ status # "none" /\ status' = "disconnected"
          /\ feed' = Push(f, life, "control.disconnected")
          /\ UNCHANGED <<life, current, page>>
      BY <2>5 DEF ControlCloses, Logged
    <3>2. Said("control.disconnected") = "disconnected" /\ Shown("disconnected") = "disconnected"
          /\ "disconnected" \in TunnelFacts
      BY DEF Said, Shown, TunnelFacts
    <3>3. Reaches(feed, f, life)
      BY <2>1, ReachesItself, PushIfReaches
    <3> HIDE DEF f
    <3> QED
      BY <2>1, <2>2, <3>1, <3>2, <3>3, TunnelTold
  <2>6. ASSUME NEW expired \in BOOLEAN, NEW attached \in BOOLEAN, Destroy(expired, attached)
        PROVE  TunnelPageInv'
    <3> DEFINE over == PushIf(expired, feed, life, "tunnel.window_expired")
               f == PushIf(attached, over, life, "control.disconnected")
    <3>1. /\ status # "none" /\ status' = "none"
          /\ feed' = Push(f, life, "tunnel.destroyed")
          /\ UNCHANGED <<life, current, page>>
      BY <2>6 DEF Destroy, Logged
    <3>2. Said("tunnel.destroyed") = "destroyed" /\ Shown("destroyed") = "destroyed"
          /\ "destroyed" \in TunnelFacts
      BY DEF Said, Shown, TunnelFacts
    <3>3. Reaches(feed, over, life)
      BY <2>1, ReachesItself, PushIfReaches
    <3> HIDE DEF over
    <3>4. Reaches(feed, f, life)
      BY <2>1, <3>3, PushIfReaches
    <3> HIDE DEF f
    <3> QED
      BY <2>1, <2>2, <3>1, <3>2, <3>4, TunnelTold
  <2>7. CASE RequestLogged
    <3>1. feed' = Push(feed, life, "request.received") /\ UNCHANGED <<page, status, life, current>>
      BY <2>7 DEF RequestLogged, Logged
    <3>2. Said("request.received") \notin Facts
      <4>1. Said("request.received") = "nothing"
        BY DEF Said
      <4> QED
        BY <4>1, FactsNamed
    <3>3. Records(feed, feed', life, Said("request.received"))
      BY <2>1, <3>1, PushRecords
    <3>4. Quiet(feed, feed') /\ feed'.source = feed.source /\ feed' \in Feeds
      BY <2>1, <3>2, <3>3, RecordsQuiet DEF Records
    <3> QED
      BY <3>1, <3>4, TunnelQuiet
  <2>8. ASSUME NEW l \in LogIds, CleanupLog(l)
        PROVE  TunnelPageInv'
    <3>1. current' = Global /\ UNCHANGED <<page, status, life>>
          /\ feed' = IF current = Global THEN feed ELSE DestroyLog(feed, current)
      BY <2>8 DEF CleanupLog
    <3>2. Quiet(feed, feed') /\ feed' \in Feeds /\ feed'.source = feed.source
      <4>1. CASE current = Global
        <5>1. feed' = feed /\ feed.seq <= feed.seq
          BY <2>1, <3>1, <4>1 DEF Feeds
        <5>2. Quiet(feed, feed)
          BY <5>1 DEF Quiet
        <5> QED
          BY <2>1, <5>1, <5>2
      <4>2. CASE current # Global
        <5>1. feed' = DestroyLog(feed, current)
          BY <3>1, <4>2
        <5>2. Shortens(feed, feed') /\ feed'.source = feed.source
          <6>1. Shortens(feed, feed')
            BY <2>1, <5>1, DestroyShortens
          <6>2. feed'.source = feed.source
            BY <2>1, <5>1 DEF DestroyLog, Feeds
          <6> QED
            BY <6>1, <6>2
        <5> QED
          BY <2>1, <5>2, ShortensQuiet DEF Shortens
      <4> QED
        BY <4>1, <4>2
    <3> QED
      BY <3>1, <3>2, TunnelQuiet
  <2>9. ASSUME NEW l \in LogIds, ClearEvents(l)
        PROVE  TunnelPageInv'
    <3>1. feed' = Clear(feed, l) /\ UNCHANGED <<page, status, life, current>>
      BY <2>9 DEF ClearEvents, Logged
    <3>2. Records(feed, feed', l, "nothing")
      BY <2>1, <3>1, ClearRecords
    <3>3. Quiet(feed, feed') /\ feed'.source = feed.source /\ feed' \in Feeds
      BY <2>1, <3>2, RecordsQuiet, FactsNamed DEF Records
    <3> QED
      BY <3>1, <3>3, TunnelQuiet
  <2>10. CASE Subscribe
    <3>1. /\ feed'.source = current /\ current # Global
          /\ UNCHANGED <<page, status, life, current>>
      BY <2>10, Subscribed DEF Subscribe, Route
    <3>2. Quiet(feed, feed') /\ feed' \in Feeds
      BY <2>1, <2>10, SubscribeShortens, ShortensQuiet DEF Shortens
    <3> QED
      BY <3>1, <3>2, TunnelQuiet
  <2>11. CASE StreamCloses
    <3>1. feed'.source = Closed /\ UNCHANGED <<page, status, life, current>>
      BY <2>11, CloseShortens DEF StreamCloses
    <3>2. Quiet(feed, feed') /\ feed' \in Feeds
      BY <2>1, <2>11, CloseShortens, ShortensQuiet DEF Shortens
    <3> QED
      BY <3>1, <3>2, TunnelQuiet
  <2>12. CASE Receive
    <3> DEFINE e == Head(feed.queue)
               log == feed.source
    <3>1. /\ Shortens(feed, feed') /\ log \in LogIds /\ e \in Of(feed, log)
          /\ feed'.source = feed.source
      BY <2>12, ReceiveShortens, Received
    <3>2. Quiet(feed, feed') /\ feed' \in Feeds
      BY <2>1, <3>1, ShortensQuiet DEF Shortens
    <3>3. page' = TunnelPageHandles(e) /\ UNCHANGED <<status, life, current>>
      BY <2>12 DEF Receive, Handles
    <3>4. /\ page.latest <= feed.seq
          /\ log = Closed \/ log \in 1..life
          /\ log # Closed /\ current # Global => log <= current
          /\ \A l \in 1..life : Newest(feed, l, Standing(l))
          /\ \A l, m \in 1..life : l < m => feed.lastFact[l] < feed.lastFact[m]
          /\ \A l \in 1..life : l = log \/ l = current =>
               /\ page.latest <= feed.lastFact[l]
               /\ page.latest = feed.lastFact[l] => page.view = Standing(l)
      BY DEF TunnelPageInv
    <3>5. log \in 1..life /\ Closed \notin LogIds
      BY <3>1, <3>4, BoundsTyped
    <3> HIDE DEF e, log
    <3>6. /\ e.says \in TunnelFacts =>
               /\ e.seq <= feed.lastFact[log]
               /\ e.seq = feed.lastFact[log] => Shown(e.says) = Standing(log)
          /\ e.seq \in Nat
      BY <2>1, <3>1, <3>4, <3>5, EntriesNumbered DEF FactsInv, Newest
    <3>7. /\ page'.latest <= feed.seq
          /\ \A l \in 1..life : l = log \/ l = current =>
               /\ page'.latest <= feed.lastFact[l]
               /\ page'.latest = feed.lastFact[l] => page'.view = Standing(l)
      <4>1. CASE e.says \notin TunnelFacts
        <5>1. page' = page
          BY <3>3, <4>1 DEF TunnelPageHandles, TunnelFacts
        <5> QED
          BY <3>4, <5>1
      <4>2. CASE e.says \in TunnelFacts
        <5>1. page'.view = Shown(e.says) /\ page'.latest = e.seq
          BY <3>3, <4>2 DEF TunnelPageHandles, Shows, Shown, PageTypes, Pages
        <5>2. e.seq <= feed.seq
          <6>1. feed.lastFact[log] <= feed.seq /\ feed.lastFact[log] \in Nat /\ feed.seq \in Nat
            BY <2>1, <3>1 DEF FactsInv, Feeds
          <6> QED
            BY <3>6, <4>2, <6>1
        <5>3. ASSUME NEW l \in 1..life, l = log \/ l = current
              PROVE  /\ e.seq <= feed.lastFact[l]
                     /\ e.seq = feed.lastFact[l] => Shown(e.says) = Standing(l)
          <6>1. CASE l = log
            BY <3>6, <4>2, <6>1
          <6>2. CASE l # log
            <7>1. l = current /\ current # Global /\ log # Closed
              BY <2>1, <3>1, <3>5, <5>3, <6>2, BoundsTyped
            <7>2. log < l
              BY <2>1, <3>4, <3>5, <6>2, <7>1
            <7>3. feed.lastFact[log] < feed.lastFact[l]
              BY <3>4, <3>5, <7>2
            <7>4. feed.lastFact[log] \in Nat /\ feed.lastFact[l] \in Nat
              BY <2>1, <3>1, <7>1 DEF Feeds
            <7> QED
              BY <3>6, <4>2, <7>3, <7>4
          <6> QED
            BY <6>1, <6>2
        <5> QED
          BY <5>1, <5>2, <5>3
      <4> QED
        BY <4>1, <4>2
    <3>8. /\ feed'.source = log /\ feed.seq = feed'.seq
          /\ \A l \in LogIds : /\ feed'.lastFact[l] = feed.lastFact[l]
                               /\ \A x \in Of(feed', l) :
                                    x.says \in TunnelFacts => x \in Of(feed, l)
      BY <2>1, <3>1, <3>2 DEF Quiet, Shortens, log
    <3>9. \A l \in 1..life : l \in LogIds
      BY <2>1, BoundsTyped
    <3>10. \A l \in 1..life : Newest(feed', l, Standing(l))
      BY <3>4, <3>8, <3>9 DEF Newest
    <3>11. \A l : Standing(l)' = Standing(l)
      BY <3>3 DEF Standing
    <3> QED
      BY <3>3, <3>4, <3>7, <3>8, <3>9, <3>10, <3>11 DEF TunnelPageInv, Newest, Of
  <2>13. CASE UNCHANGED vars
    BY <2>13 DEF vars, TunnelPageInv, Newest, Of, Standing
  <2> QED
    BY <2>3, <2>4, <2>5, <2>6, <2>7, <2>8, <2>9, <2>10, <2>11, <2>12, <2>13 DEF Next, TunnelNext
<1> QED
  BY <1>1, <1>2, StreamsKept, FactsKept, PTL DEF Spec

LEMMA TunnelPageCorrect == Spec => []TunnelPageCurrent
<1>1. Types /\ PageTypes /\ FactsInv(feed) /\ TunnelPageInv => TunnelPageCurrent
  <2> SUFFICES ASSUME Types, PageTypes, FactsInv(feed), TunnelPageInv,
                      page.kind = "tunnel", Drained, UpToDate(feed.source)
               PROVE  page.view = Standing(feed.source)
    BY DEF TunnelPageCurrent, Standing
  <2>1. /\ feed.source \in 1..life /\ feed.lastFact[feed.source] <= page.latest
        /\ page.latest <= feed.lastFact[feed.source]
        /\ page.latest = feed.lastFact[feed.source] => page.view = Standing(feed.source)
    BY DEF TunnelPageInv, Drained, UpToDate
  <2>2. feed.source \in LogIds
    BY <2>1, BoundsTyped DEF Types
  <2>3. feed.lastFact[feed.source] \in Nat /\ page.latest \in Nat
    BY <2>2 DEF Types, Feeds, PageTypes, Pages
  <2> QED
    BY <2>1, <2>3
<1> QED
  BY <1>1, StreamsKept, FactsKept, TunnelPageKept, PTL

-----------------------------------------------------------------------------
(* The overview.                                                           *)

\* An entry of the stream that may change what a page shows of the tunnel
Effective(e) == e.says \in TunnelFacts \/ (e.says = "state" /\ e.status # "none")

Tells(e) == IF e.says = "state" THEN e.status ELSE Shown(e.says)

\* One that the overview follows even if it did not know the tunnel
Informs(e) == e.says = "created" \/ (e.says = "state" /\ e.status # "none")

\* What the sequence comes to, if it tells anything
LastTells(q, view) ==
  \A i \in 1..Len(q) :
    Effective(q[i]) /\ (\A j \in (i + 1)..Len(q) : ~Effective(q[j])) => Tells(q[i]) = view

\* An overview that shows view will have learned of a tunnel it does not know yet.
Waits(f, view) ==
  f.source = Global /\ view = "unknown" => \E e \in Range(f.queue) : Informs(e)

\* The ring, the stream, and the overview once it has read it, come to the state now.
Follows(f, now, view) ==
  /\ LastTells(f.rings[Global], now)
  /\ f.source = Global =>
       /\ LastTells(f.queue, now)
       /\ (\A e \in Range(f.queue) : ~Effective(e)) => view = now
  /\ Waits(f, view)

\* Neither the page nor what is kept of the tunnel is later than its end.
Past(f, last, shown) ==
  /\ shown.latest <= last
  /\ shown.latest = last => shown.view \in {"unknown", "expired", "destroyed"}
  /\ \A e \in Of(f, Global) : Effective(e) =>
       e.seq <= last /\ (e.seq = last => e.says \in {"expired", "destroyed"})

NoneLater(f) == \A e \in Of(f, Global) : e.seq <= f.seq

OverviewInv ==
  page.kind = "overview" =>
    /\ feed.source \in {Closed, Global} /\ ~feed.ended
    /\ NoneLater(feed) /\ page.latest <= feed.seq
    /\ status # "none" /\ life \in feed.forwards => Follows(feed, status, page.view)
    /\ status = "none" /\ life > 0 => Past(feed, feed.lastFact[life], page)

LEMMA LastOfAppend ==
  ASSUME NEW S, NEW q \in Seq(S), NEW e \in S, NEW view,
         IF Effective(e) THEN Tells(e) = view ELSE LastTells(q, view)
  PROVE  LastTells(Append(q, e), view)
<1> DEFINE n == Len(q)
           s == Append(q, e)
<1>1. /\ n \in Nat /\ Len(s) = n + 1 /\ s[n + 1] = e
      /\ \A i \in 1..n : s[i] = q[i]
  BY AppendProperties, LenProperties
<1> HIDE DEF s
<1>2. SUFFICES ASSUME NEW i \in 1..Len(s), Effective(s[i]),
                      \A j \in (i + 1)..Len(s) : ~Effective(s[j])
               PROVE  Tells(s[i]) = view
  BY DEF LastTells, s
<1>3. CASE i = n + 1
  BY <1>1, <1>2, <1>3
<1>4. CASE i # n + 1
  <2>1. i \in 1..n /\ n + 1 \in (i + 1)..Len(s)
    BY <1>1, <1>2, <1>4
  <2>2. ~Effective(e) /\ LastTells(q, view)
    BY <1>1, <1>2, <2>1
  <2>3. \A j \in (i + 1)..n : ~Effective(q[j])
    <3>1. \A j \in (i + 1)..n : j \in (i + 1)..Len(s) /\ j \in 1..n
      BY <1>1, <2>1
    <3> QED
      BY <1>1, <1>2, <3>1
  <2> QED
    BY <1>1, <1>2, <2>1, <2>2, <2>3 DEF LastTells
<1> QED
  BY <1>3, <1>4

LEMMA LastOfTail ==
  ASSUME NEW S, NEW q \in Seq(S), q # <<>>, NEW view, LastTells(q, view)
  PROVE  LastTells(Tail(q), view)
<1> DEFINE n == Len(q)
           s == Tail(q)
<1>1. /\ n \in Nat /\ Len(s) = n - 1
      /\ \A i \in 1..Len(s) : s[i] = q[i + 1]
  BY HeadTailProperties, LenProperties
<1> HIDE DEF s
<1>2. SUFFICES ASSUME NEW i \in 1..Len(s), Effective(s[i]),
                      \A j \in (i + 1)..Len(s) : ~Effective(s[j])
               PROVE  Tells(s[i]) = view
  BY DEF LastTells, s
<1>3. i + 1 \in 1..n /\ s[i] = q[i + 1]
  BY <1>1, <1>2
<1>4. ASSUME NEW j \in ((i + 1) + 1)..n
      PROVE  ~Effective(q[j])
  <2>1. j - 1 \in (i + 1)..Len(s) /\ j - 1 \in 1..Len(s) /\ (j - 1) + 1 = j
    BY <1>1, <1>2
  <2> QED
    BY <1>1, <1>2, <2>1
<1> QED
  BY <1>2, <1>3, <1>4 DEF LastTells

LEMMA LastOfNothing ==
  ASSUME NEW view
  PROVE  LastTells(<<>>, view)
<1>1. Len(<<>>) = 0
  OBVIOUS
<1>2. 1..0 = {}
  OBVIOUS
<1> QED
  BY <1>1, <1>2 DEF LastTells

LEMMA HeadAndTail ==
  ASSUME NEW q \in Seq(Entries), q # <<>>
  PROVE  Range(q) = {Head(q)} \cup Range(Tail(q))
<1>1. Range(Tail(q)) \subseteq Range(q) /\ Head(q) \in Range(q)
  BY TailKept
<1>2. ASSUME NEW e \in Range(q), e # Head(q)
      PROVE  e \in Range(Tail(q))
  <2>1. /\ Len(q) \in Nat /\ DOMAIN q = 1..Len(q) /\ Head(q) = q[1]
        /\ Tail(q) \in Seq(Entries) /\ Len(Tail(q)) = Len(q) - 1
        /\ \A i \in 1..Len(Tail(q)) : Tail(q)[i] = q[i + 1]
    BY HeadTailProperties, LenProperties
  <2>2. DOMAIN Tail(q) = 1..Len(Tail(q))
    BY <2>1, LenProperties
  <2>3. PICK i \in 1..Len(q) : e = q[i]
    BY <1>2, <2>1 DEF Range
  <2>4. i - 1 \in 1..Len(Tail(q)) /\ (i - 1) + 1 = i
    BY <1>2, <2>1, <2>3
  <2>5. e = Tail(q)[i - 1] /\ i - 1 \in DOMAIN Tail(q)
    BY <2>1, <2>2, <2>3, <2>4
  <2> QED
    BY <2>5 DEF Range
<1> QED
  BY <1>1, <1>2

\* The global log and the overview's stream get an event.
Carries(f, g, says) ==
  \E e \in Events :
    /\ e.says = says /\ e.seq = g.seq
    /\ g.rings[Global] \in
         {<<>>, Append(f.rings[Global], e), Tail(Append(f.rings[Global], e))}
    /\ g.queue = IF f.source = Global THEN Append(f.queue, e) ELSE f.queue

LEMMA WriteCarries ==
  ASSUME NEW f \in Feeds, ~f.ended, NEW says \in Sayings, NEW recorded \in BOOLEAN,
         NEW g, g = Write(f, Global, says, recorded)
  PROVE  Carries(f, g, says)
<1> SUFFICES ASSUME NEW e, e = Entry(f, Global, says) PROVE Carries(f, g, says)
  OBVIOUS
<1>1. Global \in LogIds
  BY BoundsTyped
<1>2. /\ e \in Events /\ g.seq = f.seq
      /\ g.rings[Global] = IF recorded THEN Evict(Append(f.rings[Global], e), Global) ELSE <<>>
      /\ g.queue = IF f.source = Global /\ ~f.ended THEN Append(f.queue, e) ELSE f.queue
  BY <1>1, Written
<1>3. e.says = says /\ e.seq = g.seq
  BY <1>2 DEF Entry
<1>4. Evict(Append(f.rings[Global], e), Global) \in
        {Append(f.rings[Global], e), Tail(Append(f.rings[Global], e))}
  BY DEF Evict
<1> QED
  BY <1>2, <1>3, <1>4 DEF Carries

\* It does if the event is of the global log itself or is forwarded; else nothing changes for it.
LEMMA ForwardCarries ==
  ASSUME NEW f \in Feeds, ~f.ended, f.source \in {Closed, Global},
         NEW l \in LogIds, NEW says \in Sayings, NEW recorded \in BOOLEAN,
         NEW g, g = Forward(Write(Numbered(f), l, says, recorded), l, says)
  PROVE  IF l = Global \/ l \in f.forwards
           THEN Carries(f, g, says)
           ELSE g.rings[Global] = f.rings[Global] /\ g.queue = f.queue
<1> SUFFICES ASSUME NEW n, n = Numbered(f), NEW w, w = Write(n, l, says, recorded)
             PROVE  IF l = Global \/ l \in f.forwards
                      THEN Carries(f, g, says)
                      ELSE g.rings[Global] = f.rings[Global] /\ g.queue = f.queue
  OBVIOUS
<1>1. /\ n \in Feeds /\ n.source = f.source /\ ~n.ended /\ n.forwards = f.forwards
      /\ n.queue = f.queue /\ n.rings = f.rings
  BY NumberedFeed
<1>2. Global \in LogIds /\ Closed \notin LogIds /\ Global \notin f.forwards
  BY BoundsTyped DEF Feeds
<1>3. g = IF l \in w.forwards THEN Write(w, Global, says, TRUE) ELSE w
  BY DEF Forward
<1>4. CASE l = Global
  <2>1. Carries(n, w, says)
    BY <1>1, <1>4, WriteCarries
  <2>2. w.forwards = f.forwards
    BY <1>1, <1>4, <1>2, WriteGets
  <2>3. g = w
    BY <1>2, <1>3, <1>4, <2>2
  <2> QED
    BY <1>1, <1>4, <2>1, <2>3 DEF Carries
<1>5. CASE l # Global
  <2> SUFFICES ASSUME NEW e, e = Entry(n, l, says)
               PROVE  IF l = Global \/ l \in f.forwards
                        THEN Carries(f, g, says)
                        ELSE g.rings[Global] = f.rings[Global] /\ g.queue = f.queue
    OBVIOUS
  <2>1. /\ w \in Feeds /\ w.forwards = n.forwards /\ w.source = n.source /\ w.ended = n.ended
        /\ \A k \in LogIds \ {l} : w.rings[k] = n.rings[k]
        /\ w.queue = IF n.source = l /\ ~n.ended THEN Append(n.queue, e) ELSE n.queue
    BY <1>1, Written
  <2>2. w.rings[Global] = f.rings[Global] /\ w.queue = f.queue
    BY <1>1, <1>2, <1>5, <2>1
  <2>3. CASE l \notin f.forwards
    BY <1>1, <1>3, <1>5, <2>1, <2>2, <2>3
  <2>4. CASE l \in f.forwards
    <3>1. g = Write(w, Global, says, TRUE)
      BY <1>1, <1>3, <2>1, <2>4
    <3>2. PICK r \in BOOLEAN : r
      OBVIOUS
    <3>3. g = Write(w, Global, says, r)
      BY <3>1, <3>2 DEF Write
    <3>4. Carries(w, g, says)
      BY <1>1, <2>1, <3>3, WriteCarries
    <3> QED
      BY <1>1, <2>1, <2>2, <2>4, <3>4 DEF Carries
  <2> QED
    BY <2>3, <2>4
<1> QED
  BY <1>4, <1>5

LEMMA PushCarries ==
  ASSUME NEW f \in Feeds, ~f.ended, f.source \in {Closed, Global}, NEW l \in LogIds, NEW type,
         NEW g, g = Push(f, l, type)
  PROVE  IF l = Global \/ l \in f.forwards
           THEN Carries(f, g, Said(type))
           ELSE g.rings[Global] = f.rings[Global] /\ g.queue = f.queue
<1>1. PICK recorded \in BOOLEAN : recorded
  OBVIOUS
<1>2. g = Forward(Write(Numbered(f), l, Said(type), recorded), l, Said(type))
  BY <1>1 DEF Push, Numbered, Write
<1>3. Said(type) \in Sayings
  BY SaidKnown
<1> QED
  BY <1>2, <1>3, ForwardCarries

LEMMA ClearCarries ==
  ASSUME NEW f \in Feeds, ~f.ended, f.source \in {Closed, Global}, NEW l \in LogIds,
         NEW g, g = Clear(f, l)
  PROVE  IF l = Global \/ l \in f.forwards
           THEN Carries(f, g, "nothing")
           ELSE g.rings[Global] = f.rings[Global] /\ g.queue = f.queue
<1>1. PICK recorded \in BOOLEAN : ~recorded
  OBVIOUS
<1>2. g = Forward(Write(Numbered(f), l, "nothing", recorded), l, "nothing")
  BY <1>1 DEF Clear, Numbered, Write
<1>3. "nothing" \in Sayings
  BY DEF Sayings
<1> QED
  BY <1>2, <1>3, ForwardCarries

LEMMA CarriesWaits ==
  ASSUME NEW f \in Feeds, NEW g, g.source = f.source, NEW says, Carries(f, g, says), NEW view
  PROVE  says = "created" \/ Waits(f, view) => Waits(g, view)
<1>1. PICK e \in Events : e.says = says /\ (f.source = Global => g.queue = Append(f.queue, e))
  BY DEF Carries
<1>2. f.queue \in Seq(Entries) /\ e \in Entries
  BY DEF Feeds, Entries
<1>3. Range(Append(f.queue, e)) = Range(f.queue) \cup {e}
  BY <1>2, RangesKnown
<1> QED
  BY <1>1, <1>3 DEF Waits, Informs

\* Whatever the overview has read of the stream, an event of the tunnel ends it with the state now,
\* and one of something else changes nothing.
LEMMA CarriesFollows ==
  ASSUME NEW f \in Feeds, NEW g, g.source = f.source, NEW says \in Sayings, Carries(f, g, says),
         NEW now, NEW view,
         says \in TunnelFacts => Shown(says) = now /\ (says = "created" \/ Waits(f, view)),
         says \notin TunnelFacts => Follows(f, now, view)
  PROVE  Follows(g, now, view)
<1>1. PICK e \in Events :
        /\ e.says = says
        /\ g.rings[Global] \in
             {<<>>, Append(f.rings[Global], e), Tail(Append(f.rings[Global], e))}
        /\ g.queue = IF f.source = Global THEN Append(f.queue, e) ELSE f.queue
  BY DEF Carries
<1>2. says # "state"
  BY DEF Sayings, ListFacts, TunnelFacts
<1>3. (Effective(e) <=> says \in TunnelFacts) /\ Tells(e) = Shown(says)
  BY <1>1, <1>2 DEF Effective, Tells
<1>4. /\ f.rings[Global] \in Seq(Events) /\ f.queue \in Seq(Entries) /\ e \in Entries
  BY BoundsTyped DEF Feeds, Entries
<1>5. LastTells(Append(f.rings[Global], e), now)
  <2>1. IF Effective(e) THEN Tells(e) = now ELSE LastTells(f.rings[Global], now)
    BY <1>3 DEF Follows
  <2> QED
    BY <1>4, <2>1, LastOfAppend
<1>6. LastTells(Tail(Append(f.rings[Global], e)), now)
  <2>1. Append(f.rings[Global], e) \in Seq(Events) /\ Append(f.rings[Global], e) # <<>>
    BY <1>4, AppendProperties
  <2> QED
    BY <1>5, <2>1, LastOfTail
<1>7. LastTells(g.rings[Global], now)
  BY <1>1, <1>5, <1>6, LastOfNothing
<1>8. ASSUME f.source = Global
      PROVE  /\ LastTells(g.queue, now)
             /\ (\A x \in Range(g.queue) : ~Effective(x)) => view = now
  <2>1. g.queue = Append(f.queue, e) /\ Range(Append(f.queue, e)) = Range(f.queue) \cup {e}
    BY <1>1, <1>4, <1>8, RangesKnown
  <2>2. IF Effective(e) THEN Tells(e) = now ELSE LastTells(f.queue, now)
    BY <1>3, <1>8 DEF Follows
  <2>3. LastTells(Append(f.queue, e), now)
    BY <1>4, <2>2, LastOfAppend
  <2>4. CASE Effective(e)
    BY <2>1, <2>3, <2>4
  <2>5. CASE ~Effective(e)
    BY <1>3, <1>8, <2>1, <2>3, <2>5 DEF Follows
  <2> QED
    BY <2>4, <2>5
<1>9. Waits(g, view)
  <2>1. says = "created" \/ Waits(f, view)
    BY DEF Follows
  <2> QED
    BY <2>1, CarriesWaits
<1> QED
  BY <1>7, <1>8, <1>9 DEF Follows

LEMMA RecordsNoneLater ==
  ASSUME NEW f, NoneLater(f), NEW l \in LogIds, NEW says, NEW g, Records(f, g, l, says)
  PROVE  /\ NoneLater(g) /\ f.seq \in Nat /\ g.seq = f.seq + 1
         /\ \A e \in Of(g, Global) :
              (e \in Of(f, Global) /\ e.seq <= f.seq) \/ (e.seq = g.seq /\ e.says = says)
<1>1. f \in Feeds /\ f.seq \in Nat /\ g.seq = f.seq + 1 /\ Global \in LogIds
  BY BoundsTyped DEF Records, Feeds
<1>2. \A e \in Of(g, Global) :
        (e \in Of(f, Global) /\ e.seq <= f.seq) \/ (e.seq = g.seq /\ e.says = says)
  <2>1. Gets(f, g, Global, says) \/ Keeps(f, g, Global)
    BY <1>1 DEF Records
  <2> QED
    BY <2>1 DEF Gets, Keeps, NoneLater
<1>3. ASSUME NEW e \in Of(g, Global)
      PROVE  e.seq <= g.seq
  <2>1. CASE e \in Of(f, Global)
    <3>1. e.seq \in Nat /\ e.seq <= f.seq
      BY <1>1, <2>1, EntriesNumbered DEF NoneLater
    <3> QED
      BY <1>1, <3>1
  <2>2. CASE e.seq = g.seq
    BY <1>1, <2>2
  <2> QED
    BY <1>2, <2>1, <2>2
<1> QED
  BY <1>1, <1>2, <1>3 DEF NoneLater

\* Events were recorded that leave the overview something to wait for, if it had.
Goes(f, g, view) ==
  /\ FactsInv(g) /\ NoneLater(g) /\ f.seq <= g.seq
  /\ g.source = f.source /\ g.ended = f.ended /\ g.forwards = f.forwards
  /\ Waits(f, view) => Waits(g, view)

LEMMA GoesNowhere ==
  ASSUME NEW f, FactsInv(f), NoneLater(f), NEW view
  PROVE  Goes(f, f, view)
BY DEF Goes, FactsInv, Feeds

LEMMA PushIfGoes ==
  ASSUME NEW f \in Feeds, ~f.ended, f.source \in {Closed, Global}, NEW l \in LogIds,
         NEW view, NEW g, Goes(f, g, view), NEW condition, NEW type,
         NEW h, h = PushIf(condition, g, l, type)
  PROVE  Goes(f, h, view)
<1>1. /\ FactsInv(g) /\ g \in Feeds /\ NoneLater(g) /\ f.seq <= g.seq
      /\ g.source = f.source /\ g.ended = f.ended /\ g.forwards = f.forwards
      /\ Waits(f, view) => Waits(g, view)
  BY DEF Goes, FactsInv
<1>2. CASE ~condition
  BY <1>2 DEF PushIf
<1>3. CASE condition
  <2>1. h = Push(g, l, type)
    BY <1>3 DEF PushIf
  <2>2. Records(g, h, l, Said(type))
    BY <1>1, <2>1, PushRecords
  <2>3. FactsInv(h) /\ NoneLater(h) /\ g.seq \in Nat /\ h.seq = g.seq + 1
    BY <1>1, <2>2, RecordsKeepsFacts, RecordsNoneLater
  <2>4. h.source = f.source /\ h.ended = f.ended /\ h.forwards = f.forwards
    BY <1>1, <2>2 DEF Records
  <2>5. f.seq <= h.seq
    <3>1. f.seq \in Nat
      BY DEF Feeds
    <3> QED
      BY <1>1, <2>3, <3>1
  <2>6. IF l = Global \/ l \in g.forwards
          THEN Carries(g, h, Said(type))
          ELSE h.rings[Global] = g.rings[Global] /\ h.queue = g.queue
    BY <1>1, <2>1, PushCarries
  <2>7. Waits(g, view) => Waits(h, view)
    <3>1. CASE Carries(g, h, Said(type))
      BY <1>1, <2>4, <3>1, CarriesWaits
    <3>2. CASE h.queue = g.queue
      BY <1>1, <2>4, <3>2 DEF Waits
    <3> QED
      BY <2>6, <3>1, <3>2
  <2> QED
    BY <1>1, <2>3, <2>4, <2>5, <2>7 DEF Goes
<1> QED
  BY <1>2, <1>3

\* An event is recorded that tells how the tunnel stands now, or that it has ended.
LEMMA OverviewTold ==
  ASSUME Types, PageTypes, page.kind = "overview", OverviewInv, UNCHANGED page,
         life' \in LogIds \ {Global}, NEW f, FactsInv(f), NoneLater(f), feed.seq <= f.seq,
         f.source = feed.source, f.ended = feed.ended,
         NEW type, Said(type) \in TunnelFacts, feed' = Push(f, life', type),
         status' = "none" => Said(type) \in {"expired", "destroyed"},
         status' # "none" => Shown(Said(type)) = status',
         status' # "none" /\ life' \in f.forwards
           => Said(type) = "created" \/ Waits(f, page.view)
  PROVE  OverviewInv'
<1> DEFINE n == life'
           says == Said(type)
<1>1. /\ feed.source \in {Closed, Global} /\ ~feed.ended /\ page.latest <= feed.seq
      /\ f \in Feeds /\ Global \in LogIds /\ says \in Sayings
      /\ feed.seq \in Nat /\ page.latest \in Nat
  BY BoundsTyped, SaidKnown DEF OverviewInv, FactsInv, Types, Feeds, PageTypes, Pages
<1>2. Records(f, feed', n, says)
  BY <1>1, PushRecords
<1>3. /\ feed'.source = f.source /\ feed'.ended = f.ended /\ feed'.forwards = f.forwards
      /\ Gets(f, feed', n, says)
  BY <1>2 DEF Records
<1>4. /\ NoneLater(feed') /\ f.seq \in Nat /\ feed'.seq = f.seq + 1
      /\ \A e \in Of(feed', Global) :
           (e \in Of(f, Global) /\ e.seq <= f.seq) \/ (e.seq = feed'.seq /\ e.says = says)
  BY <1>2, RecordsNoneLater
<1>5. page.latest < feed'.seq /\ page.latest <= feed'.seq /\ page.latest # feed'.seq
  BY <1>1, <1>4
<1>6. IF n = Global \/ n \in f.forwards
        THEN Carries(f, feed', says)
        ELSE feed'.rings[Global] = f.rings[Global] /\ feed'.queue = f.queue
  BY <1>1, PushCarries
<1>7. feed'.lastFact[n] = feed'.seq
  BY <1>3 DEF Gets, Facts, FactsFor
<1> HIDE DEF n, says
<1>8. ASSUME status' # "none", n \in feed'.forwards
      PROVE  Follows(feed', status', page.view)
  <2>1. Carries(f, feed', says)
    BY <1>3, <1>6, <1>8
  <2>2. Shown(says) = status' /\ (says = "created" \/ Waits(f, page.view)) /\ says \in TunnelFacts
    BY <1>3, <1>8 DEF n, says
  <2> QED
    BY <1>1, <1>3, <2>1, <2>2, CarriesFollows
<1>9. ASSUME status' = "none"
      PROVE  Past(feed', feed'.lastFact[n], page)
  <2>1. says \in {"expired", "destroyed"}
    BY <1>9 DEF says
  <2>2. ASSUME NEW e \in Of(feed', Global)
        PROVE  e.seq <= feed'.seq /\ (e.seq = feed'.seq => e.says \in {"expired", "destroyed"})
    <3>1. CASE e \in Of(f, Global) /\ e.seq <= f.seq
      <4>1. e.seq \in Nat
        BY <1>1, <3>1, EntriesNumbered
      <4> QED
        BY <1>4, <3>1, <4>1
    <3>2. CASE e.seq = feed'.seq /\ e.says = says
      BY <1>4, <2>1, <3>2
    <3> QED
      BY <1>4, <3>1, <3>2
  <2> QED
    BY <1>5, <1>7, <2>2 DEF Past
<1> QED
  BY <1>1, <1>3, <1>4, <1>5, <1>8, <1>9 DEF OverviewInv, n, Follows, Past, Waits, NoneLater, Of

\* Nothing of the tunnel is recorded.
LEMMA OverviewSilent ==
  ASSUME Types, PageTypes, page.kind = "overview", OverviewInv, FactsInv(feed),
         UNCHANGED <<page, status, life>>, NEW l \in LogIds, Records(feed, feed', l, "nothing"),
         IF l = Global \/ l \in feed.forwards
           THEN Carries(feed, feed', "nothing")
           ELSE feed'.rings[Global] = feed.rings[Global] /\ feed'.queue = feed.queue
  PROVE  OverviewInv'
<1>1. /\ feed.source \in {Closed, Global} /\ ~feed.ended /\ page.latest <= feed.seq
      /\ NoneLater(feed) /\ feed \in Feeds /\ life \in LogIds
      /\ feed.seq \in Nat /\ page.latest \in Nat
      /\ status # "none" /\ life \in feed.forwards => Follows(feed, status, page.view)
      /\ status = "none" /\ life > 0 => Past(feed, feed.lastFact[life], page)
  BY BoundsTyped DEF OverviewInv, Types, Feeds, PageTypes, Pages
<1>2. /\ feed'.source = feed.source /\ feed'.ended = feed.ended
      /\ feed'.forwards = feed.forwards
  BY DEF Records
<1>3. /\ NoneLater(feed') /\ feed'.seq = feed.seq + 1
      /\ \A e \in Of(feed', Global) : e \in Of(feed, Global) \/ e.says = "nothing"
  BY <1>1, RecordsNoneLater
<1>4. feed'.lastFact[life] = feed.lastFact[life]
  <2>1. Quiet(feed, feed')
    BY <1>1, FactsNamed, RecordsQuiet
  <2> QED
    BY <1>1, <2>1 DEF Quiet
<1>5. page.latest <= feed'.seq
  BY <1>1, <1>3
<1>6. ASSUME Follows(feed, status, page.view)
      PROVE  Follows(feed', status, page.view)
  <2>1. CASE Carries(feed, feed', "nothing")
    <3>1. "nothing" \in Sayings /\ "nothing" \notin TunnelFacts
      BY DEF Sayings, TunnelFacts
    <3> QED
      BY <1>1, <1>2, <1>6, <2>1, <3>1, CarriesFollows
  <2>2. CASE feed'.rings[Global] = feed.rings[Global] /\ feed'.queue = feed.queue
    BY <1>2, <1>6, <2>2 DEF Follows, Waits
  <2> QED
    BY <2>1, <2>2
<1>7. ASSUME Past(feed, feed.lastFact[life], page)
      PROVE  Past(feed', feed'.lastFact[life], page)
  <2>1. \A e : e.says = "nothing" => ~Effective(e)
    BY DEF Effective, TunnelFacts
  <2> QED
    BY <1>3, <1>4, <1>7, <2>1 DEF Past
<1> QED
  BY <1>1, <1>2, <1>3, <1>5, <1>6, <1>7 DEF OverviewInv, Follows, Past, Waits, NoneLater, Of

\* Nothing is recorded; the stream may be opened or cut.
LEMMA OverviewShortened ==
  ASSUME Types, PageTypes, page.kind = "overview", OverviewInv, FactsInv(feed),
         UNCHANGED <<page, status, life>>, Shortens(feed, feed'),
         feed'.source \in {Closed, Global}, ~feed'.ended, feed'.forwards \subseteq feed.forwards,
         Follows(feed, status, page.view) /\ status # "none"
           => Follows(feed', status, page.view)
  PROVE  OverviewInv'
<1>1. /\ NoneLater(feed) /\ page.latest <= feed.seq
      /\ status # "none" /\ life \in feed.forwards => Follows(feed, status, page.view)
      /\ status = "none" /\ life > 0 => Past(feed, feed.lastFact[life], page)
      /\ feed.seq \in Nat /\ Global \in LogIds
  BY BoundsTyped DEF OverviewInv, Types, Feeds
<1>2. /\ feed'.seq = feed.seq /\ feed'.lastFact = feed.lastFact
      /\ \A e \in Of(feed', Global) : e \in Of(feed, Global) \/ e = Snapshot
  BY <1>1 DEF Shortens
<1>3. /\ Snapshot.says = "state" /\ Snapshot.status = status /\ Snapshot.seq = feed.seq
  BY SnapshotTyped
<1>4. NoneLater(feed')
  <2>1. feed.seq <= feed.seq
    BY <1>1
  <2> QED
    BY <1>1, <1>2, <1>3, <2>1 DEF NoneLater
<1>5. ASSUME status = "none", Past(feed, feed.lastFact[life], page)
      PROVE  Past(feed', feed'.lastFact[life], page)
  <2>1. ~Effective(Snapshot)
    BY <1>3, <1>5 DEF Effective, TunnelFacts
  <2> QED
    BY <1>2, <1>5, <2>1 DEF Past
<1> QED
  BY <1>1, <1>2, <1>4, <1>5 DEF OverviewInv, Follows, Past, Waits, NoneLater, Of

\* A new stream comes to the state of its snapshot.
LEMMA SubscribeFollows ==
  ASSUME Types, Subscribe, page.kind = "overview", status # "none",
         Follows(feed, status, page.view)
  PROVE  Follows(feed', status, page.view)
<1> DEFINE ring == feed.rings[Global]
           queue == feed'.queue
<1>1. Route = Global
  BY DEF Route
<1>2. /\ feed' \in Feeds /\ feed'.source = Global /\ feed'.rings = feed.rings
      /\ Len(queue) = Len(ring) + 1 /\ queue[1] = Snapshot
      /\ \A i \in 2..Len(queue) : queue[i] = ring[i - 1]
  BY <1>1, Subscribed
<1>3. /\ ring \in Seq(Events) /\ Len(ring) \in Nat
      /\ queue \in Seq(Entries) /\ DOMAIN queue = 1..Len(queue)
  <2>1. ring \in Seq(Events) /\ queue \in Seq(Entries)
    BY <1>2, BoundsTyped DEF Types, Feeds
  <2> QED
    BY <2>1, LenProperties
<1>4. Effective(Snapshot) /\ Informs(Snapshot) /\ Tells(Snapshot) = status
  BY SnapshotTyped DEF Effective, Informs, Tells
<1>5. LastTells(ring, status)
  BY DEF Follows
<1>6. Snapshot \in Range(queue)
  <2>1. 1 \in DOMAIN queue
    BY <1>2, <1>3
  <2> QED
    BY <1>2, <2>1 DEF Range
<1> HIDE DEF ring, queue
<1>7. ASSUME NEW i \in 1..Len(queue), Effective(queue[i]),
             \A j \in (i + 1)..Len(queue) : ~Effective(queue[j])
      PROVE  Tells(queue[i]) = status
  <2>1. CASE i = 1
    BY <1>2, <1>4, <2>1
  <2>2. CASE i # 1
    <3>1. i \in 2..Len(queue) /\ i - 1 \in 1..Len(ring) /\ queue[i] = ring[i - 1]
      BY <1>2, <1>3, <1>7, <2>2
    <3>2. ASSUME NEW j \in ((i - 1) + 1)..Len(ring)
          PROVE  ~Effective(ring[j])
      <4>1. j + 1 \in (i + 1)..Len(queue) /\ j + 1 \in 2..Len(queue) /\ (j + 1) - 1 = j
        BY <1>2, <1>3, <3>1
      <4>2. queue[j + 1] = ring[j]
        BY <1>2, <4>1
      <4> QED
        BY <1>7, <4>1, <4>2
    <3> QED
      BY <1>5, <1>7, <3>1, <3>2 DEF LastTells
  <2> QED
    BY <2>1, <2>2
<1>8. LastTells(queue, status)
  BY <1>7 DEF LastTells
<1> QED
  BY <1>2, <1>4, <1>5, <1>6, <1>8 DEF Follows, Waits, ring, queue

\* handleEvent of the overview
LEMMA OverviewHandled ==
  ASSUME PageTypes, NEW e \in Entries, NEW p, p = OverviewHandles(e)
  PROVE  /\ p = page \/ (Effective(e) /\ p.view = Tells(e) /\ p.latest = e.seq)
         /\ Effective(e) /\ (page.view # "unknown" \/ Informs(e)) => p.view = Tells(e)
         /\ p.view = "unknown" => page.view = "unknown" /\ ~Informs(e)
<1>1. /\ \A v : /\ Shows(v, e).view = v
                /\ Shows(v, e).latest = e.seq
      /\ e.says = "state" => e.status \in Statuses
  BY DEF PageTypes, Pages, Shows, Entries, Events, Snapshots, Sayings, ListFacts, TunnelFacts
<1>2. CASE e.says = "state" /\ e.status # "none"
  <2>1. p = Shows(e.status, e) /\ Tells(e) = e.status /\ Effective(e) /\ e.status # "unknown"
    <3>1. e.status # "unknown"
      BY <1>1, <1>2 DEF Statuses
    <3>2. p = Shows(e.status, e)
      BY <1>2 DEF OverviewHandles, TunnelFacts
    <3> QED
      BY <1>2, <3>1, <3>2 DEF Tells, Effective
  <2> QED
    BY <1>1, <2>1
<1>3. CASE e.says = "state" /\ ~(e.status # "none")
  BY <1>3 DEF OverviewHandles, Effective, Informs, TunnelFacts
<1>4. CASE e.says = "created"
  <2>1. p = Shows("disconnected", e) /\ Tells(e) = "disconnected" /\ Effective(e)
    BY <1>4 DEF OverviewHandles, Tells, Shown, Effective, TunnelFacts
  <2> QED
    BY <1>1, <2>1
<1>5. CASE e.says \in TunnelFacts \ {"created"}
  <2>1. /\ e.says # "state" /\ e.says # "created" /\ e.says # "unknown" /\ Effective(e)
        /\ Tells(e) = e.says /\ ~Informs(e)
        /\ p = IF page.view # "unknown" THEN Shows(e.says, e) ELSE page
    BY <1>5 DEF OverviewHandles, Tells, Shown, Effective, Informs, TunnelFacts
  <2> QED
    BY <1>1, <2>1
<1>6. CASE e.says # "state" /\ e.says \notin TunnelFacts
  <2>1. p = page /\ ~Effective(e) /\ ~Informs(e)
    BY <1>6 DEF OverviewHandles, Effective, Informs, TunnelFacts
  <2> QED
    BY <2>1
<1> QED
  BY <1>2, <1>3, <1>4, <1>5, <1>6 DEF TunnelFacts

LEMMA ReceiveFollows ==
  ASSUME Types, PageTypes, Receive, page.kind = "overview", feed.source = Global,
         Follows(feed, status, page.view)
  PROVE  Follows(feed', status, page'.view)
<1> DEFINE e == Head(feed.queue)
           rest == Tail(feed.queue)
<1>1. /\ feed.queue \in Seq(Entries) /\ feed.queue # <<>> /\ e \in Entries
      /\ feed'.queue = rest /\ feed'.source = Global /\ feed'.rings = feed.rings
      /\ Len(feed.queue) \in Nat \ {0} /\ Len(rest) = Len(feed.queue) - 1 /\ e = feed.queue[1]
      /\ \A i \in 1..Len(rest) : rest[i] = feed.queue[i + 1]
  BY Received DEF Receive, Types, Feeds
<1>2. Range(feed.queue) = {e} \cup Range(rest)
  BY <1>1, HeadAndTail
<1>3. page' = OverviewHandles(e)
  BY DEF Receive, Handles
<1>4. /\ LastTells(feed.rings[Global], status) /\ LastTells(feed.queue, status)
      /\ (\A x \in Range(feed.queue) : ~Effective(x)) => page.view = status
      /\ page.view = "unknown" => \E x \in Range(feed.queue) : Informs(x)
  BY DEF Follows, Waits
<1>5. LastTells(rest, status)
  BY <1>1, <1>4, LastOfTail
<1>6. rest \in Seq(Entries) /\ DOMAIN rest = 1..Len(rest)
  BY <1>1, HeadTailProperties, LenProperties
<1> HIDE DEF e, rest
<1>7. /\ page' = page \/ (Effective(e) /\ page'.view = Tells(e) /\ page'.latest = e.seq)
      /\ Effective(e) /\ (page.view # "unknown" \/ Informs(e)) => page'.view = Tells(e)
      /\ page'.view = "unknown" => page.view = "unknown" /\ ~Informs(e)
  BY <1>1, <1>3, OverviewHandled
<1>8. \A x : Informs(x) => Effective(x)
  BY DEF Informs, Effective, TunnelFacts
<1>9. ASSUME \A x \in Range(rest) : ~Effective(x)
      PROVE  page'.view = status
  <2>1. CASE Effective(e)
    <3>1. ASSUME NEW j \in (1 + 1)..Len(feed.queue)
          PROVE  ~Effective(feed.queue[j])
      <4>1. j - 1 \in 1..Len(rest) /\ (j - 1) + 1 = j
        BY <1>1
      <4>2. feed.queue[j] = rest[j - 1] /\ j - 1 \in DOMAIN rest
        BY <1>1, <1>6, <4>1
      <4> QED
        BY <1>9, <4>2 DEF Range
    <3>2. 1 \in 1..Len(feed.queue)
      BY <1>1
    <3>3. Tells(e) = status
      BY <1>1, <1>4, <2>1, <3>1, <3>2 DEF LastTells
    <3>4. page.view # "unknown" \/ Informs(e)
      BY <1>2, <1>4, <1>8, <1>9
    <3> QED
      BY <1>7, <2>1, <3>3, <3>4
  <2>2. CASE ~Effective(e)
    BY <1>2, <1>4, <1>7, <1>9, <2>2
  <2> QED
    BY <2>1, <2>2
<1>10. page'.view = "unknown" => \E x \in Range(rest) : Informs(x)
  BY <1>2, <1>4, <1>7
<1> QED
  BY <1>1, <1>4, <1>5, <1>9, <1>10 DEF Follows, Waits

LEMMA OverviewKept == Spec => []OverviewInv
<1>1. Init => OverviewInv
  <2> SUFFICES ASSUME Init PROVE OverviewInv
    OBVIOUS
  <2>1. /\ feed.source = Closed /\ ~feed.ended /\ feed.seq = 0 /\ page.latest = 0
        /\ status = "none" /\ life = 0 /\ feed.rings[Global] = <<>>
    <3>1. PICK k \in PageKinds :
              page = [kind |-> k, view |-> "unknown", latest |-> 0, typed |-> FALSE]
      BY DEF Init
    <3> QED
      BY <3>1, BoundsTyped DEF Init
  <2>2. Of(feed, Global) = {}
    BY <2>1, BoundsTyped DEF Of, Range
  <2> QED
    BY <2>1, <2>2 DEF OverviewInv, NoneLater
<1>2. Types /\ PageTypes /\ FactsInv(feed) /\ OverviewInv /\ [Next]_vars => OverviewInv'
  <2> SUFFICES ASSUME Types, PageTypes, FactsInv(feed), OverviewInv, [Next]_vars,
                      page.kind = "overview"
               PROVE  OverviewInv'
    BY PageStays DEF OverviewInv
  <2>1. /\ feed \in Feeds /\ life \in LogIds /\ current \in LogIds /\ Global \in LogIds
        /\ Closed \notin LogIds
        /\ status # "none" => life \in LogIds \ {Global}
        /\ feed.seq \in Nat /\ feed.seq <= feed.seq /\ page.latest \in Nat
    <3>1. feed \in Feeds /\ feed.seq \in Nat /\ page.latest \in Nat
      BY DEF Types, Feeds, PageTypes, Pages
    <3>2. feed.seq <= feed.seq
      BY <3>1
    <3>3. life \in LogIds /\ current \in LogIds /\ (status # "none" => life # Global)
      BY BoundsTyped DEF Types
    <3> QED
      BY <3>1, <3>2, <3>3, BoundsTyped
  <2>2. /\ feed.source \in {Closed, Global} /\ ~feed.ended
        /\ NoneLater(feed) /\ page.latest <= feed.seq
        /\ status # "none" /\ life \in feed.forwards => Follows(feed, status, page.view)
        /\ status = "none" /\ life > 0 => Past(feed, feed.lastFact[life], page)
    BY DEF OverviewInv
  <2>3. /\ Goes(feed, feed, page.view)
        /\ status # "none" /\ life \in feed.forwards => Waits(feed, page.view)
    BY <2>2, GoesNowhere DEF Follows
  <2>4. CASE CreateTunnel
    <3> DEFINE f == [feed EXCEPT !.forwards = @ \cup {life + 1}]
    <3>1. /\ status' = "disconnected" /\ life' = life + 1
          /\ feed' = Push(f, life', "tunnel.created") /\ UNCHANGED page
      BY <2>4 DEF CreateTunnel, Logged
    <3>2. life + 1 \in LogIds \ {Global}
      BY <2>1, <2>4, BoundsTyped DEF CreateTunnel
    <3>3. FactsInv(f) /\ f.seq = feed.seq /\ f.source = feed.source /\ f.ended = feed.ended
          /\ \A k : Of(f, k) = Of(feed, k)
      BY <3>2, ForwarderKeepsFacts
    <3> HIDE DEF f
    <3>4. NoneLater(f) /\ feed.seq <= f.seq
      BY <2>1, <2>2, <3>3 DEF NoneLater
    <3>5. Said("tunnel.created") = "created" /\ Shown("created") = "disconnected"
          /\ "created" \in TunnelFacts
      BY DEF Said, Shown, TunnelFacts
    <3> QED
      BY <3>1, <3>2, <3>3, <3>4, <3>5, OverviewTold
  <2>5. ASSUME NEW resumes \in BOOLEAN, Hello(resumes)
        PROVE  OverviewInv'
    <3> DEFINE type == IF resumes THEN "control.resumed" ELSE "control.connected"
    <3>1. /\ status # "none" /\ status' = "connected" /\ feed' = Push(feed, life', type)
          /\ UNCHANGED <<life, page>>
      BY <2>5 DEF Hello, Logged
    <3>2. Said(type) = "connected" /\ Shown("connected") = "connected"
          /\ "connected" \in TunnelFacts
      BY DEF Said, Shown, TunnelFacts
    <3> HIDE DEF type
    <3> QED
      BY <2>1, <2>2, <2>3, <3>1, <3>2, OverviewTold
  <2>6. ASSUME NEW silent \in BOOLEAN, ControlCloses(silent)
        PROVE  OverviewInv'
    <3> DEFINE f == PushIf(silent, feed, life, "control.heartbeat_timeout")
    <3>1. /\ status # "none" /\ status' = "disconnected"
          /\ feed' = Push(f, life', "control.disconnected")
          /\ UNCHANGED <<life, page>>
      BY <2>6 DEF ControlCloses, Logged
    <3>2. Said("control.disconnected") = "disconnected" /\ Shown("disconnected") = "disconnected"
          /\ "disconnected" \in TunnelFacts
      BY DEF Said, Shown, TunnelFacts
    <3>3. Goes(feed, f, page.view)
      BY <2>1, <2>2, <2>3, PushIfGoes
    <3> HIDE DEF f
    <3>4. /\ FactsInv(f) /\ NoneLater(f) /\ feed.seq <= f.seq
          /\ f.source = feed.source /\ f.ended = feed.ended
          /\ life \in f.forwards => Waits(f, page.view)
      BY <2>3, <3>1, <3>3 DEF Goes
    <3> QED
      BY <2>1, <3>1, <3>2, <3>4, OverviewTold
  <2>7. ASSUME NEW expired \in BOOLEAN, NEW attached \in BOOLEAN, Destroy(expired, attached)
        PROVE  OverviewInv'
    <3> DEFINE over == PushIf(expired, feed, life, "tunnel.window_expired")
               f == PushIf(attached, over, life, "control.disconnected")
    <3>1. /\ status # "none" /\ status' = "none"
          /\ feed' = Push(f, life', "tunnel.destroyed")
          /\ UNCHANGED <<life, page>>
      BY <2>7 DEF Destroy, Logged
    <3>2. Said("tunnel.destroyed") = "destroyed" /\ "destroyed" \in TunnelFacts
      BY DEF Said, TunnelFacts
    <3>3. Goes(feed, over, page.view)
      BY <2>1, <2>2, <2>3, PushIfGoes
    <3> HIDE DEF over
    <3>4. Goes(feed, f, page.view)
      BY <2>1, <2>2, <3>3, PushIfGoes
    <3> HIDE DEF f
    <3>5. /\ FactsInv(f) /\ NoneLater(f) /\ feed.seq <= f.seq
          /\ f.source = feed.source /\ f.ended = feed.ended
      BY <3>4 DEF Goes
    <3> QED
      BY <2>1, <3>1, <3>2, <3>5, OverviewTold
  <2>8. CASE RequestLogged
    <3>1. /\ feed' = Push(feed, life, "request.received")
          /\ UNCHANGED <<page, status, life>>
      BY <2>8 DEF RequestLogged, Logged
    <3>2. Said("request.received") = "nothing"
      BY DEF Said
    <3>3. Records(feed, feed', life, "nothing")
      BY <2>1, <3>1, <3>2, PushRecords
    <3>4. IF life = Global \/ life \in feed.forwards
            THEN Carries(feed, feed', "nothing")
            ELSE feed'.rings[Global] = feed.rings[Global] /\ feed'.queue = feed.queue
      BY <2>1, <2>2, <3>1, <3>2, PushCarries
    <3> QED
      BY <2>1, <3>1, <3>3, <3>4, OverviewSilent
  <2>9. ASSUME NEW l \in LogIds, CleanupLog(l)
        PROVE  OverviewInv'
    <3>1. UNCHANGED <<page, status, life>>
          /\ feed' = IF current = Global THEN feed ELSE DestroyLog(feed, current)
      BY <2>9 DEF CleanupLog
    <3>2. CASE current = Global
      BY <2>2, <3>1, <3>2 DEF OverviewInv, Follows, Past, Waits, NoneLater, Of
    <3>3. CASE current # Global
      <4>1. feed' = DestroyLog(feed, current)
        BY <3>1, <3>3
      <4>2. Shortens(feed, feed')
        BY <2>1, <4>1, DestroyShortens
      <4>3. /\ feed'.source = feed.source /\ feed'.queue = feed.queue
            /\ feed'.forwards = feed.forwards \ {current}
            /\ feed'.rings[Global] = feed.rings[Global]
            /\ ~feed.ended /\ feed.source # current => ~feed'.ended
        BY <2>1, <3>3, <4>1 DEF DestroyLog, Feeds
      <4>4. feed'.rings[Global] = feed.rings[Global] /\ ~feed'.ended
        BY <2>1, <2>2, <3>3, <4>3
      <4>5. Follows(feed, status, page.view) => Follows(feed', status, page.view)
        BY <4>3, <4>4 DEF Follows, Waits
      <4> QED
        BY <2>2, <3>1, <4>2, <4>3, <4>4, <4>5, OverviewShortened
    <3> QED
      BY <3>2, <3>3
  <2>10. ASSUME NEW l \in LogIds, ClearEvents(l)
         PROVE  OverviewInv'
    <3>1. feed' = Clear(feed, l) /\ UNCHANGED <<page, status, life>>
      BY <2>10 DEF ClearEvents, Logged
    <3>2. Records(feed, feed', l, "nothing")
      BY <2>1, <3>1, ClearRecords
    <3>3. IF l = Global \/ l \in feed.forwards
            THEN Carries(feed, feed', "nothing")
            ELSE feed'.rings[Global] = feed.rings[Global] /\ feed'.queue = feed.queue
      BY <2>1, <2>2, <3>1, ClearCarries
    <3> QED
      BY <3>1, <3>2, <3>3, OverviewSilent
  <2>11. CASE Subscribe
    <3>1. Shortens(feed, feed') /\ UNCHANGED <<page, status, life>>
      BY <2>11, SubscribeShortens DEF Subscribe
    <3>2. feed'.source = Global /\ ~feed'.ended /\ feed'.forwards = feed.forwards
      BY <2>11, Subscribed DEF Route
    <3>3. Follows(feed, status, page.view) /\ status # "none"
            => Follows(feed', status, page.view)
      BY <2>11, SubscribeFollows
    <3> QED
      BY <3>1, <3>2, <3>3, OverviewShortened
  <2>12. CASE StreamCloses
    <3>1. /\ Shortens(feed, feed') /\ feed'.source = Closed /\ ~feed'.ended
          /\ feed'.rings = feed.rings /\ feed'.forwards = feed.forwards
          /\ UNCHANGED <<page, status, life>>
      BY <2>12, CloseShortens DEF StreamCloses
    <3>2. Follows(feed, status, page.view) => Follows(feed', status, page.view)
      BY <2>1, <3>1 DEF Follows, Waits
    <3> QED
      BY <3>1, <3>2, OverviewShortened
  <2>13. CASE Receive
    <3> DEFINE e == Head(feed.queue)
    <3>1. /\ Shortens(feed, feed') /\ feed.source \in LogIds /\ e \in Of(feed, feed.source)
          /\ feed'.source = feed.source /\ feed'.ended = feed.ended
          /\ feed'.forwards = feed.forwards /\ e \in Entries
      BY <2>13, ReceiveShortens, Received
    <3>2. feed.source = Global
      BY <2>1, <2>2, <3>1
    <3>3. page' = OverviewHandles(e) /\ UNCHANGED <<status, life>> /\ page'.kind = page.kind
      BY <2>13, PageStays DEF Receive, Handles
    <3>4. Follows(feed, status, page.view) => Follows(feed', status, page'.view)
      BY <2>13, <3>2, ReceiveFollows
    <3> HIDE DEF e
    <3>5. /\ feed'.seq = feed.seq /\ feed'.lastFact = feed.lastFact
          /\ \A x \in Of(feed', Global) : x \in Of(feed, Global) \/ x = Snapshot
      BY <2>1, <3>1 DEF Shortens
    <3>6. /\ Snapshot.says = "state" /\ Snapshot.status = status /\ Snapshot.seq = feed.seq
      BY SnapshotTyped
    <3>7. NoneLater(feed')
      BY <2>1, <2>2, <3>5, <3>6 DEF NoneLater
    <3>8. page' = page \/ (Effective(e) /\ page'.view = Tells(e) /\ page'.latest = e.seq)
      BY <3>1, <3>3, OverviewHandled
    <3>9. page'.latest <= feed.seq
      BY <2>2, <3>1, <3>2, <3>8 DEF NoneLater
    <3>10. ASSUME status = "none", Past(feed, feed.lastFact[life], page)
           PROVE  Past(feed', feed'.lastFact[life], page')
      <4>1. ~Effective(Snapshot)
        BY <3>6, <3>10 DEF Effective, TunnelFacts
      <4>2. \A x \in Of(feed', Global) : Effective(x) => x \in Of(feed, Global)
        BY <3>5, <4>1
      <4>3. CASE page' = page
        BY <3>5, <3>10, <4>2, <4>3 DEF Past
      <4>4. CASE Effective(e) /\ page'.view = Tells(e) /\ page'.latest = e.seq
        <5>1. \A says \in {"expired", "destroyed"} :
                e.says = says => Tells(e) \in {"expired", "destroyed"}
          BY DEF Tells, Shown
        <5>2. /\ e.seq <= feed.lastFact[life]
              /\ e.seq = feed.lastFact[life] => e.says \in {"expired", "destroyed"}
          BY <3>1, <3>2, <3>10, <4>4 DEF Past
        <5> QED
          BY <3>5, <3>10, <4>2, <4>4, <5>1, <5>2 DEF Past
      <4> QED
        BY <3>8, <4>3, <4>4
    <3> QED
      BY <2>2, <3>1, <3>3, <3>4, <3>5, <3>7, <3>9, <3>10
         DEF OverviewInv, Follows, Past, Waits, NoneLater, Of
  <2>14. CASE UNCHANGED vars
    BY <2>2, <2>14 DEF vars, OverviewInv, Follows, Past, Waits, NoneLater, Of
  <2> QED
    BY <2>4, <2>5, <2>6, <2>7, <2>8, <2>9, <2>10, <2>11, <2>12, <2>13, <2>14 DEF Next, TunnelNext
<1> QED
  BY <1>1, <1>2, StreamsKept, FactsKept, PTL DEF Spec

LEMMA OverviewCorrect == Spec => []OverviewCurrent
<1>1. Types /\ PageTypes /\ FactsInv(feed) /\ OverviewInv => OverviewCurrent
  <2> SUFFICES ASSUME Types, PageTypes, FactsInv(feed), OverviewInv, page.kind = "overview", Drained
               PROVE  /\ status # "none" /\ life \in feed.forwards => page.view = status
                      /\ status = "none" /\ life > 0 /\ UpToDate(life)
                           => page.view \in {"unknown", "expired", "destroyed"}
    BY DEF OverviewCurrent
  <2>1. feed.source = Global /\ feed.queue = <<>> /\ Range(feed.queue) = {}
    BY RangesKnown, EmptySeq DEF OverviewInv, Drained
  <2>2. status # "none" /\ life \in feed.forwards => page.view = status
    BY <2>1 DEF OverviewInv, Follows
  <2>3. ASSUME status = "none", life > 0, UpToDate(life)
        PROVE  page.view \in {"unknown", "expired", "destroyed"}
    <3>1. /\ page.latest <= feed.lastFact[life] /\ feed.lastFact[life] <= page.latest
          /\ page.latest = feed.lastFact[life]
               => page.view \in {"unknown", "expired", "destroyed"}
      BY <2>3 DEF OverviewInv, Past, UpToDate
    <3>2. page.latest \in Nat /\ feed.lastFact[life] \in Nat
      BY BoundsTyped DEF Types, Feeds, PageTypes, Pages
    <3> QED
      BY <3>1, <3>2
  <2> QED
    BY <2>2, <2>3
<1> QED
  BY <1>1, StreamsKept, FactsKept, OverviewKept, PTL

-----------------------------------------------------------------------------

\* What a page shows, once it has read its stream, is what the server has, for the overview, a
\* tunnel's page and the blocklist page (handleEvent and handleSse in server/admin/pages.js).
THEOREM PagesCorrect == Spec => []PagesCurrent
<1>1. OverviewCurrent /\ TunnelPageCurrent /\ BlocklistCurrent => PagesCurrent
  BY DEF PagesCurrent
<1> QED
  BY <1>1, OverviewCorrect, TunnelPageCorrect, ListCorrect, PTL

=============================================================================
