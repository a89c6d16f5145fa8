---------------------------- MODULE ReplayProofs ----------------------------
(***************************************************************************)
(* The replay lock, what the log tells of the runs, and the page that      *)
(* follows it, for any requests, manifests and sizes of the log.           *)
(***************************************************************************)
EXTENDS Replay, SequenceTheorems, FiniteSetTheorems, TLAPS

\* What the lock depends on.
LockTypes ==
  /\ lock \in BOOLEAN
  /\ overlap \in BOOLEAN
  /\ phase \in [Triggers -> {"idle", "sent", "reading", "waiting", "sending", "ended", "refused"}]

\* Those that have passed the lock and have not ended.
Inside == {r \in Triggers : phase[r] \in {"reading", "waiting", "sending"}}

\* The lock tells of a run, and without an overlap nobody else has passed it.
LockInv ==
  /\ LockTypes
  /\ lock => Running # {}
  /\ ~overlap => /\ \A r, s \in Inside : r = s
                 /\ Running # {} => lock

\* A trigger that runs goes on running, and nothing else changes.
LEMMA KeepsRunning ==
  ASSUME LockInv, NEW r \in Triggers, r \in Running,
         NEW to \in {"waiting", "sending"}, phase' = [phase EXCEPT ![r] = to],
         UNCHANGED <<lock, overlap>>
  PROVE  LockInv'
<1>1. LockTypes' /\ Running' = Running /\ Inside' = Inside
  BY DEF LockInv, LockTypes, Running, Inside
<1> QED
  BY <1>1 DEF LockInv

\* A trigger ends, and with it the lock.
LEMMA EndKeepsInv ==
  ASSUME LockInv, NEW r \in Triggers, r \in Running, End(r), UNCHANGED overlap
  PROVE  LockInv'
<1>1. LockTypes' /\ ~lock'
  BY DEF LockInv, LockTypes, End
<1>2. Running' = Running \ {r} /\ Inside' = Inside \ {r}
  BY DEF LockInv, LockTypes, Running, Inside, End
<1>3. ~overlap => Running' = {}
  BY <1>2 DEF LockInv, Running, Inside
<1> QED
  BY <1>1, <1>2, <1>3 DEF LockInv

\* What the lock tells of the runs (client/admin/server.js).
LEMMA LockKept == Spec => []LockInv
<1>1. Init => LockInv
  BY DEF Init, LockInv, LockTypes, Running, Inside
<1>2. LockInv /\ [Next]_vars => LockInv'
  <2> SUFFICES ASSUME LockInv, [Next]_vars PROVE LockInv'
    OBVIOUS
  <2>1. ASSUME NEW r \in Triggers, HeadArrives(r)
        PROVE  LockInv'
    <3>1. CASE lock
      <4>1. LockTypes' /\ Running' = Running /\ Inside' = Inside
        BY <2>1, <3>1 DEF HeadArrives, LockInv, LockTypes, Running, Inside
      <4> QED
        BY <2>1, <3>1, <4>1 DEF HeadArrives, LockInv
    <3>2. CASE ~lock
      <4>1. LockTypes' /\ Running' = Running /\ Inside' = Inside \cup {r}
        BY <2>1, <3>2 DEF HeadArrives, LockInv, LockTypes, Running, Inside
      <4>2. ~overlap' => ~overlap /\ Inside = {}
        BY <2>1, <3>2 DEF HeadArrives, LockInv, Running, Inside
      <4> QED
        BY <2>1, <3>2, <4>1, <4>2 DEF HeadArrives, LockInv
    <3> QED
      BY <3>1, <3>2 DEF LockInv, LockTypes
  <2>2. ASSUME NEW r \in Triggers, BodyRefused(r)
        PROVE  LockInv'
    <3>1. LockTypes' /\ Running' = Running /\ Inside' = Inside \ {r}
      BY <2>2 DEF BodyRefused, LockInv, LockTypes, Running, Inside
    <3> QED
      BY <2>2, <3>1 DEF BodyRefused, LockInv
  <2>3. ASSUME NEW r \in Triggers, BodyAccepted(r)
        PROVE  LockInv'
    <3>1. LockTypes' /\ Running' = Running \cup {r} /\ Inside' = Inside
      BY <2>3 DEF BodyAccepted, LockInv, LockTypes, Running, Inside
    <3> QED
      BY <2>3, <3>1 DEF BodyAccepted, LockInv
  <2>4. ASSUME NEW r \in Triggers, Continue(r)
        PROVE  LockInv'
    <3>1. r \in Running
      BY <2>4 DEF Continue, Running
    <3>2. \/ phase' = [phase EXCEPT ![r] = "sending"] /\ UNCHANGED lock
          \/ End(r)
      BY <2>4 DEF Continue
    <3> QED
      BY <2>4, <3>1, <3>2, KeepsRunning, EndKeepsInv DEF Continue
  <2>5. ASSUME NEW r \in Triggers, Settle(r)
        PROVE  LockInv'
    <3>1. r \in Running
      BY <2>5 DEF Settle, Running
    <3> QED
      BY <2>5, <3>1, KeepsRunning DEF Settle
  <2>6. CASE UNCHANGED <<lock, phase, overlap>>
    BY <2>6 DEF LockInv, LockTypes, Running, Inside
  <2>7. CASE Click
    <3>1. LockTypes' /\ Running' = Running /\ Inside' = Inside
      BY <2>7 DEF Click, LockInv, LockTypes, Running, Inside
    <3> QED
      BY <2>7, <3>1 DEF Click, LockInv
  <2> QED
    BY <2>1, <2>2, <2>3, <2>4, <2>5, <2>6, <2>7
       DEF Next, WsSendSettles, HttpSendSettles, TargetSilent, OtherEvent, ClearEvents,
           AnswerArrives, FetchFails, Subscribe, StreamCloses, Receive, vars
<1> QED
  BY <1>1, <1>2, PTL DEF Spec

-----------------------------------------------------------------------------
(* The story of each run.                                                  *)

LEMMA SizesTyped ==
  /\ Total \in Nat /\ MaxRing \in Nat \ {0}
<1>1. Len(Steps) \in Nat /\ Loops \in Nat
  BY LenProperties, ReplayAssumption DEF ReplayAssumption
<1>2. \A m, n \in Nat : m * n \in Nat
  OBVIOUS
<1> QED
  BY <1>1, <1>2, ReplayAssumption DEF ReplayAssumption, Total

\* The steps of a WebSocket among some steps are no more than these, and add up.
LEMMA WsStepsCounted ==
  ASSUME NEW a \in Nat, NEW b \in Nat, a <= b
  PROVE  /\ Cardinality(WsSteps(a + 1, b)) \in Nat
         /\ Cardinality(WsSteps(a + 1, b)) <= b - a
         /\ Cardinality(WsSteps(1, a)) \in Nat /\ Cardinality(WsSteps(1, b)) \in Nat
         /\ Cardinality(WsSteps(1, b))
              <= Cardinality(WsSteps(1, a)) + Cardinality(WsSteps(a + 1, b))
<1>1. /\ IsFiniteSet(WsSteps(a + 1, b)) /\ Cardinality(WsSteps(a + 1, b)) <= Cardinality((a + 1)..b)
      /\ IsFiniteSet(WsSteps(1, a)) /\ IsFiniteSet(WsSteps(1, b))
  <2>1. IsFiniteSet((a + 1)..b) /\ IsFiniteSet(1..a) /\ IsFiniteSet(1..b)
    BY FS_Interval
  <2>2. /\ WsSteps(a + 1, b) \in SUBSET ((a + 1)..b)
        /\ WsSteps(1, a) \in SUBSET (1..a) /\ WsSteps(1, b) \in SUBSET (1..b)
    BY DEF WsSteps
  <2> QED
    BY <2>1, <2>2, FS_Subset
<1>2. Cardinality((a + 1)..b) = b - a
  <2>1. a + 1 \in Int /\ b \in Int /\ (a + 1 > b => b - a = 0) /\ b - (a + 1) + 1 = b - a
    OBVIOUS
  <2> QED
    BY <2>1, FS_Interval
<1>3. WsSteps(1, b) = WsSteps(1, a) \cup WsSteps(a + 1, b)
  BY DEF WsSteps
<1>4. Cardinality(WsSteps(1, a) \cup WsSteps(a + 1, b))
        = Cardinality(WsSteps(1, a)) + Cardinality(WsSteps(a + 1, b))
            - Cardinality(WsSteps(1, a) \cap WsSteps(a + 1, b))
  BY <1>1, FS_Union
<1>5. WsSteps(1, a) \cap WsSteps(a + 1, b) = {}
  BY DEF WsSteps
<1>6. /\ Cardinality(WsSteps(a + 1, b)) \in Nat /\ Cardinality(WsSteps(1, a)) \in Nat
      /\ Cardinality(WsSteps(1, b)) \in Nat
  BY <1>1, FS_CardinalityType
<1>7. Cardinality(WsSteps(1, b)) = Cardinality(WsSteps(1, a)) + Cardinality(WsSteps(a + 1, b))
  <2>1. Cardinality(WsSteps(1, a) \cap WsSteps(a + 1, b)) = 0
    BY <1>5, FS_EmptySet
  <2> QED
    BY <1>3, <1>4, <1>6, <2>1
<1> QED
  BY <1>1, <1>2, <1>6, <1>7

ReportTypes == TurnTypes \cup {"replay.step"}

\* The story told by a sequence, of a run that has done n steps and may go on.
Tells(story, n) ==
  /\ story \in Seq(ReportTypes)
  /\ Len(story) >= 1 /\ story[1] = "replay.started"
  /\ \A i \in 2..Len(story) : story[i] = "replay.step"
  /\ Len(story) - 1 <= n
  /\ Len(story) - 1 >= Cardinality(WsSteps(1, n))

\* What the run of a trigger has pushed to the log, and how far it has come. A run that has ended
\* has told of its end besides.
StoryOf(r) ==
  LET story == reports[r]
      last == Len(story)
  IN
  /\ phase[r] \in {"idle", "sent", "reading", "refused"} => story = <<>> /\ position[r] = 0
  /\ r \in Running => Tells(story, position[r])
  /\ phase[r] = "sending" => position[r] < Total
  /\ phase[r] = "ended" =>
       /\ last >= 2
       /\ Tells(SubSeq(story, 1, last - 1), position[r])
       /\ story[last] \in EndTypes
       /\ story[last] = "replay.completed" => position[r] = Total

StoriesInv ==
  /\ reports \in [Triggers -> Seq(ReportTypes)]
  /\ position \in [Triggers -> 0..Total]
  /\ \A r \in Triggers : StoryOf(r)

\* A run reports k more steps of the n that it does.
LEMMA StepsReported ==
  ASSUME NEW story \in Seq(ReportTypes), NEW k \in Nat, NEW more,
         more = [i \in 1..k |-> "replay.step"]
  PROVE  /\ story \o more \in Seq(ReportTypes)
         /\ Len(story \o more) = Len(story) + k
         /\ \A i \in 1..Len(story) : (story \o more)[i] = story[i]
         /\ \A i \in (Len(story) + 1)..(Len(story) + k) : (story \o more)[i] = "replay.step"
<1>1. more \in Seq(ReportTypes) /\ Len(more) = k
  BY DEF ReportTypes
<1> QED
  BY <1>1, ConcatProperties, LenProperties

\* Skipping steps that cannot be read.
LEMMA SkippedSteps ==
  ASSUME NEW story, NEW m \in Nat, NEW n \in Nat, m <= n, Tells(story, m)
  PROVE  Tells(story \o UnreadableReports(m + 1, n), n)
<1> DEFINE k == Cardinality(WsSteps(m + 1, n))
           more == UnreadableReports(m + 1, n)
<1>1. k \in Nat /\ k <= n - m /\ Cardinality(WsSteps(1, n)) \in Nat
      /\ Cardinality(WsSteps(1, m)) \in Nat
      /\ Cardinality(WsSteps(1, n)) <= Cardinality(WsSteps(1, m)) + k
  BY WsStepsCounted
<1>2. more = [i \in 1..k |-> "replay.step"]
  BY DEF UnreadableReports
<1>3. story \in Seq(ReportTypes) /\ Len(story) \in Nat
  BY LenProperties DEF Tells
<1>4. /\ story \o more \in Seq(ReportTypes)
      /\ Len(story \o more) = Len(story) + k
      /\ \A i \in 1..Len(story) : (story \o more)[i] = story[i]
      /\ \A i \in (Len(story) + 1)..(Len(story) + k) : (story \o more)[i] = "replay.step"
  BY <1>1, <1>2, <1>3, StepsReported
<1>5. \A i \in 2..Len(story \o more) : (story \o more)[i] = "replay.step"
  BY <1>1, <1>3, <1>4 DEF Tells
<1>10. /\ Len(story) >= 1 /\ Len(story) - 1 <= m
      /\ Len(story) - 1 >= Cardinality(WsSteps(1, m))
  BY DEF Tells
<1> HIDE DEF k
<1>6. Len(story) + k >= 1 /\ Len(story) + k - 1 <= n
      /\ Len(story) + k - 1 >= Cardinality(WsSteps(1, n))
  BY <1>1, <1>3, <1>10
<1>7. (story \o more)[1] = "replay.started"
  BY <1>3, <1>4 DEF Tells
<1> HIDE DEF k, more
<1>8. /\ Len(story \o more) >= 1 /\ Len(story \o more) - 1 <= n
      /\ Len(story \o more) - 1 >= Cardinality(WsSteps(1, n))
  BY <1>1, <1>3, <1>4, <1>6
<1>9. Tells(story \o more, n)
  BY <1>4, <1>5, <1>7, <1>8 DEF Tells
<1> QED
  BY <1>9 DEF more

\* The report of an end is put behind a story.
LEMMA EndReported ==
  ASSUME NEW story \in Seq(ReportTypes), NEW end \in EndTypes
  PROVE  /\ story \o <<end>> \in Seq(ReportTypes)
         /\ Len(story \o <<end>>) = Len(story) + 1
         /\ (story \o <<end>>)[Len(story) + 1] = end
         /\ SubSeq(story \o <<end>>, 1, Len(story)) = story
<1>1. <<end>> \in Seq(ReportTypes) /\ Len(<<end>>) = 1 /\ Len(story) \in Nat
  BY LenProperties DEF ReportTypes, TurnTypes
<1>2. /\ story \o <<end>> \in Seq(ReportTypes)
      /\ Len(story \o <<end>>) = Len(story) + 1
      /\ (story \o <<end>>)[Len(story) + 1] = end
      /\ \A i \in 1..Len(story) : (story \o <<end>>)[i] = story[i]
  BY <1>1, ConcatProperties
<1>3. story \in [1..Len(story) -> ReportTypes]
  BY LenProperties
<1>4. /\ SubSeq(story \o <<end>>, 1, Len(story)) \in Seq(ReportTypes)
      /\ Len(SubSeq(story \o <<end>>, 1, Len(story))) = Len(story)
      /\ \A i \in 1..Len(story) : SubSeq(story \o <<end>>, 1, Len(story))[i] = story[i]
  <2>1. \A i \in 1..Len(story) : (story \o <<end>>)[i] \in ReportTypes
    BY <1>2, <1>3
  <2> QED
    BY <1>1, <1>2, <2>1, SubSeqProperties
<1> QED
  BY <1>2, <1>4, SeqEqual

\* Of such a story, what RunsReported says of it.
LEMMA StoryRead ==
  ASSUME NEW story, NEW n \in Nat, Tells(story, n)
  PROVE  /\ Len(story) \in Nat \ {0}
         /\ \A i \in DOMAIN story : story[i] \notin EndTypes
         /\ {i \in DOMAIN story : story[i] = "replay.step"} = 2..Len(story)
         /\ Cardinality(2..Len(story)) = Len(story) - 1
<1>1. Len(story) \in Nat \ {0} /\ DOMAIN story = 1..Len(story)
  BY LenProperties DEF Tells
<1>2. \A i \in 1..Len(story) : i = 1 \/ i \in 2..Len(story)
  BY <1>1
<1>3. Cardinality(2..Len(story)) = Len(story) - 1
  BY <1>1, FS_Interval
<1> QED
  BY <1>1, <1>2, <1>3 DEF Tells, EndTypes

\* The run of one trigger goes on, the others stay as they are.
LEMMA OthersUntouched ==
  ASSUME LockTypes, StoriesInv, NEW r \in Triggers,
         NEW to \in {"reading", "waiting", "sending", "ended", "refused"},
         NEW story \in Seq(ReportTypes), NEW n \in 0..Total,
         phase' = [phase EXCEPT ![r] = to],
         reports' = [reports EXCEPT ![r] = story],
         position' = [position EXCEPT ![r] = n],
         StoryOf(r)'
  PROVE  StoriesInv'
<1>1. ASSUME NEW s \in Triggers, s # r PROVE StoryOf(s)'
  <2>1. phase'[s] = phase[s] /\ reports'[s] = reports[s] /\ position'[s] = position[s]
    BY <1>1 DEF LockTypes, StoriesInv
  <2> QED
    BY <2>1 DEF StoriesInv, StoryOf, Running
<1> QED
  BY <1>1 DEF StoriesInv

\* runReplaySession goes on: it skips steps, and sends one, raises or ends.
LEMMA ContinueKeepsStories ==
  ASSUME LockTypes, StoriesInv, NEW r \in Triggers, Continue(r)
  PROVE  StoriesInv'
<1>1. phase[r] = "waiting" /\ r \in Running
  BY DEF Continue, Running
<1>2. PICK n \in (position[r] + 1)..(Total + 1) :
        LET unread == UnreadableReports(position[r] + 1, n - 1) IN
        /\ position' = [position EXCEPT ![r] = n - 1]
        /\ \/ /\ n <= Total
              /\ phase' = [phase EXCEPT ![r] = "sending"]
              /\ reports' = [reports EXCEPT ![r] = @ \o unread]
           \/ /\ phase' = [phase EXCEPT ![r] = "ended"]
              /\ reports' = [reports EXCEPT ![r] = @ \o (unread \o <<"replay.error">>)]
           \/ /\ n = Total + 1
              /\ phase' = [phase EXCEPT ![r] = "ended"]
              /\ reports' = [reports EXCEPT ![r] = @ \o (unread \o <<"replay.completed">>)]
  BY DEF Continue, Report, End
<1> DEFINE unread == UnreadableReports(position[r] + 1, n - 1)
           told == reports[r] \o unread
<1>3. position[r] \in Nat /\ n - 1 \in Nat /\ position[r] <= n - 1 /\ n - 1 \in 0..Total
      /\ Total \in Nat
  BY SizesTyped DEF StoriesInv
<1>4. Tells(reports[r], position[r])
  BY <1>1 DEF StoriesInv, StoryOf
<1>5. Tells(told, n - 1)
  BY <1>3, <1>4, SkippedSteps
<1>6. told \in Seq(ReportTypes) /\ Len(told) \in Nat /\ Len(told) >= 1
  BY <1>5, LenProperties DEF Tells
<1>7. position' = [position EXCEPT ![r] = n - 1] /\ position'[r] = n - 1
  BY <1>2 DEF StoriesInv
<1>8. CASE n <= Total /\ phase' = [phase EXCEPT ![r] = "sending"]
           /\ reports' = [reports EXCEPT ![r] = told]
  <2>1. phase'[r] = "sending" /\ reports'[r] = told
    BY <1>8 DEF LockTypes, StoriesInv
  <2> HIDE DEF told
  <2>2. StoryOf(r)'
    BY <1>3, <1>5, <1>7, <1>8, <2>1 DEF StoryOf, Running
  <2> QED
    BY <1>3, <1>6, <1>7, <1>8, <2>2, OthersUntouched
<1>9. ASSUME NEW end \in EndTypes, end = "replay.completed" => n = Total + 1,
             phase' = [phase EXCEPT ![r] = "ended"],
             reports' = [reports EXCEPT ![r] = @ \o (unread \o <<end>>)]
      PROVE  StoriesInv'
  <2>1. reports[r] \o (unread \o <<end>>) = told \o <<end>>
    <3>1. reports[r] \in Seq(ReportTypes) /\ <<end>> \in Seq(ReportTypes)
      BY DEF StoriesInv, ReportTypes, TurnTypes
    <3>2. unread \in Seq(ReportTypes)
      <4>1. Cardinality(WsSteps(position[r] + 1, n - 1)) \in Nat
        BY <1>3, WsStepsCounted
      <4> QED
        BY <4>1 DEF UnreadableReports, ReportTypes
    <3>3. \A a, b, c \in Seq(ReportTypes) : (a \o b) \o c = a \o (b \o c)
      BY ConcatAssociative
    <3> HIDE DEF unread
    <3> QED
      BY <3>1, <3>2, <3>3, Zenon
  <2> HIDE DEF told
  <2>2. phase'[r] = "ended" /\ reports'[r] = told \o <<end>>
    BY <1>9, <2>1 DEF LockTypes, StoriesInv
  <2>3. /\ told \o <<end>> \in Seq(ReportTypes)
        /\ Len(told \o <<end>>) = Len(told) + 1
        /\ (told \o <<end>>)[Len(told) + 1] = end
        /\ SubSeq(told \o <<end>>, 1, Len(told)) = told
    BY <1>6, EndReported
  <2> DEFINE story == told \o <<end>>
  <2>4. /\ Len(story) >= 2 /\ story[Len(story)] = end
        /\ SubSeq(story, 1, Len(story) - 1) = told
    BY <1>6, <2>3
  <2> HIDE DEF story
  <2>5. story \in Seq(ReportTypes) /\ reports'[r] = story
        /\ reports' = [reports EXCEPT ![r] = story]
    BY <1>9, <2>1, <2>2, <2>3 DEF story
  <2>6. StoryOf(r)'
    <3>1. /\ Len(reports'[r]) >= 2
          /\ reports'[r][Len(reports'[r])] = end
          /\ Tells(SubSeq(reports'[r], 1, Len(reports'[r]) - 1), position'[r])
      BY <1>5, <1>7, <2>4, <2>5
    <3>2. end = "replay.completed" => position'[r] = Total
      BY <1>3, <1>7, <1>9
    <3> QED
      BY <1>9, <2>2, <3>1, <3>2 DEF StoryOf, Running
  <2> QED
    BY <1>3, <1>7, <1>9, <2>5, <2>6, OthersUntouched
<1> QED
  BY <1>2, <1>8, <1>9 DEF EndTypes

\* A step that was sent is settled and reported.
LEMMA SettleKeepsStories ==
  ASSUME LockTypes, StoriesInv, NEW r \in Triggers, Settle(r)
  PROVE  StoriesInv'
<1> DEFINE told == reports[r] \o <<"replay.step">>
           n == position[r]
<1>1. phase[r] = "sending" /\ r \in Running
  BY DEF Settle, Running
<1>2. /\ phase' = [phase EXCEPT ![r] = "waiting"]
      /\ position' = [position EXCEPT ![r] = n + 1]
      /\ reports' = [reports EXCEPT ![r] = told]
      /\ reports'[r] = told
  BY DEF Settle, Report, StoriesInv
<1>3. n \in Nat /\ n + 1 \in 0..Total /\ Tells(reports[r], n)
  BY <1>1, SizesTyped DEF StoriesInv, StoryOf
<1>4. reports[r] \in Seq(ReportTypes) /\ Len(reports[r]) \in Nat
  BY LenProperties DEF StoriesInv
<1>5. <<"replay.step">> \in Seq(ReportTypes) /\ Len(<<"replay.step">>) = 1
  BY DEF ReportTypes
<1>6. /\ told \in Seq(ReportTypes)
      /\ Len(told) = Len(reports[r]) + 1
      /\ \A i \in 1..Len(reports[r]) : told[i] = reports[r][i]
      /\ told[Len(reports[r]) + 1] = "replay.step"
  BY <1>4, <1>5, ConcatProperties
<1>7. /\ Cardinality(WsSteps(1, n)) \in Nat /\ Cardinality(WsSteps(1, n + 1)) \in Nat
      /\ Cardinality(WsSteps(n + 1, n + 1)) \in Nat
      /\ Cardinality(WsSteps(n + 1, n + 1)) <= 1
      /\ Cardinality(WsSteps(1, n + 1))
           <= Cardinality(WsSteps(1, n)) + Cardinality(WsSteps(n + 1, n + 1))
  <2>1. n \in Nat /\ n + 1 \in Nat /\ n <= n + 1 /\ (n + 1) - n = 1
    BY <1>3
  <2> HIDE DEF n
  <2> QED
    BY <2>1, WsStepsCounted
<1> HIDE DEF told
<1>8. Tells(told, n + 1)
  <2>1. Len(told) - 1 <= n + 1 /\ Len(told) - 1 >= Cardinality(WsSteps(1, n + 1))
    BY <1>3, <1>4, <1>6, <1>7 DEF Tells
  <2>2. told[1] = "replay.started" /\ Len(told) >= 1
    BY <1>3, <1>4, <1>6 DEF Tells
  <2>3. \A i \in 2..Len(told) : told[i] = "replay.step"
    BY <1>3, <1>4, <1>6 DEF Tells
  <2> QED
    BY <1>6, <2>1, <2>2, <2>3 DEF Tells
<1>9. phase'[r] = "waiting" /\ position'[r] = n + 1
  BY <1>2 DEF LockTypes, StoriesInv
<1>10. StoryOf(r)'
  BY <1>2, <1>8, <1>9 DEF StoryOf, Running
<1> QED
  BY <1>2, <1>3, <1>6, <1>10, OthersUntouched

\* A replay is accepted: its story begins.
LEMMA StartKeepsStories ==
  ASSUME LockTypes, StoriesInv, NEW r \in Triggers, BodyAccepted(r)
  PROVE  StoriesInv'
<1> DEFINE told == <<"replay.started">>
<1>1. phase[r] = "reading" /\ reports[r] = <<>> /\ position[r] = 0
  BY DEF BodyAccepted, StoriesInv, StoryOf
<1>2. /\ told \in Seq(ReportTypes) /\ Len(told) = 1 /\ told[1] = "replay.started"
      /\ <<>> \o told = told
  BY DEF ReportTypes, TurnTypes
<1>3. /\ phase' = [phase EXCEPT ![r] = "waiting"] /\ phase'[r] = "waiting"
      /\ position' = [position EXCEPT ![r] = 0] /\ position'[r] = 0 /\ 0 \in 0..Total
      /\ reports' = [reports EXCEPT ![r] = told] /\ reports'[r] = told
  BY <1>1, <1>2, SizesTyped DEF BodyAccepted, StartReplay, Report, LockTypes, StoriesInv
<1>4. Cardinality(WsSteps(1, 0)) = 0
  <2>1. WsSteps(1, 0) = {}
    BY DEF WsSteps
  <2> QED
    BY <2>1, FS_EmptySet
<1>5. Tells(told, 0)
  BY <1>2, <1>4 DEF Tells
<1>6. StoryOf(r)'
  BY <1>3, <1>5 DEF StoryOf, Running
<1> QED
  BY <1>2, <1>3, <1>6, OthersUntouched

\* A request is refused, or passes the lock: it has no story.
LEMMA RequestKeepsStories ==
  ASSUME LockTypes, StoriesInv, NEW r \in Triggers, HeadArrives(r) \/ BodyRefused(r)
  PROVE  StoriesInv'
<1>1. phase[r] \in {"sent", "reading"}
  BY DEF HeadArrives, BodyRefused
<1>2. PICK to \in {"reading", "refused"} : phase' = [phase EXCEPT ![r] = to]
  BY DEF HeadArrives, BodyRefused
<1>3. UNCHANGED <<reports, position>>
  BY DEF HeadArrives, BodyRefused
<1>4. ASSUME NEW s \in Triggers PROVE StoryOf(s)'
  BY <1>1, <1>2, <1>3 DEF LockTypes, StoriesInv, StoryOf, Running
<1> QED
  BY <1>3, <1>4 DEF StoriesInv

\* The log tells every run as a story: it starts, reports steps, and ends if and only if the run
\* has ended (onReplay in client/index.js, runReplaySession).
LEMMA StoriesReported ==
  ASSUME LockTypes, StoriesInv
  PROVE  RunsReported
<1> SUFFICES ASSUME NEW r \in Triggers
             PROVE  LET story == reports[r]
                        ended == story # <<>> /\ Last(story) \in EndTypes
                        steps == {i \in DOMAIN story : story[i] = "replay.step"}
                    IN
                    /\ story # <<>> => Head(story) = "replay.started"
                    /\ \A i \in DOMAIN story : story[i] \in EndTypes => i = Len(story)
                    /\ ended <=> phase[r] = "ended"
                    /\ r \in Running <=> story # <<>> /\ ~ended
                    /\ Cardinality(steps) <= position[r]
                    /\ ended /\ Last(story) = "replay.completed" =>
                         /\ position[r] = Total
                         /\ Cardinality(steps) >= Cardinality(WsSteps(1, Total))
  BY DEF RunsReported
<1> DEFINE story == reports[r]
<1>1. StoryOf(r) /\ story \in Seq(ReportTypes) /\ position[r] \in Nat
  BY SizesTyped DEF StoriesInv
<1>2. Len(story) \in Nat /\ DOMAIN story = 1..Len(story)
  BY <1>1, LenProperties
<1>3. CASE phase[r] \in {"idle", "sent", "reading", "refused"}
  <2>1. story = <<>> /\ position[r] = 0 /\ r \notin Running
    BY <1>1, <1>3 DEF StoryOf, Running
  <2>2. {i \in DOMAIN story : story[i] = "replay.step"} = {}
    BY <2>1
  <2> QED
    BY <1>3, <2>1, <2>2, FS_EmptySet
<1>4. CASE phase[r] \in {"waiting", "sending"}
  <2>1. r \in Running /\ Tells(story, position[r])
    BY <1>1, <1>4 DEF StoryOf, Running
  <2>2. /\ Len(story) \in Nat \ {0}
        /\ \A i \in DOMAIN story : story[i] \notin EndTypes
        /\ Cardinality({i \in DOMAIN story : story[i] = "replay.step"}) = Len(story) - 1
    BY <1>1, <2>1, StoryRead
  <2>3. story # <<>> /\ Last(story) \notin EndTypes /\ Head(story) = "replay.started"
    BY <1>1, <1>2, <2>1, <2>2 DEF Last, Tells
  <2> QED
    BY <1>1, <1>4, <2>1, <2>2, <2>3 DEF Tells
<1>5. CASE phase[r] = "ended"
  <2> DEFINE told == SubSeq(story, 1, Len(story) - 1)
  <2>1. /\ Len(story) >= 2 /\ Tells(told, position[r]) /\ story[Len(story)] \in EndTypes
        /\ story[Len(story)] = "replay.completed" => position[r] = Total
        /\ r \notin Running
    BY <1>1, <1>5 DEF StoryOf, Running
  <2>2. Len(told) = Len(story) - 1 /\ \A i \in 1..(Len(story) - 1) : told[i] = story[i]
    <3>1. \A i \in 1..(Len(story) - 1) : story[i] \in ReportTypes
      BY <1>1, <1>2
    <3> QED
      BY <1>2, <2>1, <3>1, SubSeqProperties
  <2>3. DOMAIN told = 1..(Len(story) - 1)
    BY <2>1, <2>2, LenProperties DEF Tells
  <2> HIDE DEF told
  <2>4. /\ \A i \in 1..(Len(story) - 1) : story[i] \notin EndTypes
        /\ {i \in DOMAIN told : told[i] = "replay.step"} = 2..(Len(story) - 1)
        /\ Cardinality(2..(Len(story) - 1)) = Len(story) - 2
    BY <1>1, <1>2, <2>1, <2>2, <2>3, StoryRead
  <2>5. {i \in DOMAIN story : story[i] = "replay.step"} = 2..(Len(story) - 1)
    BY <1>2, <2>1, <2>2, <2>3, <2>4 DEF EndTypes
  <2>6. story # <<>> /\ Last(story) = story[Len(story)] /\ Head(story) = "replay.started"
    BY <1>1, <1>2, <2>1, <2>2 DEF Last, Tells
  <2>7. \A i \in DOMAIN story : story[i] \in EndTypes => i = Len(story)
    BY <1>2, <2>4
  <2>8. Len(story) - 2 <= position[r] /\ Len(story) - 2 >= Cardinality(WsSteps(1, position[r]))
    BY <1>2, <2>1, <2>2 DEF Tells
  <2> QED
    BY <1>5, <2>1, <2>4, <2>5, <2>6, <2>7, <2>8
<1> QED
  BY <1>3, <1>4, <1>5 DEF StoriesInv, LockTypes, StoryOf

LEMMA StoriesKept == Spec => []StoriesInv
<1>1. Init => StoriesInv
  <2> SUFFICES ASSUME Init, NEW r \in Triggers PROVE StoriesInv
    BY DEF Init, StoriesInv
  <2>1. 0 \in 0..Total
    BY SizesTyped
  <2> QED
    BY <2>1 DEF Init, StoriesInv, StoryOf, Running
<1>2. LockInv /\ StoriesInv /\ [Next]_vars => StoriesInv'
  <2> SUFFICES ASSUME LockTypes, StoriesInv, [Next]_vars PROVE StoriesInv'
    BY DEF LockInv
  <2>1. ASSUME NEW r \in Triggers, HeadArrives(r) \/ BodyRefused(r)
        PROVE  StoriesInv'
    BY <2>1, RequestKeepsStories
  <2>2. ASSUME NEW r \in Triggers, BodyAccepted(r)
        PROVE  StoriesInv'
    BY <2>2, StartKeepsStories
  <2>3. ASSUME NEW r \in Triggers, Continue(r)
        PROVE  StoriesInv'
    BY <2>3, ContinueKeepsStories
  <2>4. ASSUME NEW r \in Triggers, Settle(r)
        PROVE  StoriesInv'
    BY <2>4, SettleKeepsStories
  <2>5. CASE UNCHANGED <<phase, position, reports>>
    BY <2>5 DEF StoriesInv, StoryOf, Running
  <2>6. CASE Click
    <3>1. UNCHANGED <<position, reports>>
      BY <2>6 DEF Click
    <3>2. ASSUME NEW s \in Triggers PROVE StoryOf(s)'
      BY <2>6, <3>1 DEF Click, LockTypes, StoriesInv, StoryOf, Running
    <3> QED
      BY <3>1, <3>2 DEF StoriesInv
  <2> QED
    BY <2>1, <2>2, <2>3, <2>4, <2>5, <2>6
       DEF Next, WsSendSettles, HttpSendSettles, TargetSilent, OtherEvent, ClearEvents,
           AnswerArrives, FetchFails, Subscribe, StreamCloses, Receive, vars
<1> QED
  BY <1>1, <1>2, LockKept, PTL DEF Spec

\* The replay lock is held only while a replay runs, and unless two requests were read at a time
\* at most one replay runs and holds it (client/admin/server.js); and the log tells of every run
\* that it started, of its steps, and of its one end (client/index.js, replay/runner.js).
THEOREM ReplaysCorrect == Spec => []ReplaysConsistent
<1>1. LockInv => LockHonest
  BY DEF LockInv, LockHonest, Running, Inside
<1>2. LockInv /\ StoriesInv => RunsReported
  BY StoriesReported DEF LockInv
<1> QED
  BY <1>1, <1>2, LockKept, StoriesKept, PTL DEF ReplaysConsistent

-----------------------------------------------------------------------------
(* The page.                                                               *)

Events == [type : ReportTypes \cup {"request"}, turn : Nat]

\* The events that may be in the log or on their way to the page: the last start or end of a
\* replay, and only the last, tells whether one runs.
Sound ==
  {e \in Events :
     /\ e.turn <= log.turns
     /\ ~overlap /\ e.type \in TurnTypes /\ e.turn = log.turns
          => (e.type = "replay.started" <=> Running # {})}

Pages ==
  [running : BOOLEAN, click : {"none", "sent", "accepted", "refused"}, latest : Nat, cleared : Nat]

PageTypes ==
  /\ log \in [ring : Seq(Sound), turns : Nat]
  /\ stream \in [open : BOOLEAN, queue : Seq(Sound)]
  /\ page \in Pages

PageInv ==
  /\ PageTypes
  /\ page.latest <= log.turns /\ page.cleared <= log.turns
  /\ log.turns = 0 => Running = {}
  /\ ~overlap /\ page.latest = log.turns =>
       /\ page.running /\ page.click \in {"none", "accepted"} => Running # {}
       /\ Running # {} /\ page.cleared # log.turns => page.running

\* Events that were sound and still are.
LEMMA SoundStays ==
  ASSUME Sound \subseteq Sound', NEW s \in Seq(Sound)
  PROVE  s \in Seq(Sound')
<1> SUFFICES ASSUME NEW S, NEW T, S \subseteq T, NEW t \in Seq(S) PROVE t \in Seq(T)
  BY Zenon
<1> QED
  BY SeqMonotonic

\* An event log keeps the last of its events.
LEMMA EvictKeeps ==
  ASSUME NEW S, NEW ring \in Seq(S)
  PROVE  Evict(ring) \in Seq(S)
<1>1. MaxRing \in Nat /\ Len(ring) \in Nat
  BY SizesTyped, LenProperties
<1> DEFINE first == IF Len(ring) > MaxRing THEN Len(ring) - MaxRing + 1 ELSE 1
<1>2. first \in Int /\ first >= 1 /\ Len(ring) \in Int
  BY <1>1
<1> HIDE DEF first
<1>3. \A i \in first..Len(ring) : ring[i] \in S
  BY <1>1, <1>2, ElementOfSeq
<1>4. SubSeq(ring, first, Len(ring)) \in Seq(S)
  BY <1>2, <1>3, SubSeqProperties
<1> QED
  BY <1>4 DEF Evict, first

\* ClientEventLog.push: the log and the streams get sound events.
LEMMA PushKeepsTypes ==
  ASSUME PageTypes, Sound \subseteq Sound', NEW types \in Seq(ReportTypes), PushAll(types),
         \A i \in DOMAIN types :
           [type |-> types[i], turn |-> IF types[i] \in TurnTypes THEN log.turns' ELSE log.turns]
             \in Sound'
  PROVE  log' \in [ring : Seq(Sound'), turns : Nat]
         /\ stream' \in [open : BOOLEAN, queue : Seq(Sound')]
<1> DEFINE turns == IF \E i \in DOMAIN types : types[i] \in TurnTypes
                      THEN log.turns + 1 ELSE log.turns
           events == [i \in DOMAIN types |->
                        [type |-> types[i],
                         turn |-> IF types[i] \in TurnTypes THEN turns ELSE log.turns]]
           all == log.ring \o events
<1>1. /\ turns \in Nat
      /\ log' = [ring |-> Evict(all), turns |-> turns]
      /\ stream' = [stream EXCEPT !.queue = IF stream.open THEN @ \o events ELSE @]
  BY DEF PushAll, PageTypes
<1>2. turns = log.turns'
  BY <1>1
<1>3. events \in Seq(Sound')
  <2>1. \A i \in DOMAIN types : events[i] \in Sound'
    BY <1>2
  <2>2. Len(types) \in Nat /\ DOMAIN types = 1..Len(types)
    BY LenProperties
  <2> QED
    BY <2>1, <2>2
<1>4. log.ring \in Seq(Sound') /\ stream.queue \in Seq(Sound')
  BY SoundStays DEF PageTypes
<1> HIDE DEF events
<1>5. all \in Seq(Sound') /\ stream.queue \o events \in Seq(Sound')
  BY <1>3, <1>4, ConcatProperties
<1> HIDE DEF turns, all
<1>6. Evict(all) \in Seq(Sound')
  BY <1>5, EvictKeeps
<1>7. log' \in [ring : Seq(Sound'), turns : Nat]
  BY <1>1, <1>6
<1>8. stream' \in [open : BOOLEAN, queue : Seq(Sound')]
  BY <1>1, <1>4, <1>5 DEF PageTypes
<1> QED
  BY <1>7, <1>8

\* Reports of steps leave what the page and its events tell.
LEMMA StepsKeepPage ==
  ASSUME PageInv, NEW types \in Seq(ReportTypes), PushAll(types),
         \A i \in DOMAIN types : types[i] \notin TurnTypes,
         UNCHANGED <<overlap, page>>, Running' = Running
  PROVE  PageInv'
<1>1. log.turns \in Nat /\ log'.turns = log.turns
  BY DEF PushAll, PageInv, PageTypes
<1>2. Sound \subseteq Sound'
  BY <1>1 DEF Sound
<1>3. DOMAIN types = 1..Len(types)
  BY LenProperties
<1>4. ASSUME NEW i \in DOMAIN types
      PROVE  [type |-> types[i], turn |-> IF types[i] \in TurnTypes THEN log.turns' ELSE log.turns]
               \in Sound'
  <2>1. types[i] \in ReportTypes /\ types[i] \notin TurnTypes
    BY <1>3
  <2> QED
    BY <1>1, <2>1 DEF Sound, Events
<1>5. /\ log' \in [ring : Seq(Sound'), turns : Nat]
      /\ stream' \in [open : BOOLEAN, queue : Seq(Sound')]
  BY <1>2, <1>4, PushKeepsTypes DEF PageInv
<1>6. PageTypes'
  BY <1>5 DEF PageInv, PageTypes
<1> QED
  BY <1>1, <1>6 DEF PageInv

\* A start or an end of a replay is newer than what the page knows.
LEMMA TurnKeepsPage ==
  ASSUME PageInv, NEW types \in Seq(ReportTypes), PushAll(types), types # <<>>,
         \A i \in DOMAIN types : types[i] \in TurnTypes <=> i = Len(types),
         ~overlap => (types[Len(types)] = "replay.started" <=> Running' # {}),
         overlap' = overlap,
         page'.latest = page.latest, page'.cleared = page.cleared,
         page' \in Pages
  PROVE  PageInv'
<1>1. Len(types) \in Nat /\ DOMAIN types = 1..Len(types) /\ Len(types) \in DOMAIN types
  BY LenProperties
<1>2. log.turns \in Nat /\ log'.turns = log.turns + 1
  BY <1>1 DEF PushAll, PageInv, PageTypes
<1>3. Sound \subseteq Sound'
  BY <1>2 DEF Sound, Events
<1>4. ASSUME NEW i \in DOMAIN types
      PROVE  [type |-> types[i], turn |-> IF types[i] \in TurnTypes THEN log.turns' ELSE log.turns]
               \in Sound'
  <2>1. types[i] \in ReportTypes
    BY <1>1
  <2>2. CASE i = Len(types)
    BY <1>2, <2>1, <2>2 DEF Sound, Events
  <2>3. CASE i # Len(types)
    BY <1>2, <2>1, <2>3 DEF Sound, Events
  <2> QED
    BY <2>2, <2>3
<1>5. /\ log' \in [ring : Seq(Sound'), turns : Nat]
      /\ stream' \in [open : BOOLEAN, queue : Seq(Sound')]
  BY <1>3, <1>4, PushKeepsTypes DEF PageInv
<1>6. PageTypes'
  BY <1>5 DEF PageTypes
<1>7. /\ page'.latest <= log.turns /\ page'.latest \in Nat
      /\ page'.cleared <= log.turns /\ page'.cleared \in Nat
  BY DEF PageInv, Pages
<1> QED
  BY <1>2, <1>6, <1>7 DEF PageInv

\* The runner reports steps, or its end after them.
LEMMA ContinueKeepsPage ==
  ASSUME LockInv, StoriesInv, PageInv, NEW r \in Triggers, Continue(r)
  PROVE  PageInv'
<1>1. PICK n \in (position[r] + 1)..(Total + 1) :
        LET unread == UnreadableReports(position[r] + 1, n - 1) IN
        \/ phase' = [phase EXCEPT ![r] = "sending"] /\ PushAll(unread)
        \/ End(r) /\ PushAll(unread \o <<"replay.error">>)
        \/ End(r) /\ PushAll(unread \o <<"replay.completed">>)
  BY DEF Continue, Report
<1> DEFINE unread == UnreadableReports(position[r] + 1, n - 1)
           count == Cardinality(WsSteps(position[r] + 1, n - 1))
<1>2. position[r] \in Nat /\ n - 1 \in Nat /\ position[r] <= n - 1
  BY SizesTyped DEF StoriesInv
<1>3. count \in Nat
  BY <1>2, WsStepsCounted
<1>4. unread = [i \in 1..count |-> "replay.step"]
  BY DEF UnreadableReports
<1> HIDE DEF count
<1>5. /\ unread \in Seq(ReportTypes) /\ Len(unread) = count
      /\ \A i \in 1..count : unread[i] = "replay.step"
  BY <1>3, <1>4 DEF ReportTypes
<1>6. phase[r] = "waiting" /\ r \in Running /\ UNCHANGED <<overlap, page>>
  BY DEF Continue, Running
<1> HIDE DEF unread
<1>7. CASE phase' = [phase EXCEPT ![r] = "sending"] /\ PushAll(unread)
  <2>1. Running' = Running
    BY <1>6, <1>7 DEF LockInv, LockTypes, Running
  <2>2. DOMAIN unread = 1..count
    BY <1>5, LenProperties
  <2>3. \A i \in DOMAIN unread : unread[i] \notin TurnTypes
    BY <1>5, <2>2 DEF TurnTypes, EndTypes
  <2> QED
    BY <1>5, <1>6, <1>7, <2>1, <2>3, StepsKeepPage
<1>8. ASSUME NEW end \in EndTypes, End(r), PushAll(unread \o <<end>>)
      PROVE  PageInv'
  <2> DEFINE told == unread \o <<end>>
  <2>1. end \in ReportTypes /\ end # "replay.started" /\ end \in TurnTypes
    BY DEF ReportTypes, TurnTypes, EndTypes
  <2>2. told = Append(unread, end)
    BY <1>5, <2>1, AppendIsConcat
  <2>3. /\ told \in Seq(ReportTypes) /\ told # <<>> /\ Len(told) = count + 1
        /\ \A i \in 1..count : told[i] = "replay.step"
        /\ told[count + 1] = end
    BY <1>5, <2>1, <2>2, AppendProperties
  <2> HIDE DEF told
  <2>4. DOMAIN told = 1..(count + 1)
    BY <2>3, LenProperties
  <2>5. \A i \in DOMAIN told : told[i] \in TurnTypes <=> i = Len(told)
    BY <1>3, <2>1, <2>3, <2>4 DEF TurnTypes, EndTypes
  <2>6. ~overlap => Running' = {}
    BY <1>6, <1>8 DEF End, LockInv, LockTypes, Running, Inside
  <2>7. page \in Pages
    BY DEF PageInv, PageTypes
  <2>8. PushAll(told)
    BY <1>8 DEF told
  <2> QED
    BY <1>6, <2>1, <2>3, <2>5, <2>6, <2>7, <2>8, TurnKeepsPage
<1> QED
  BY <1>1, <1>7, <1>8 DEF unread, EndTypes

\* A step has settled.
LEMMA SettleKeepsPage ==
  ASSUME LockInv, PageInv, NEW r \in Triggers, Settle(r)
  PROVE  PageInv'
<1>1. Running' = Running /\ UNCHANGED <<overlap, page>>
  BY DEF Settle, LockInv, LockTypes, Running
<1>2. <<"replay.step">> \in Seq(ReportTypes) /\ DOMAIN <<"replay.step">> = {1}
  BY DEF ReportTypes
<1>3. \A i \in DOMAIN <<"replay.step">> : <<"replay.step">>[i] \notin TurnTypes
  BY <1>2 DEF TurnTypes, EndTypes
<1> QED
  BY <1>1, <1>2, <1>3, StepsKeepPage DEF Settle, Report

\* A replay starts.
LEMMA StartKeepsPage ==
  ASSUME LockInv, PageInv, NEW r \in Triggers, BodyAccepted(r)
  PROVE  PageInv'
<1> DEFINE told == <<"replay.started">>
<1>1. r \in Running' /\ overlap' = overlap /\ PushAll(told)
  BY DEF BodyAccepted, StartReplay, Report, LockInv, LockTypes, Running
<1>2. told \in Seq(ReportTypes) /\ told # <<>> /\ Len(told) = 1 /\ DOMAIN told = {1}
  BY DEF ReportTypes, TurnTypes
<1>3. told[1] = "replay.started" /\ told[1] \in TurnTypes
  BY DEF TurnTypes
<1>4. /\ page'.latest = page.latest /\ page'.cleared = page.cleared
      /\ page' \in Pages
  BY DEF BodyAccepted, Answered, PageInv, PageTypes, Pages
<1> HIDE DEF told
<1> QED
  BY <1>1, <1>2, <1>3, <1>4, TurnKeepsPage

\* A request is refused, or passes the lock.
LEMMA RequestKeepsPage ==
  ASSUME LockInv, PageInv, NEW r \in Triggers, HeadArrives(r) \/ BodyRefused(r)
  PROVE  PageInv'
<1>1. Running' = Running /\ UNCHANGED <<log, stream>> /\ (~overlap' => ~overlap)
  BY DEF HeadArrives, BodyRefused, LockInv, LockTypes, Running
<1>2. page' = page \/ page' = [page EXCEPT !.click = "refused"]
  BY DEF HeadArrives, BodyRefused, Answered, PageInv, PageTypes, Pages
<1>3. Sound \subseteq Sound'
  BY <1>1 DEF Sound
<1>4. log.ring \in Seq(Sound') /\ stream.queue \in Seq(Sound')
  BY <1>3, SoundStays DEF PageInv, PageTypes
<1>5. PageTypes'
  BY <1>1, <1>2, <1>4 DEF PageInv, PageTypes, Pages
<1> QED
  BY <1>1, <1>2, <1>5 DEF PageInv, PageTypes, Pages

\* Any other event.
LEMMA OtherKeepsPage ==
  ASSUME PageInv, OtherEvent
  PROVE  PageInv'
<1> DEFINE e == [type |-> "request", turn |-> log.turns]
<1>1. /\ UNCHANGED <<overlap, page, phase>> /\ Running' = Running
      /\ log' = [log EXCEPT !.ring = Evict(Append(@, e))]
      /\ stream' = [stream EXCEPT !.queue = IF stream.open THEN Append(@, e) ELSE @]
  BY DEF OtherEvent, Running
<1>2. log.turns \in Nat /\ log.ring \in Seq(Sound) /\ stream.queue \in Seq(Sound)
      /\ log'.turns = log.turns
  BY <1>1 DEF PageInv, PageTypes
<1>3. e \in Sound
  BY <1>2 DEF Sound, Events, TurnTypes, EndTypes
<1> HIDE DEF e
<1>4. Append(log.ring, e) \in Seq(Sound) /\ Append(stream.queue, e) \in Seq(Sound)
  BY <1>2, <1>3, AppendProperties
<1>5. Evict(Append(log.ring, e)) \in Seq(Sound)
  BY <1>4, EvictKeeps
<1>6. Sound' = Sound
  BY <1>1, <1>2 DEF Sound
<1>7. log' \in [ring : Seq(Sound), turns : Nat] /\ stream' \in [open : BOOLEAN, queue : Seq(Sound)]
  BY <1>1, <1>4, <1>5 DEF PageInv, PageTypes
<1>8. PageTypes'
  BY <1>1, <1>6, <1>7 DEF PageInv, PageTypes
<1> QED
  BY <1>1, <1>2, <1>8 DEF PageInv

LEMMA PageKept == Spec => []PageInv
<1>1. Init => PageInv
  BY DEF Init, PageInv, PageTypes, Pages, Running
<1>2. LockInv /\ StoriesInv /\ PageInv /\ [Next]_vars => PageInv'
  <2> SUFFICES ASSUME LockInv, StoriesInv, PageInv, [Next]_vars PROVE PageInv'
    OBVIOUS
  <2>1. ASSUME NEW r \in Triggers, HeadArrives(r) \/ BodyRefused(r)
        PROVE  PageInv'
    BY <2>1, RequestKeepsPage
  <2>2. ASSUME NEW r \in Triggers, BodyAccepted(r)
        PROVE  PageInv'
    BY <2>2, StartKeepsPage
  <2>3. ASSUME NEW r \in Triggers, Continue(r)
        PROVE  PageInv'
    BY <2>3, ContinueKeepsPage
  <2>4. ASSUME NEW r \in Triggers, Settle(r)
        PROVE  PageInv'
    BY <2>4, SettleKeepsPage
  <2>5. CASE OtherEvent
    BY <2>5, OtherKeepsPage
  <2>6. CASE ClearEvents
    <3>1. Sound' = Sound /\ Running' = Running /\ UNCHANGED <<stream, page, overlap>>
      BY <2>6 DEF ClearEvents, Sound, Running, PageInv, PageTypes
    <3>2. log' = [ring |-> <<>>, turns |-> log.turns] /\ log.turns \in Nat
      BY <2>6 DEF ClearEvents, PageInv, PageTypes
    <3>3. <<>> \in Seq(Sound)
      BY EmptySeq
    <3>4. PageTypes'
      BY <3>1, <3>2, <3>3 DEF PageInv, PageTypes
    <3> QED
      BY <3>1, <3>2, <3>4 DEF PageInv
  <2>7. CASE Click \/ AnswerArrives \/ FetchFails \/ Subscribe \/ StreamCloses \/ Receive
    <3>1. Running' = Running /\ UNCHANGED <<log, overlap>>
      BY <2>7 DEF Click, AnswerArrives, FetchFails, Subscribe, StreamCloses, Receive, Running,
                  LockInv, LockTypes
    <3>0. Sound' = Sound
      BY <3>1 DEF Sound
    <3>2. CASE Click
      BY <3>0, <3>1, <3>2 DEF Click, PageInv, PageTypes, Pages
    <3>3. CASE AnswerArrives \/ FetchFails
      <4>1. \/ page' = FlagCleared
            \/ page.click = "accepted" /\ page' = [page EXCEPT !.click = "none"]
        BY <3>3 DEF AnswerArrives, FetchFails
      <4>2. stream' = stream
        BY <3>3 DEF AnswerArrives, FetchFails
      <4> QED
        BY <3>0, <3>1, <4>1, <4>2 DEF FlagCleared, PageInv, PageTypes, Pages
    <3>4. CASE Subscribe
      BY <3>0, <3>1, <3>4 DEF Subscribe, PageInv, PageTypes
    <3>5. CASE StreamCloses
      BY <3>0, <3>1, <3>5 DEF StreamCloses, PageInv, PageTypes
    <3>6. CASE Receive
      <4> DEFINE e == Head(stream.queue)
      <4>1. e \in Sound /\ Tail(stream.queue) \in Seq(Sound)
        BY <3>6, HeadTailProperties DEF Receive, PageInv, PageTypes
      <4>2. /\ page' = [page EXCEPT !.running = RunsAfter(e.type, @),
                                    !.latest = IF e.type \in TurnTypes THEN e.turn ELSE @]
            /\ stream' = [stream EXCEPT !.queue = Tail(@)]
        BY <3>6 DEF Receive
      <4> HIDE DEF e
      <4>3. RunsAfter(e.type, page.running) \in BOOLEAN
        BY DEF RunsAfter, PageInv, PageTypes, Pages
      <4>4. PageTypes'
        BY <3>0, <3>1, <4>1, <4>2, <4>3 DEF PageInv, PageTypes, Pages, Sound, Events
      <4>5. CASE e.type \in TurnTypes
        BY <3>1, <4>1, <4>2, <4>4, <4>5
           DEF PageInv, PageTypes, Pages, Sound, Events, RunsAfter, TurnTypes, EndTypes
      <4>6. CASE e.type \notin TurnTypes
        BY <3>1, <4>1, <4>2, <4>4, <4>6
           DEF PageInv, PageTypes, Pages, RunsAfter, TurnTypes, EndTypes
      <4> QED
        BY <4>5, <4>6
    <3> QED
      BY <2>7, <3>2, <3>3, <3>4, <3>5, <3>6
  <2>8. CASE UNCHANGED <<phase, overlap, log, stream, page>>
    BY <2>8 DEF PageInv, PageTypes, Pages, Sound, Running
  <2> QED
    BY <2>1, <2>2, <2>3, <2>4, <2>5, <2>6, <2>7, <2>8
       DEF Next, WsSendSettles, HttpSendSettles, TargetSilent, vars
<1> QED
  BY <1>1, <1>2, LockKept, StoriesKept, PTL DEF Spec

\* A page that has read its stream and the last start or end of a replay shows one as running only
\* if one runs or its own request is under way, and a replay that runs unless its own request was
\* refused or failed since (client/admin/page.js, client/admin/event-log.js), whatever history it
\* read again.
THEOREM PageCorrect == Spec => []PageFollows
<1>1. PageInv => PageFollows
  BY DEF PageInv, PageFollows
<1> QED
  BY <1>1, PageKept, PTL

=============================================================================
