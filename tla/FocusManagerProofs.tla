--------------------------- MODULE FocusManagerProofs ---------------------------
(***************************************************************************)
(* Proofs about FocusManager, for any number of channels and activities,   *)
(* any interfaces, contents and interrupt model: the types, that the       *)
(* programs of the threads speak of channels and activities that exist,    *)
(* that an activity left behind by another's patience is always released   *)
(* by a timer, and that everybody knows its focus when nothing is left to  *)
(* do.                                                                     *)
(***************************************************************************)
EXTENDS FocusManager, SequenceTheorems, WellFoundedInduction, TLAPS

-----------------------------------------------------------------------------
(* Sequences and the highest channel *)

\* A set of numbers that is not empty has a least member.
LEMMA LeastExists ==
    ASSUME NEW S \in SUBSET Nat, S # {}
    PROVE  \E i \in S : \A j \in S : i <= j
<1>1. PICK i \in S : \A j \in S : ~(<<j, i>> \in OpToRel(<, Nat))
  BY NatLessThanWellFounded, WFMin
<1>2. \A j \in S : ~(j < i)
  BY <1>1 DEF OpToRel
<1> QED BY <1>2

\* The highest of some channels is one of them, and none is higher.
LEMMA HighestIsOne ==
    ASSUME NEW S \in SUBSET Channels, S # {}
    PROVE  HighestPriority(S) \in S /\ \A d \in S : HighestPriority(S) <= d
<1>1. \E i \in S : \A j \in S : i <= j
  BY FocusAssumption, LeastExists
<1> QED BY <1>1 DEF HighestPriority

\* RemoveAt closes the gap.
LEMMA RemoveAtIndex ==
    ASSUME NEW S, NEW q \in Seq(S), NEW i \in 1..Len(q)
    PROVE  /\ RemoveAt(q, i) \in Seq(S)
           /\ Len(RemoveAt(q, i)) = Len(q) - 1
           /\ \A j \in 1..(Len(q) - 1) : RemoveAt(q, i)[j] = IF j < i THEN q[j] ELSE q[j + 1]
<1> DEFINE a == SubSeq(q, 1, i - 1)
           b == SubSeq(q, i + 1, Len(q))
<1>1. a \in Seq(S) /\ Len(a) = i - 1 /\ \A j \in 1..(i - 1) : a[j] = q[j]
  OBVIOUS
<1>2. b \in Seq(S) /\ Len(b) = Len(q) - i /\ \A j \in 1..(Len(q) - i) : b[j] = q[i + j]
  OBVIOUS
<1>3. RemoveAt(q, i) = a \o b
  BY DEF RemoveAt
<1> HIDE DEF a, b
<1>4. a \o b \in Seq(S) /\ Len(a \o b) = Len(a) + Len(b)
  BY <1>1, <1>2, ConcatProperties
<1>5. Len(a \o b) = Len(q) - 1
  <2>1. Len(q) \in Nat /\ i \in Nat
    OBVIOUS
  <2> QED BY <1>1, <1>2, <1>4, <2>1
<1>6. ASSUME NEW j \in 1..(Len(q) - 1)
      PROVE  (a \o b)[j] = IF j < i THEN q[j] ELSE q[j + 1]
  BY <1>1, <1>2
<1> QED BY <1>3, <1>4, <1>5, <1>6

\* Of a channel's activities at most the given one goes, and the primary one stays if it is
\* another.
LEMMA WithoutKeeps ==
    ASSUME NEW s \in Seq(Activities), NEW a
    PROVE  /\ Without(s, a) \in Seq(Activities)
           /\ Range(Without(s, a)) \subseteq Range(s)
           /\ Range(s) \ {a} \subseteq Range(Without(s, a))
           /\ s # <<>> /\ Head(s) # a => Without(s, a) # <<>> /\ Head(Without(s, a)) = Head(s)
<1>1. CASE a \notin Range(s)
  BY <1>1 DEF Without
<1>2. CASE a \in Range(s)
  <2> DEFINE P(i) == s[i] = a /\ \A j \in 1..(i - 1) : s[j] # a
             S == {i \in DOMAIN s : s[i] = a}
             first == CHOOSE k \in DOMAIN s : P(k)
             w == Without(s, a)
  <2>1. S \in SUBSET Nat /\ S # {} /\ DOMAIN s = 1..Len(s) /\ Len(s) \in Nat
    BY <1>2 DEF Range
  <2>2. PICK i \in S : \A j \in S : i <= j
    BY <2>1, LeastExists
  <2>3. i \in DOMAIN s /\ P(i)
    BY <2>1, <2>2
  <2>4. first \in 1..Len(s) /\ s[first] = a
    BY <2>1, <2>3
  <2>5. w = RemoveAt(s, first)
    BY <1>2 DEF Without
  <2> HIDE DEF first, w, S, P
  <2>6. /\ w \in Seq(Activities) /\ Len(w) = Len(s) - 1
        /\ \A j \in 1..(Len(s) - 1) : w[j] = IF j < first THEN s[j] ELSE s[j + 1]
    BY <2>4, <2>5, RemoveAtIndex
  <2>7. DOMAIN w = 1..(Len(s) - 1) /\ DOMAIN s = 1..Len(s) /\ Len(s) \in Nat
    BY <2>6
  <2>8. Range(w) \subseteq Range(s)
    <3>1. ASSUME NEW j \in DOMAIN w PROVE w[j] \in Range(s)
      <4>1. w[j] = s[j] \/ w[j] = s[j + 1]
        BY <2>6, <2>7
      <4>2. j \in DOMAIN s /\ j + 1 \in DOMAIN s
        BY <2>7
      <4> QED BY <4>1, <4>2 DEF Range
    <3> QED BY <3>1 DEF Range
  <2>9. Range(s) \ {a} \subseteq Range(w)
    <3>1. ASSUME NEW j \in DOMAIN s, s[j] # a PROVE s[j] \in Range(w)
      <4>1. CASE j < first
        <5>1. j \in DOMAIN w /\ w[j] = s[j]
          BY <2>4, <2>6, <2>7, <4>1
        <5> QED BY <5>1 DEF Range
      <4>2. CASE j > first
        <5>1. j - 1 \in DOMAIN w /\ w[j - 1] = s[j]
          BY <2>4, <2>6, <2>7, <4>2
        <5> QED BY <5>1 DEF Range
      <4> QED BY <2>4, <2>7, <3>1, <4>1, <4>2
    <3> QED BY <3>1 DEF Range
  <2>10. ASSUME s # <<>>, Head(s) # a PROVE w # <<>> /\ Head(w) = Head(s)
    <3>1. Head(s) = s[1] /\ 1 \in DOMAIN s
      BY <2>10
    <3>2. first > 1
      BY <2>4, <2>10, <3>1
    <3>3. Len(w) > 0 /\ w[1] = s[1]
      BY <2>4, <2>6, <2>7, <3>2
    <3> QED BY <2>6, <3>1, <3>3
  <2> QED BY <2>6, <2>8, <2>9, <2>10 DEF w
<1> QED BY <1>1, <1>2


-----------------------------------------------------------------------------
(* Types *)

Interfaces == {interfaceOf[a] : a \in Activities} \cup {None}

ChannelType ==
    [activities : Seq(Activities), focusState : Focuses,
     initiator : Activities \cup {None}, receiver : Activities \cup {None},
     timer : {"off", "running", "fired", "done", "ending"}, stopping : BOOLEAN,
     expiring : Activities \cup {None}]

\* The operations of the threads' programs.
Ops ==
    [op : {"acquire", "setPrimary"}, a : Activities]
    \cup [op : {"release", "stop"}, c : Channels, i : Interfaces]
    \cup [op : {"stopAll"}, pairs : SUBSET (Channels \X Interfaces)]
    \cup [op : {"clear"}, c : Channels]
    \cup [op : {"foreground", "modified"}]
    \cup [op : {"background"}, c : Channels, at : Channels]
    \cup [op : {"behind"}, c : Channels, d : Channels]
    \cup [op : {"focus"}, c : Channels, f : Focuses, b : Mixings, force : BOOLEAN]
    \cup [op : {"notify"}, c : Channels, f : Focuses, b : Mixings]
    \cup [op : {"tell"}, a : Activities, f : Focuses, b : Mixings]

ToldTypes == told \in [Activities -> Focuses] /\ m_mixingBehavior \in [Activities -> Mixings]

\* Every operation that is still to be done is about channels and activities that exist, and
\* every channel holds activities.
TypeOK ==
    /\ channel \in [Channels -> ChannelType]
    /\ m_activeChannels \subseteq Channels
    /\ queue \in Seq(Ops) /\ todo \in [Threads -> Seq(Ops)] /\ captured \in Ops \cup {None}
    /\ ToldTypes
    /\ m_contentType \in [Activities -> ContentTypes]
    /\ cutShort \in BOOLEAN

\* What the constants are, one by one.
LEMMA ConstantsAre ==
    /\ Channels \subseteq Nat /\ None \notin Channels /\ None \notin Activities
    /\ \A a \in Activities : channelOf[a] \in Channels /\ interfaceOf[a] \in Interfaces
    /\ contentOf \in [Activities -> ContentTypes]
    /\ \A x, y \in ContentTypes : InterruptModel[x, y] \in Mixings
<1>1. \A x, y \in ContentTypes : InterruptModel[x, y] \in Mixings
  BY FocusAssumption
<1> QED BY <1>1, FocusAssumption DEF Interfaces

\* The fields of an operation, told by its name.
LEMMA OpFields ==
    ASSUME NEW o \in Ops
    PROVE  /\ o.op \in {"acquire", "setPrimary"} => o.a \in Activities
           /\ o.op \in {"release", "stop"} => o.c \in Channels /\ o.i \in Interfaces
           /\ o.op = "stopAll" => o.pairs \subseteq Channels \X Interfaces
           /\ o.op = "clear" => o.c \in Channels
           /\ o.op = "background" => o.c \in Channels /\ o.at \in Channels
           /\ o.op = "behind" => o.c \in Channels /\ o.d \in Channels
           /\ o.op = "focus" => o.c \in Channels /\ o.f \in Focuses /\ o.b \in Mixings
           /\ o.op = "notify" => o.c \in Channels /\ o.f \in Focuses /\ o.b \in Mixings
           /\ o.op = "tell" => o.a \in Activities /\ o.f \in Focuses /\ o.b \in Mixings
BY DEF Ops

\* The operations are built from what they are about.
LEMMA OpTypes ==
    /\ \A a \in Activities : Acquire(a) \in Ops /\ SetPrimary(a) \in Ops
    /\ \A c \in Channels, i \in Interfaces : Release(c, i) \in Ops /\ Stop(c, i) \in Ops
    /\ \A pairs \in SUBSET (Channels \X Interfaces) : StopAll(pairs) \in Ops
    /\ \A c \in Channels : Clear(c) \in Ops
    /\ Foreground \in Ops /\ [op |-> "modified"] \in Ops
    /\ \A c, d \in Channels : Background(c, d) \in Ops /\ Behind(c, d) \in Ops
    /\ \A c \in Channels, f \in Focuses, b \in Mixings :
          Notify(c, f, b) \in Ops /\ Focus(c, f, b, TRUE) \in Ops /\ Focus(c, f, b, FALSE) \in Ops
    /\ \A a \in Activities, f \in Focuses, b \in Mixings : Tell(a, f, b) \in Ops
<1>1. \A a \in Activities : Acquire(a) \in Ops /\ SetPrimary(a) \in Ops
  BY DEF Ops, Acquire, SetPrimary
<1>2. \A c \in Channels, i \in Interfaces : Release(c, i) \in Ops /\ Stop(c, i) \in Ops
  BY DEF Ops, Release, Stop
<1>3. \A pairs \in SUBSET (Channels \X Interfaces) : StopAll(pairs) \in Ops
  BY DEF Ops, StopAll
<1>4. \A c \in Channels : Clear(c) \in Ops
  BY DEF Ops, Clear
<1>5. Foreground \in Ops /\ [op |-> "modified"] \in Ops
  BY DEF Ops, Foreground
<1>6. \A c, d \in Channels : Background(c, d) \in Ops /\ Behind(c, d) \in Ops
  BY DEF Ops, Background, Behind
<1>7. \A c \in Channels, f \in Focuses, b \in Mixings :
          Notify(c, f, b) \in Ops /\ Focus(c, f, b, TRUE) \in Ops /\ Focus(c, f, b, FALSE) \in Ops
  BY DEF Ops, Notify, Focus
<1>8. \A a \in Activities, f \in Focuses, b \in Mixings : Tell(a, f, b) \in Ops
  BY DEF Ops, Tell
<1> QED BY <1>1, <1>2, <1>3, <1>4, <1>5, <1>6, <1>7, <1>8

\* A thread that goes on with operations goes on with operations.
LEMMA ThenTypes ==
    ASSUME TypeOK, NEW t \in Threads, todo[t] # <<>>, NEW ops \in Seq(Ops), Then(t, ops)
    PROVE  todo' \in [Threads -> Seq(Ops)]
<1>1. todo[t] \in Seq(Ops)
  BY DEF TypeOK
<1>2. Tail(todo[t]) \in Seq(Ops)
  BY <1>1
<1>3. ops \o Tail(todo[t]) \in Seq(Ops)
  BY <1>2, ConcatProperties
<1> QED BY <1>3 DEF Then, TypeOK

\* The operation that a thread has next.
LEMMA NextOp ==
    ASSUME TypeOK, NEW t \in Threads, NEW op, Next1(t, op)
    PROVE  todo[t] # <<>> /\ Head(todo[t]) \in Ops /\ Head(todo[t]).op = op
BY DEF TypeOK, Next1

\* The activity at the head of a channel and its interface.
LEMMA InterfaceType ==
    ASSUME TypeOK, NEW c \in Channels
    PROVE  Interface(c) \in Interfaces
<1>1. channel[c].activities \in Seq(Activities)
  BY DEF TypeOK, ChannelType
<1>2. channel[c].activities # <<>> => Head(channel[c].activities) \in Activities
  BY <1>1
<1> QED BY <1>2 DEF Interface, Interfaces

\* What the interrupt model says of two channels.
LEMMA MixingType ==
    ASSUME TypeOK, NEW c \in Channels, NEW d \in Channels
    PROVE  getMixingBehavior(c, d) \in Mixings
<1>1. channel[c].activities \in Seq(Activities) /\ channel[d].activities \in Seq(Activities)
  BY DEF TypeOK, ChannelType
<1>2. /\ channel[c].activities # <<>> => Head(channel[c].activities) \in Activities
      /\ channel[d].activities # <<>> => Head(channel[d].activities) \in Activities
  BY <1>1
<1>3. \A a, b \in Activities : InterruptModel[m_contentType[a], m_contentType[b]] \in Mixings
  BY ConstantsAre DEF TypeOK
<1>4. "UNDEFINED" \in Mixings
  BY DEF Mixings
<1> QED BY <1>2, <1>3, <1>4 DEF getMixingBehavior

\* Whoever goes is told that it has no focus.
LEMMA TellReleasedTypes ==
    ASSUME ToldTypes, NEW c, NEW ch, TellReleased(c, ch)
    PROVE  ToldTypes'
<1>1. "NONE" \in Focuses /\ "MUST_STOP" \in Mixings
  BY DEF Focuses, Mixings
<1> QED BY <1>1 DEF ToldTypes, TellReleased

-----------------------------------------------------------------------------
(* A channel and its patience *)

\* An activity that waits behind another's patience: the timer that will release it runs,
\* for the one that is in front, and it is still there.
Waits(ch) ==
    ch.receiver # None =>
        /\ ch.timer \in {"running", "fired"} /\ ch.expiring = ch.receiver
        /\ ch.activities # <<>> /\ ch.initiator = Head(ch.activities)
        /\ ch.receiver \in Range(ch.activities) /\ ch.receiver # ch.initiator

\* The timer that runs was not told to stop before it started.
Fresh(ch) == ch.timer = "running" => ~ch.stopping

\* A stopped timer changes nothing else of its channel.
LEMMA StoppedChannel ==
    ASSUME NEW ch \in ChannelType
    PROVE  /\ Stopped(ch) \in ChannelType /\ Stopped(ch).timer = "off"
           /\ Stopped(ch).activities = ch.activities /\ Stopped(ch).initiator = ch.initiator
           /\ Stopped(ch).receiver = ch.receiver /\ Stopped(ch).expiring = ch.expiring
BY DEF Stopped, ChannelType

\* Removing an activity of the patience ends the patience; removing another leaves it.
LEMMA RemovedChannel ==
    ASSUME NEW ch \in ChannelType, NEW a
    PROVE  LET n == removeActivityHelperLocked(ch, a)
           IN  /\ n \in ChannelType
               /\ n.activities = Without(ch.activities, a)
               /\ InPatience(ch, a) => n.receiver = None /\ n.initiator = None /\ n.timer = "off"
               /\ ~InPatience(ch, a) => n.receiver = ch.receiver /\ n.initiator = ch.initiator
                     /\ n.timer = ch.timer /\ n.expiring = ch.expiring /\ n.stopping = ch.stopping
<1> DEFINE s == IF InPatience(ch, a) THEN [Stopped(ch) EXCEPT !.initiator = None, !.receiver = None]
                ELSE ch
<1>1. /\ s \in ChannelType /\ s.activities = ch.activities
      /\ InPatience(ch, a) => s.receiver = None /\ s.initiator = None /\ s.timer = "off"
  <2>1. CASE InPatience(ch, a)
    <3>1. s = [Stopped(ch) EXCEPT !.initiator = None, !.receiver = None]
      BY <2>1
    <3> HIDE DEF s
    <3> QED BY <3>1, StoppedChannel DEF ChannelType
  <2>2. CASE ~InPatience(ch, a)
    BY <2>2
  <2> QED BY <2>1, <2>2
<1>2. ~InPatience(ch, a) => s = ch
  OBVIOUS
<1>3. removeActivityHelperLocked(ch, a) = [s EXCEPT !.activities = Without(s.activities, a)]
  BY DEF removeActivityHelperLocked
<1> HIDE DEF s
<1>4. Without(s.activities, a) \in Seq(Activities)
  BY <1>1, WithoutKeeps DEF ChannelType
<1> DEFINE n == [s EXCEPT !.activities = Without(s.activities, a)]
<1>5. /\ n \in ChannelType /\ n.activities = Without(s.activities, a)
      /\ n.receiver = s.receiver /\ n.initiator = s.initiator /\ n.timer = s.timer
      /\ n.expiring = s.expiring /\ n.stopping = s.stopping
  BY <1>1, <1>4 DEF ChannelType
<1> HIDE DEF n
<1> QED BY <1>1, <1>2, <1>3, <1>5 DEF n

\* Whoever is released, those who wait still wait for a timer.
LEMMA RemovedWaits ==
    ASSUME NEW ch \in ChannelType, NEW a, Waits(ch), Fresh(ch)
    PROVE  Waits(removeActivityHelperLocked(ch, a)) /\ Fresh(removeActivityHelperLocked(ch, a))
<1> DEFINE n == removeActivityHelperLocked(ch, a)
<1>1. /\ n.activities = Without(ch.activities, a)
      /\ InPatience(ch, a) => n.receiver = None /\ n.initiator = None /\ n.timer = "off"
      /\ ~InPatience(ch, a) => n.receiver = ch.receiver /\ n.initiator = ch.initiator
            /\ n.timer = ch.timer /\ n.expiring = ch.expiring /\ n.stopping = ch.stopping
  BY RemovedChannel
<1> SUFFICES Waits(n) /\ Fresh(n)
  OBVIOUS
<1> HIDE DEF n
<1>2. CASE InPatience(ch, a)
  BY <1>1, <1>2 DEF Waits, Fresh
<1>3. CASE ~InPatience(ch, a)
  <2>1. Fresh(n)
    BY <1>1, <1>3 DEF Fresh
  <2>2. ASSUME n.receiver # None
        PROVE  /\ n.timer \in {"running", "fired"} /\ n.expiring = n.receiver
               /\ n.activities # <<>> /\ n.initiator = Head(n.activities)
               /\ n.receiver \in Range(n.activities) /\ n.receiver # n.initiator
    <3>1. /\ ch.timer \in {"running", "fired"} /\ ch.expiring = ch.receiver
          /\ ch.activities # <<>> /\ ch.initiator = Head(ch.activities)
          /\ ch.receiver \in Range(ch.activities) /\ ch.receiver # ch.initiator
      BY <1>1, <1>3, <2>2 DEF Waits
    <3>2. a # ch.initiator /\ a # ch.receiver
      BY <1>3, <3>1 DEF InPatience
    <3>3. ch.activities \in Seq(Activities)
      BY DEF ChannelType
    <3>4. /\ Without(ch.activities, a) # <<>>
          /\ Head(Without(ch.activities, a)) = Head(ch.activities)
          /\ ch.receiver \in Range(Without(ch.activities, a))
      BY <3>1, <3>2, <3>3, WithoutKeeps
    <3> QED BY <1>1, <1>3, <3>1, <3>4
  <2> QED BY <2>1, <2>2 DEF Waits
<1> QED BY <1>2, <1>3

\* releaseActivityLocked removes the activity if it is there.
LEMMA ReleasedChannel ==
    ASSUME NEW ch \in ChannelType, NEW a
    PROVE  LET n == releaseActivityLocked(ch, a)
           IN  /\ n \in ChannelType
               /\ n.receiver = None \/ n.receiver = ch.receiver
               /\ Range(ch.activities) \ {a} \subseteq Range(n.activities)
               /\ a \in Range(ch.activities) /\ InPatience(ch, a) => n.receiver = None
               /\ n.timer = "running" => ch.timer = "running" /\ n.stopping = ch.stopping
<1>1. CASE a \in Range(ch.activities)
  <2> DEFINE n == removeActivityHelperLocked(ch, a)
  <2>1. /\ n \in ChannelType
        /\ n.activities = Without(ch.activities, a)
        /\ InPatience(ch, a) => n.receiver = None /\ n.initiator = None /\ n.timer = "off"
        /\ ~InPatience(ch, a) => n.receiver = ch.receiver /\ n.initiator = ch.initiator
              /\ n.timer = ch.timer /\ n.expiring = ch.expiring /\ n.stopping = ch.stopping
    BY RemovedChannel
  <2>2. releaseActivityLocked(ch, a) = n
    BY <1>1 DEF releaseActivityLocked
  <2> HIDE DEF n
  <2>3. Range(ch.activities) \ {a} \subseteq Range(n.activities)
    BY <2>1, WithoutKeeps DEF ChannelType
  <2> QED BY <2>1, <2>2, <2>3
<1>2. CASE a \notin Range(ch.activities)
  BY <1>2 DEF releaseActivityLocked
<1> QED BY <1>1, <1>2

\* The arrival of a on a channel that has activities, before it becomes the primary one: the
\* policy keeps the channel in order, and one that waits was waiting for a or is the former
\* primary activity.
LEMMA PolicyChannel ==
    ASSUME NEW ch \in ChannelType, NEW a \in Activities, ch.activities # <<>>
    PROVE  LET n == processPolicyLocked(ch, a)
           IN  /\ n \in ChannelType
               /\ Waits(ch) /\ n.receiver # None =>
                     /\ n.timer = "running" /\ n.expiring = n.receiver /\ n.initiator = a
                     /\ n.receiver \in Range(n.activities) /\ n.receiver # a
<1> DEFINE current == Head(ch.activities)
           ended == IF ch.timer = "off" THEN ch
                    ELSE [releaseActivityLocked(Stopped(ch), ch.receiver) EXCEPT !.receiver = None]
           alone == [releaseActivityLocked(ended, ended.initiator) EXCEPT !.initiator = None]
<1>1. /\ current \in Activities /\ current \in Range(ch.activities) /\ ch.activities \in Seq(Activities)
      /\ None \notin Activities
  <2>1. ch.activities \in Seq(Activities)
    BY DEF ChannelType
  <2>2. 1 \in DOMAIN ch.activities /\ current = ch.activities[1] /\ current \in Activities
    BY <2>1
  <2> QED BY <2>1, <2>2, ConstantsAre DEF Range
<1>2. /\ ended \in ChannelType
      /\ Waits(ch) => ended.receiver = None /\ current \in Range(ended.activities)
  <2>1. CASE ch.timer = "off"
    <3>1. ended = ch
      BY <2>1
    <3> QED BY <1>1, <2>1, <3>1 DEF Waits
  <2>2. CASE ch.timer # "off"
    <3> DEFINE s == Stopped(ch)
               r == releaseActivityLocked(s, ch.receiver)
    <3>1. s \in ChannelType /\ s.activities = ch.activities
      BY StoppedChannel
    <3> HIDE DEF s
    <3>2. r \in ChannelType /\ Range(s.activities) \ {ch.receiver} \subseteq Range(r.activities)
      BY <3>1, ReleasedChannel
    <3>3. ended = [r EXCEPT !.receiver = None]
      BY <2>2 DEF s
    <3> HIDE DEF r
    <3>4. ended \in ChannelType /\ ended.receiver = None /\ ended.activities = r.activities
      BY <3>2, <3>3 DEF ChannelType
    <3>5. Waits(ch) => current # ch.receiver
      BY <1>1 DEF Waits
    <3> HIDE DEF ended
    <3> QED BY <1>1, <3>1, <3>2, <3>4, <3>5
  <2> QED BY <2>1, <2>2
<1> HIDE DEF ended
<1>3. alone \in ChannelType /\ (ended.receiver = None => alone.receiver = None)
  <2> DEFINE r == releaseActivityLocked(ended, ended.initiator)
  <2>1. r \in ChannelType /\ (r.receiver = None \/ r.receiver = ended.receiver)
    BY <1>2, ReleasedChannel
  <2>2. alone = [r EXCEPT !.initiator = None]
    OBVIOUS
  <2> HIDE DEF r, alone
  <2> QED BY <2>1, <2>2 DEF ChannelType
<1> HIDE DEF alone, current
<1> DEFINE n == processPolicyLocked(ch, a)
           goal == /\ n \in ChannelType
                   /\ Waits(ch) /\ n.receiver # None =>
                         /\ n.timer = "running" /\ n.expiring = n.receiver /\ n.initiator = a
                         /\ n.receiver \in Range(n.activities) /\ n.receiver # a
<1> SUFFICES goal
  OBVIOUS
<1>4. CASE interfaceOf[a] = interfaceOf[current]
  <2>1. n = releaseActivityLocked(ch, current)
    BY <1>4 DEF processPolicyLocked, current
  <2> HIDE DEF n
  <2>2. /\ n \in ChannelType /\ (n.receiver = None \/ n.receiver = ch.receiver)
        /\ InPatience(ch, current) => n.receiver = None
    BY <1>1, <2>1, ReleasedChannel
  <2>3. Waits(ch) /\ ch.receiver # None => InPatience(ch, current)
    BY DEF Waits, InPatience, current
  <2> QED BY <2>2, <2>3
<1>5. CASE interfaceOf[a] # interfaceOf[current] /\ a \in Patient
  <2>1. n = [ended EXCEPT !.timer = "running", !.expiring = current, !.initiator = a, !.receiver = current]
    BY <1>5 DEF processPolicyLocked, current, ended
  <2> HIDE DEF n
  <2>2. /\ n \in ChannelType /\ n.timer = "running" /\ n.expiring = current /\ n.initiator = a
        /\ n.receiver = current /\ n.activities = ended.activities
    BY <1>1, <1>2, <2>1 DEF ChannelType
  <2>3. current # a
    BY <1>5
  <2> QED BY <1>2, <2>2, <2>3
<1>6. CASE interfaceOf[a] # interfaceOf[current] /\ a \notin Patient
  <2>1. n = releaseActivityLocked(alone, current)
    BY <1>6 DEF processPolicyLocked, current, ended, alone
  <2> HIDE DEF n
  <2>2. n \in ChannelType /\ (n.receiver = None \/ n.receiver = alone.receiver)
    BY <1>3, <2>1, ReleasedChannel
  <2> QED BY <1>2, <1>3, <2>2
<1> QED BY <1>4, <1>5, <1>6

\* The arrival becomes the primary activity, in front of the ones that stay.
LEMMA ArrivalChannel ==
    ASSUME NEW ch \in ChannelType, NEW a \in Activities
    PROVE  LET n == setPrimaryActivity(ch, a)
           IN  /\ n \in ChannelType
               /\ Waits(ch) => Waits(n)
<1> DEFINE before == IF ch.activities = <<>> THEN ch ELSE processPolicyLocked(ch, a)
           n == setPrimaryActivity(ch, a)
<1>1. /\ before \in ChannelType
      /\ Waits(ch) /\ before.receiver # None =>
            /\ before.timer = "running" /\ before.expiring = before.receiver /\ before.initiator = a
            /\ before.receiver \in Range(before.activities) /\ before.receiver # a
  <2>1. CASE ch.activities = <<>>
    BY <2>1 DEF Waits
  <2>2. CASE ch.activities # <<>>
    <3>1. before = processPolicyLocked(ch, a)
      BY <2>2
    <3> HIDE DEF before
    <3> QED BY <2>2, <3>1, PolicyChannel
  <2> QED BY <2>1, <2>2
<1>2. n = [before EXCEPT !.activities = <<a>> \o before.activities]
  BY DEF setPrimaryActivity
<1> HIDE DEF before, n
<1>3. before.activities \in Seq(Activities)
  BY <1>1 DEF ChannelType
<1> DEFINE all == <<a>> \o before.activities
<1>4. /\ all \in Seq(Activities) /\ all # <<>> /\ Head(all) = a
      /\ Range(before.activities) \subseteq Range(all)
  <2>1. <<a>> \in Seq(Activities) /\ Len(<<a>>) = 1 /\ <<a>>[1] = a
    OBVIOUS
  <2>2. /\ all \in Seq(Activities) /\ Len(all) = 1 + Len(before.activities)
        /\ \A i \in 1..(1 + Len(before.activities)) :
              all[i] = IF i <= 1 THEN <<a>>[i] ELSE before.activities[i - 1]
    <3> HIDE DEF all
    <3>1. all = <<a>> \o before.activities
      BY DEF all
    <3> QED BY <1>3, <2>1, <3>1, ConcatProperties
  <2> HIDE DEF all
  <2>3. DOMAIN all = 1..(1 + Len(before.activities)) /\ Len(before.activities) \in Nat
    BY <1>3, <2>2
  <2>4. all # <<>> /\ Head(all) = a
    BY <2>1, <2>2, <2>3
  <2>5. ASSUME NEW i \in DOMAIN before.activities PROVE before.activities[i] \in Range(all)
    <3>1. i + 1 \in DOMAIN all /\ all[i + 1] = before.activities[i]
      BY <1>3, <2>2, <2>3
    <3> QED BY <3>1 DEF Range
  <2> QED BY <2>2, <2>4, <2>5 DEF Range
<1> HIDE DEF all
<1>5. /\ n \in ChannelType /\ n.activities = all /\ n.receiver = before.receiver
      /\ n.initiator = before.initiator /\ n.timer = before.timer /\ n.expiring = before.expiring
  BY <1>1, <1>2, <1>4 DEF ChannelType, all
<1>6. Waits(ch) => Waits(n)
  BY <1>1, <1>4, <1>5 DEF Waits
<1> QED BY <1>5, <1>6 DEF n

-----------------------------------------------------------------------------
(* Every step keeps the types *)

\* The executor and the caller are threads.
LEMMA TwoThreads == "executor" \in Threads /\ "caller" \in Threads
BY DEF Threads

\* One operation, and two, are a program.
LEMMA ShortPrograms ==
    /\ <<>> \in Seq(Ops)
    /\ \A o \in Ops : <<o>> \in Seq(Ops)
    /\ \A o, p \in Ops : <<o, p>> \in Seq(Ops)
OBVIOUS

\* The highest active channel is a channel, if there is one.
LEMMA HighestType ==
    ASSUME TypeOK, m_activeChannels # {}
    PROVE  getHighestPriorityActiveChannelLocked \in m_activeChannels
BY HighestIsOne DEF TypeOK, getHighestPriorityActiveChannelLocked

\* A change of a channel by the executor.
LEMMA ChangesTypes ==
    ASSUME TypeOK, NEW c \in Channels, NEW ch \in ChannelType, NEW joins, NEW ops \in Seq(Ops),
           todo["executor"] # <<>>, Changes(c, ch, joins, ops)
    PROVE  channel' \in [Channels -> ChannelType] /\ ToldTypes' /\ todo' \in [Threads -> Seq(Ops)]
<1>1. CASE joins /\ channel[c].timer = "fired"
  <2>1. UNCHANGED <<channel, toldVars, todo>>
    BY <1>1 DEF Changes
  <2> QED BY <2>1 DEF TypeOK, ToldTypes, toldVars
<1>2. CASE ~(joins /\ channel[c].timer = "fired")
  <2>1. channel' = [channel EXCEPT ![c] = ch] /\ TellReleased(c, ch) /\ Then("executor", ops)
    BY <1>2 DEF Changes
  <2>2. channel' \in [Channels -> ChannelType]
    BY <2>1 DEF TypeOK
  <2>3. ToldTypes'
    BY <2>1, TellReleasedTypes DEF TypeOK
  <2>4. todo' \in [Threads -> Seq(Ops)]
    BY <2>1, ThenTypes, TwoThreads
  <2> QED BY <2>2, <2>3, <2>4
<1> QED BY <1>1, <1>2

\* A release on a channel.
LEMMA ReleaseTypes ==
    ASSUME TypeOK, NEW c \in Channels, NEW i, NEW ops \in Seq(Ops), todo["executor"] # <<>>,
           releaseActivity(c, i, ops)
    PROVE  channel' \in [Channels -> ChannelType] /\ ToldTypes' /\ todo' \in [Threads -> Seq(Ops)]
<1> DEFINE a == Owner(c, i)
<1>1. CASE a = None
  <2>1. Then("executor", ops) /\ UNCHANGED <<channel, toldVars>>
    BY <1>1 DEF releaseActivity
  <2>2. todo' \in [Threads -> Seq(Ops)]
    BY <2>1, ThenTypes, TwoThreads
  <2> QED BY <2>1, <2>2 DEF TypeOK, ToldTypes, toldVars
<1>2. CASE a # None
  <2>1. Changes(c, removeActivityHelperLocked(channel[c], a), InPatience(channel[c], a), ops)
    BY <1>2 DEF releaseActivity
  <2>2. channel[c] \in ChannelType
    BY DEF TypeOK
  <2> HIDE DEF a
  <2>3. removeActivityHelperLocked(channel[c], a) \in ChannelType
    BY <2>2, RemovedChannel
  <2> QED BY <2>1, <2>3, ChangesTypes
<1> QED BY <1>1, <1>2

\* The loop over the active channels goes on with a channel, or ends.
LEMMA FollowingType ==
    ASSUME TypeOK, NEW at, NEW d \in Following(at)
    PROVE  d = None \/ d \in Channels
<1> DEFINE rest == {e \in m_activeChannels : e > at}
<1>1. rest \subseteq Channels /\ m_activeChannels \subseteq Channels
  BY DEF TypeOK
<1>2. HighestPriority(rest) = None \/ HighestPriority(rest) \in Channels
  <2>1. CASE rest = {}
    BY <2>1 DEF HighestPriority
  <2>2. CASE rest # {}
    <3> HIDE DEF rest
    <3> QED BY <1>1, <2>2, HighestIsOne
  <2> QED BY <2>1, <2>2
<1> QED BY <1>1, <1>2 DEF Following

\* The steps that the executor and the caller share.
LEMMA ThreadStepsTypes ==
    ASSUME TypeOK, NEW t \in Threads, ThreadSteps(t)
    PROVE  TypeOK'
<1> DEFINE o == Head(todo[t])
<1>1. CASE setFocus(t)
  <2>1. /\ o \in Ops /\ o.op = "focus" /\ todo[t] # <<>>
        /\ o.c \in Channels /\ o.f \in Focuses /\ o.b \in Mixings
    BY <1>1, NextOp, OpFields DEF setFocus
  <2> DEFINE acts == channel[o.c].activities
             changed == \/ o.force \/ channel[o.c].focusState # o.f
                        \/ acts # <<>> /\ m_mixingBehavior[Head(acts)] # o.b
  <2>2. /\ Then(t, IF changed THEN <<Notify(o.c, o.f, o.b)>> ELSE <<>>)
        /\ channel' = IF changed THEN [channel EXCEPT ![o.c].focusState = o.f] ELSE channel
        /\ UNCHANGED <<m_activeChannels, queue, callVars, toldVars, m_contentType, cutShort>>
    BY <1>1 DEF setFocus
  <2> HIDE DEF changed
  <2>3. (IF changed THEN <<Notify(o.c, o.f, o.b)>> ELSE <<>>) \in Seq(Ops)
    BY <2>1, OpTypes, ShortPrograms
  <2>4. todo' \in [Threads -> Seq(Ops)]
    BY <2>1, <2>2, <2>3, ThenTypes
  <2>5. channel' \in [Channels -> ChannelType]
    <3>1. channel[o.c] \in ChannelType
      BY <2>1 DEF TypeOK
    <3>2. [channel[o.c] EXCEPT !.focusState = o.f] \in ChannelType
      BY <2>1, <3>1 DEF ChannelType
    <3> QED BY <2>2, <3>2 DEF TypeOK
  <2> QED BY <2>2, <2>4, <2>5 DEF TypeOK, ToldTypes, toldVars, callVars
<1>2. CASE notifyActivities(t)
  <2>1. /\ o \in Ops /\ o.op = "notify" /\ todo[t] # <<>>
        /\ o.c \in Channels /\ o.f \in Focuses /\ o.b \in Mixings
    BY <1>2, NextOp, OpFields DEF notifyActivities
  <2> DEFINE acts == channel[o.c].activities
             tells == [k \in DOMAIN acts |-> IF k = 1 THEN Tell(acts[k], o.f, o.b)
                                             ELSE Tell(acts[k], "BACKGROUND", "MUST_PAUSE")]
  <2>2. /\ Then(t, tells)
        /\ UNCHANGED <<channel, m_activeChannels, queue, callVars, toldVars, m_contentType, cutShort>>
    BY <1>2 DEF notifyActivities
  <2>3. acts \in Seq(Activities)
    BY <2>1 DEF TypeOK, ChannelType
  <2>4. tells \in Seq(Ops)
    <3>1. "BACKGROUND" \in Focuses /\ "MUST_PAUSE" \in Mixings
      BY DEF Focuses, Mixings
    <3>2. ASSUME NEW k \in DOMAIN acts PROVE tells[k] \in Ops
      <4>1. acts[k] \in Activities
        BY <2>3
      <4> HIDE DEF acts
      <4> QED BY <2>1, <3>1, <4>1, OpTypes
    <3>3. DOMAIN tells = 1..Len(acts) /\ Len(acts) \in Nat
      BY <2>3
    <3> HIDE DEF acts
    <3>4. tells \in [1..Len(acts) -> Ops]
      BY <3>2, <3>3
    <3> HIDE DEF tells
    <3> QED BY <3>3, <3>4, IsASeq
  <2> HIDE DEF tells
  <2>5. todo' \in [Threads -> Seq(Ops)]
    BY <2>1, <2>2, <2>4, ThenTypes
  <2> QED BY <2>2, <2>5 DEF TypeOK, ToldTypes, toldVars, callVars
<1>3. CASE notifyObserver(t)
  <2>1. /\ o \in Ops /\ o.op = "tell" /\ todo[t] # <<>>
        /\ o.a \in Activities /\ o.f \in Focuses /\ o.b \in Mixings
    BY <1>3, NextOp, OpFields DEF notifyObserver
  <2>2. /\ Then(t, <<>>)
        /\ told' = [told EXCEPT ![o.a] = o.f]
        /\ m_mixingBehavior' = [m_mixingBehavior EXCEPT ![o.a] = Overridden(o.a, o.b)]
        /\ UNCHANGED <<channel, m_activeChannels, queue, callVars, m_contentType, cutShort>>
    BY <1>3 DEF notifyObserver
  <2>3. Overridden(o.a, o.b) \in Mixings
    BY <2>1 DEF Overridden, Mixings
  <2>4. ToldTypes'
    BY <2>1, <2>2, <2>3 DEF TypeOK, ToldTypes
  <2>5. todo' \in [Threads -> Seq(Ops)]
    BY <2>1, <2>2, ShortPrograms, ThenTypes
  <2> QED BY <2>2, <2>4, <2>5 DEF TypeOK, callVars
<1>4. CASE setBackgroundChannelMixingBehavior(t)
  <2>1. /\ o \in Ops /\ o.op = "background" /\ todo[t] # <<>> /\ o.c \in Channels /\ o.at \in Channels
    BY <1>4, NextOp, OpFields DEF setBackgroundChannelMixingBehavior
  <2>2. UNCHANGED <<channel, m_activeChannels, queue, toldVars, cutShort, callVars, m_contentType>>
    BY <1>4 DEF setBackgroundChannelMixingBehavior, ExecutorUnchanged
  <2>3. \/ Then(t, <<>>)
        \/ \E d \in Following(o.at) :
              d # None /\ Then(t, <<Focus(d, "BACKGROUND", getMixingBehavior(d, o.c), FALSE),
                                    Background(o.c, d)>>)
    BY <1>4 DEF setBackgroundChannelMixingBehavior
  <2>4. \A d \in Following(o.at) : d = None \/ d \in Channels
    BY FollowingType
  <2>5. todo' \in [Threads -> Seq(Ops)]
    <3>1. CASE Then(t, <<>>)
      BY <2>1, <3>1, ShortPrograms, ThenTypes
    <3>2. ASSUME NEW d \in Channels,
                 Then(t, <<Focus(d, "BACKGROUND", getMixingBehavior(d, o.c), FALSE), Background(o.c, d)>>)
          PROVE  todo' \in [Threads -> Seq(Ops)]
      <4>1. getMixingBehavior(d, o.c) \in Mixings /\ "BACKGROUND" \in Focuses
        BY <2>1, MixingType DEF Focuses
      <4>2. Focus(d, "BACKGROUND", getMixingBehavior(d, o.c), FALSE) \in Ops /\ Background(o.c, d) \in Ops
        BY <2>1, <4>1, OpTypes
      <4> QED BY <2>1, <3>2, <4>2, ShortPrograms, ThenTypes
    <3> QED BY <2>3, <2>4, <3>1, <3>2
  <2> QED BY <2>2, <2>5 DEF TypeOK, ToldTypes, toldVars, callVars
<1> QED BY <1>1, <1>2, <1>3, <1>4 DEF ThreadSteps

\* The executor's own steps.
LEMMA ExecutorStepsTypes ==
    ASSUME TypeOK, ExecutorSteps
    PROVE  TypeOK'
<1> DEFINE o == Head(todo["executor"])
<1>0. /\ "executor" \in Threads
      /\ m_activeChannels # {} => getHighestPriorityActiveChannelLocked \in Channels
      /\ m_activeChannels = {} => getHighestPriorityActiveChannelLocked = None
  <2>1. m_activeChannels # {} => getHighestPriorityActiveChannelLocked \in Channels
    BY HighestType DEF TypeOK
  <2>2. m_activeChannels = {} => getHighestPriorityActiveChannelLocked = None
    BY DEF getHighestPriorityActiveChannelLocked, HighestPriority
  <2> QED BY <2>1, <2>2, TwoThreads
<1>1. CASE NextTask
  <2>1. /\ queue # <<>> /\ queue' = Tail(queue)
        /\ todo' = [todo EXCEPT !["executor"] = <<Head(queue)>>]
        /\ UNCHANGED <<channel, m_activeChannels, toldVars, cutShort, callVars, m_contentType>>
    BY <1>1 DEF NextTask, ExecutorUnchanged
  <2>2. Head(queue) \in Ops /\ Tail(queue) \in Seq(Ops)
    BY <2>1 DEF TypeOK
  <2>3. <<Head(queue)>> \in Seq(Ops)
    BY <2>2, ShortPrograms
  <2>4. todo' \in [Threads -> Seq(Ops)]
    BY <2>1, <2>3 DEF TypeOK
  <2> QED BY <2>1, <2>2, <2>4 DEF TypeOK, ToldTypes, toldVars, callVars
<1>2. CASE acquireChannelHelper
  <2>1. o \in Ops /\ todo["executor"] # <<>> /\ o.a \in Activities
    BY <1>0, <1>2, NextOp, OpFields DEF acquireChannelHelper
  <2> DEFINE c == channelOf[o.a]
             fg == getHighestPriorityActiveChannelLocked
  <2>2. /\ m_activeChannels' = m_activeChannels \cup {c}
        /\ Then("executor", <<SetPrimary(o.a)>> \o Arrived(c, fg))
        /\ UNCHANGED <<channel, queue, toldVars, cutShort, callVars, m_contentType>>
    BY <1>2 DEF acquireChannelHelper, ExecutorUnchanged
  <2>3. c \in Channels
    BY <2>1, ConstantsAre
  <2>4. Arrived(c, fg) \in Seq(Ops)
    <3>1. fg = None \/ fg \in Channels
      BY <1>0
    <3>2. "FOREGROUND" \in Focuses /\ "PRIMARY" \in Mixings
      BY DEF Focuses, Mixings
    <3> HIDE DEF c, fg
    <3>3. /\ <<Focus(c, "FOREGROUND", "PRIMARY", FALSE)>> \in Seq(Ops)
          /\ <<Focus(c, "FOREGROUND", "PRIMARY", TRUE)>> \in Seq(Ops)
          /\ <<Background(c, c), Focus(c, "FOREGROUND", "PRIMARY", FALSE)>> \in Seq(Ops)
      BY <2>3, <3>2, OpTypes, ShortPrograms
    <3>4. fg # None => <<Behind(c, fg)>> \in Seq(Ops)
      BY <2>3, <3>1, OpTypes, ShortPrograms
    <3> QED BY <3>3, <3>4 DEF Arrived
  <2>5. <<SetPrimary(o.a)>> \o Arrived(c, fg) \in Seq(Ops)
    <3>1. <<SetPrimary(o.a)>> \in Seq(Ops)
      BY <2>1, OpTypes, ShortPrograms
    <3> QED BY <2>4, <3>1, ConcatProperties
  <2>6. todo' \in [Threads -> Seq(Ops)]
    BY <1>0, <2>1, <2>2, <2>5, ThenTypes
  <2> QED BY <2>2, <2>3, <2>6 DEF TypeOK, ToldTypes, toldVars, callVars
<1>3. CASE SetPrimaryStep
  <2>1. o \in Ops /\ todo["executor"] # <<>> /\ o.a \in Activities
    BY <1>0, <1>3, NextOp, OpFields DEF SetPrimaryStep
  <2> DEFINE c == channelOf[o.a]
             after == setPrimaryActivity(channel[c], o.a)
  <2>2. /\ Changes(c, after, ArrivalJoins(channel[c], o.a), <<>>)
        /\ cutShort' = (cutShort \/ (after.timer = "running" /\ after.stopping))
        /\ UNCHANGED <<m_activeChannels, queue, callVars, m_contentType>>
    BY <1>3 DEF SetPrimaryStep, ExecutorUnchanged
  <2>3. c \in Channels /\ channel[c] \in ChannelType
    BY <2>1, ConstantsAre DEF TypeOK
  <2> HIDE DEF c
  <2>4. after \in ChannelType
    BY <2>1, <2>3, ArrivalChannel
  <2>5. cutShort' \in BOOLEAN
    BY <2>2
  <2> HIDE DEF after
  <2>6. channel' \in [Channels -> ChannelType] /\ ToldTypes' /\ todo' \in [Threads -> Seq(Ops)]
    BY <2>1, <2>2, <2>3, <2>4, ChangesTypes, ShortPrograms
  <2> QED BY <2>2, <2>5, <2>6 DEF TypeOK, callVars
<1>4. CASE releaseChannelHelper
  <2>1. o \in Ops /\ todo["executor"] # <<>> /\ o.c \in Channels
    BY <1>0, <1>4, NextOp, OpFields DEF releaseChannelHelper
  <2> DEFINE ops == IF Owner(o.c, o.i) = None THEN <<>> ELSE <<Clear(o.c), Foreground>>
  <2>2. /\ releaseActivity(o.c, o.i, ops)
        /\ UNCHANGED <<m_activeChannels, queue, cutShort, callVars, m_contentType>>
    BY <1>4 DEF releaseChannelHelper, ExecutorUnchanged
  <2>3. ops \in Seq(Ops)
    BY <2>1, OpTypes, ShortPrograms
  <2> HIDE DEF ops
  <2>4. channel' \in [Channels -> ChannelType] /\ ToldTypes' /\ todo' \in [Threads -> Seq(Ops)]
    BY <2>1, <2>2, <2>3, ReleaseTypes
  <2> QED BY <2>2, <2>4 DEF TypeOK, callVars
<1>5. CASE stopForegroundActivityHelper
  <2>1. o \in Ops /\ todo["executor"] # <<>> /\ o.c \in Channels
    BY <1>0, <1>5, NextOp, OpFields DEF stopForegroundActivityHelper
  <2>2. /\ \/ Then("executor", <<>>) /\ UNCHANGED <<channel, toldVars>>
           \/ releaseActivity(o.c, o.i, <<Clear(o.c), Foreground>>)
        /\ UNCHANGED <<m_activeChannels, queue, cutShort, callVars, m_contentType>>
    BY <1>5 DEF stopForegroundActivityHelper, ExecutorUnchanged
  <2>3. <<Clear(o.c), Foreground>> \in Seq(Ops)
    BY <2>1, OpTypes, ShortPrograms
  <2>4. channel' \in [Channels -> ChannelType] /\ ToldTypes' /\ todo' \in [Threads -> Seq(Ops)]
    <3>1. CASE Then("executor", <<>>) /\ UNCHANGED <<channel, toldVars>>
      <4>1. todo' \in [Threads -> Seq(Ops)]
        BY <1>0, <2>1, <3>1, ShortPrograms, ThenTypes
      <4> QED BY <3>1, <4>1 DEF TypeOK, ToldTypes, toldVars
    <3>2. CASE releaseActivity(o.c, o.i, <<Clear(o.c), Foreground>>)
      BY <2>1, <2>3, <3>2, ReleaseTypes
    <3> QED BY <2>2, <3>1, <3>2
  <2> QED BY <2>2, <2>4 DEF TypeOK, callVars
<1>6. CASE stopAllActivitiesHelper
  <2>1. o \in Ops /\ todo["executor"] # <<>> /\ o.pairs \subseteq Channels \X Interfaces
    BY <1>0, <1>6, NextOp, OpFields DEF stopAllActivitiesHelper
  <2>2. /\ \/ /\ todo' = [todo EXCEPT !["executor"] = Append(Tail(todo["executor"]), Foreground)]
              /\ UNCHANGED <<channel, toldVars>>
           \/ \E p \in o.pairs : releaseActivity(p[1], p[2], <<StopAll(o.pairs \ {p}), Clear(p[1])>>)
        /\ UNCHANGED <<m_activeChannels, queue, cutShort, callVars, m_contentType>>
    BY <1>6 DEF stopAllActivitiesHelper, ExecutorUnchanged
  <2>3. CASE /\ todo' = [todo EXCEPT !["executor"] = Append(Tail(todo["executor"]), Foreground)]
             /\ UNCHANGED <<channel, toldVars>>
    <3>1. todo["executor"] \in Seq(Ops)
      BY <1>0 DEF TypeOK
    <3>2. Tail(todo["executor"]) \in Seq(Ops) /\ Foreground \in Ops
      BY <2>1, <3>1, OpTypes
    <3>3. Append(Tail(todo["executor"]), Foreground) \in Seq(Ops)
      BY <3>2
    <3>4. todo' \in [Threads -> Seq(Ops)]
      BY <2>3, <3>3 DEF TypeOK
    <3> QED BY <2>2, <2>3, <3>4 DEF TypeOK, ToldTypes, toldVars, callVars
  <2>4. ASSUME NEW p \in o.pairs, releaseActivity(p[1], p[2], <<StopAll(o.pairs \ {p}), Clear(p[1])>>)
        PROVE  TypeOK'
    <3>1. p[1] \in Channels
      BY <2>1
    <3>2. o.pairs \ {p} \in SUBSET (Channels \X Interfaces)
      BY <2>1
    <3>3. <<StopAll(o.pairs \ {p}), Clear(p[1])>> \in Seq(Ops)
      <4>1. StopAll(o.pairs \ {p}) \in Ops
        BY <3>2, OpTypes
      <4>2. Clear(p[1]) \in Ops
        BY <3>1, OpTypes
      <4> QED BY <4>1, <4>2, ShortPrograms
    <3>4. channel' \in [Channels -> ChannelType] /\ ToldTypes' /\ todo' \in [Threads -> Seq(Ops)]
      BY <2>1, <2>4, <3>1, <3>3, ReleaseTypes
    <3> QED BY <2>2, <3>4 DEF TypeOK, callVars
  <2> QED BY <2>2, <2>3, <2>4
<1>7. CASE ClearChannel
  <2>1. o \in Ops /\ todo["executor"] # <<>> /\ o.c \in Channels
    BY <1>0, <1>7, NextOp, OpFields DEF ClearChannel
  <2> DEFINE active == channel[o.c].activities # <<>>
  <2>2. /\ m_activeChannels' = IF active THEN m_activeChannels ELSE m_activeChannels \ {o.c}
        /\ Then("executor", IF active THEN <<>> ELSE <<Focus(o.c, "NONE", "MUST_STOP", FALSE)>>)
        /\ UNCHANGED <<channel, queue, toldVars, cutShort, callVars, m_contentType>>
    BY <1>7 DEF ClearChannel, ExecutorUnchanged
  <2> HIDE DEF active
  <2>3. (IF active THEN <<>> ELSE <<Focus(o.c, "NONE", "MUST_STOP", FALSE)>>) \in Seq(Ops)
    <3>1. "NONE" \in Focuses /\ "MUST_STOP" \in Mixings
      BY DEF Focuses, Mixings
    <3> QED BY <2>1, <3>1, OpTypes, ShortPrograms
  <2>4. todo' \in [Threads -> Seq(Ops)]
    BY <1>0, <2>1, <2>2, <2>3, ThenTypes
  <2> QED BY <2>2, <2>4 DEF TypeOK, ToldTypes, toldVars, callVars
<1>8. CASE foregroundHighestPriorityActiveChannel
  <2>1. o \in Ops /\ todo["executor"] # <<>>
    BY <1>0, <1>8, NextOp DEF foregroundHighestPriorityActiveChannel
  <2> DEFINE c == getHighestPriorityActiveChannelLocked
             ops == IF c = None THEN <<>>
                    ELSE <<Background(c, c), Focus(c, "FOREGROUND", "PRIMARY", FALSE)>>
  <2>2. /\ Then("executor", ops)
        /\ UNCHANGED <<channel, m_activeChannels, queue, toldVars, cutShort, callVars, m_contentType>>
    BY <1>8 DEF foregroundHighestPriorityActiveChannel, ExecutorUnchanged
  <2>3. c = None \/ c \in Channels
    BY <1>0
  <2>4. ops \in Seq(Ops)
    <3>1. "FOREGROUND" \in Focuses /\ "PRIMARY" \in Mixings
      BY DEF Focuses, Mixings
    <3> HIDE DEF c
    <3> QED BY <2>3, <3>1, OpTypes, ShortPrograms
  <2> HIDE DEF ops
  <2>5. todo' \in [Threads -> Seq(Ops)]
    BY <1>0, <2>1, <2>2, <2>4, ThenTypes
  <2> QED BY <2>2, <2>5 DEF TypeOK, ToldTypes, toldVars, callVars
<1>9. CASE FocusBehind
  <2>1. o \in Ops /\ todo["executor"] # <<>> /\ o.c \in Channels /\ o.d \in Channels
    BY <1>0, <1>9, NextOp, OpFields DEF FocusBehind
  <2> DEFINE op == Focus(o.c, "BACKGROUND", getMixingBehavior(o.c, o.d), FALSE)
  <2>2. /\ Then("executor", <<op>>)
        /\ UNCHANGED <<channel, m_activeChannels, queue, toldVars, cutShort, callVars, m_contentType>>
    BY <1>9 DEF FocusBehind, ExecutorUnchanged
  <2>3. op \in Ops
    <3>1. getMixingBehavior(o.c, o.d) \in Mixings /\ "BACKGROUND" \in Focuses
      BY <2>1, MixingType DEF Focuses
    <3> QED BY <2>1, <3>1, OpTypes
  <2> HIDE DEF op
  <2>4. todo' \in [Threads -> Seq(Ops)]
    BY <1>0, <2>1, <2>2, <2>3, ShortPrograms, ThenTypes
  <2> QED BY <2>2, <2>4 DEF TypeOK, ToldTypes, toldVars, callVars
<1>10. CASE ThreadSteps("executor")
  BY <1>0, <1>10, ThreadStepsTypes
<1> QED BY <1>1, <1>2, <1>3, <1>4, <1>5, <1>6, <1>7, <1>8, <1>9, <1>10 DEF ExecutorSteps

\* The callers' steps.
LEMMA CallerTypes ==
    ASSUME TypeOK, CallerStarts \/ CallerSteps
    PROVE  TypeOK'
<1>1. ASSUME NEW a \in Activities, acquireChannel(a) \/ releaseChannel(a) PROVE TypeOK'
  <2>1. PICK op \in Ops : queue' = Append(queue, op)
    BY <1>1, OpTypes, ConstantsAre DEF acquireChannel, releaseChannel
  <2>2. queue' \in Seq(Ops)
    BY <2>1 DEF TypeOK
  <2> QED BY <1>1, <2>2 DEF acquireChannel, releaseChannel, TypeOK, ToldTypes, toldVars
<1>2. ASSUME NEW a \in Activities, modifyContentType(a) PROVE TypeOK'
  <2>1. OtherContent(a) \in ContentTypes
    BY DEF OtherContent, ContentTypes
  <2>2. m_contentType' \in [Activities -> ContentTypes]
    BY <1>2, <2>1 DEF modifyContentType, TypeOK
  <2>3. <<[op |-> "modified"]>> \in Seq(Ops)
    BY OpTypes, ShortPrograms
  <2>4. todo' \in [Threads -> Seq(Ops)]
    BY <1>2, <2>3 DEF modifyContentType, TypeOK
  <2> QED BY <1>2, <2>2, <2>4 DEF modifyContentType, TypeOK, ToldTypes, toldVars
<1>3. ASSUME NEW task \in Ops, StopReads(task) PROVE TypeOK'
  BY <1>3 DEF StopReads, TypeOK, ToldTypes, toldVars
<1>4. CASE stopForegroundActivity
  <2> DEFINE c == getHighestPriorityActiveChannelLocked
  <2>1. m_activeChannels # {} /\ StopReads(Stop(c, Interface(c)))
    BY <1>4 DEF stopForegroundActivity
  <2>2. c \in Channels
    BY <2>1, HighestType DEF TypeOK
  <2> HIDE DEF c
  <2>3. Stop(c, Interface(c)) \in Ops
    BY <2>2, InterfaceType, OpTypes
  <2> QED BY <1>3, <2>1, <2>3
<1>5. CASE stopAllActivities
  <2> DEFINE pairs == {<<c, Interface(c)>> : c \in {d \in m_activeChannels : Interface(d) # None}}
  <2>1. StopReads(StopAll(pairs))
    BY <1>5 DEF stopAllActivities
  <2>2. pairs \in SUBSET (Channels \X Interfaces)
    BY InterfaceType DEF TypeOK
  <2>3. StopAll(pairs) \in Ops
    <3> HIDE DEF pairs
    <3> QED BY <2>2, OpTypes
  <2> QED BY <1>3, <2>1, <2>3
<1>6. CASE ModifyReads
  <2> DEFINE c == getHighestPriorityActiveChannelLocked
  <2>1. /\ Then("caller", <<Background(c, c)>>) /\ m_activeChannels # {}
        /\ UNCHANGED <<channel, m_activeChannels, queue, callVars, toldVars, m_contentType, cutShort>>
    BY <1>6 DEF ModifyReads
  <2>2. todo["caller"] # <<>>
    BY <1>6 DEF ModifyReads, Next1
  <2>3. c \in Channels
    BY <2>1, HighestType DEF TypeOK
  <2> HIDE DEF c
  <2>4. <<Background(c, c)>> \in Seq(Ops)
    BY <2>3, OpTypes, ShortPrograms
  <2>5. todo' \in [Threads -> Seq(Ops)]
    BY <2>1, <2>2, <2>4, ThenTypes, TwoThreads
  <2> QED BY <2>1, <2>5 DEF TypeOK, ToldTypes, toldVars, callVars
<1>7. CASE submitToFront
  <2>1. captured \in Ops
    BY <1>7 DEF submitToFront, TypeOK
  <2>2. <<captured>> \in Seq(Ops) /\ queue \in Seq(Ops)
    BY <2>1, ShortPrograms DEF TypeOK
  <2>3. <<captured>> \o queue \in Seq(Ops)
    BY <2>2, ConcatProperties
  <2> QED BY <1>7, <2>3 DEF submitToFront, TypeOK, ToldTypes, toldVars
<1>8. CASE ThreadSteps("caller")
  BY <1>8, ThreadStepsTypes, TwoThreads
<1> QED BY <1>1, <1>2, <1>4, <1>5, <1>6, <1>7, <1>8 DEF CallerStarts, CallerSteps

\* What the patience timer makes of its channel.
TimerChannels(ch) ==
    {[ch EXCEPT !.timer = "fired"], [ch EXCEPT !.timer = "off", !.stopping = FALSE],
     [ch EXCEPT !.timer = "ending", !.stopping = FALSE], [ch EXCEPT !.timer = "off"]}

\* The timer's steps on a channel that is in order.
LEMMA TimerChannelsFit ==
    ASSUME NEW ch \in ChannelType, NEW n \in TimerChannels(ch)
    PROVE  n \in ChannelType
BY DEF TimerChannels, ChannelType

\* The channel after the callback of its timer.
Expired(ch) ==
    LET own == ch.expiring \in Range(ch.activities) /\ InPatience(ch, ch.expiring)
    IN  [ch EXCEPT !.timer = "done", !.stopping = ch.stopping \/ own,
                   !.activities = Without(ch.activities, ch.expiring),
                   !.initiator = IF own THEN None ELSE ch.initiator,
                   !.receiver = IF own THEN None ELSE ch.receiver]

\* The callback releases the one that waits and forgets about the patience.
LEMMA ExpiredChannel ==
    ASSUME NEW ch \in ChannelType
    PROVE  /\ Expired(ch) \in ChannelType /\ Expired(ch).timer = "done"
           /\ Waits(ch) /\ ch.timer = "fired" => Expired(ch).receiver = None
<1> DEFINE own == ch.expiring \in Range(ch.activities) /\ InPatience(ch, ch.expiring)
           w == Without(ch.activities, ch.expiring)
           s == ch.stopping \/ own
<1>1. w \in Seq(Activities)
  BY WithoutKeeps DEF ChannelType
<1>2. own \in BOOLEAN /\ s \in BOOLEAN
  OBVIOUS
<1>3. Waits(ch) /\ ch.timer = "fired" /\ ch.receiver # None => own
  BY DEF Waits, InPatience
<1>4. Expired(ch) = [ch EXCEPT !.timer = "done", !.stopping = s, !.activities = w,
                               !.initiator = IF own THEN None ELSE ch.initiator,
                               !.receiver = IF own THEN None ELSE ch.receiver]
  BY DEF Expired
<1> HIDE DEF own, w, s
<1>5. /\ Expired(ch) \in ChannelType /\ Expired(ch).timer = "done"
      /\ Expired(ch).receiver = IF own THEN None ELSE ch.receiver
  BY <1>1, <1>2, <1>4 DEF ChannelType
<1> QED BY <1>3, <1>5

\* A timer changes its own channel.
LEMMA TimerChanges ==
    ASSUME TypeOK, NEW c \in Channels, TimerSteps(c)
    PROVE  /\ \/ /\ channel' = [channel EXCEPT ![c] = [channel[c] EXCEPT !.timer = "fired"]]
                 /\ channel[c].timer = "running"
                 /\ UNCHANGED toldVars
              \/ \E n \in {[channel[c] EXCEPT !.timer = "off", !.stopping = FALSE],
                           [channel[c] EXCEPT !.timer = "ending", !.stopping = FALSE],
                           [channel[c] EXCEPT !.timer = "off"]} :
                    /\ channel' = [channel EXCEPT ![c] = n]
                    /\ \/ channel[c].timer = "running" /\ channel[c].stopping
                       \/ channel[c].timer \in {"done", "ending"}
                    /\ UNCHANGED toldVars
              \/ /\ channel' = [channel EXCEPT ![c] = Expired(channel[c])]
                 /\ channel[c].timer = "fired"
                 /\ TellReleased(c, Expired(channel[c]))
           /\ UNCHANGED <<m_activeChannels, queue, todo, callVars, m_contentType, cutShort>>
<1>0. channel[c] \in ChannelType /\ channel \in [Channels -> ChannelType]
  BY DEF TypeOK
<1>1. CASE TimerExpires(c)
  BY <1>0, <1>1 DEF TimerExpires, SetTimer, TimerUnchanged
<1>2. CASE TimerFindsStopping(c)
  <2>1. channel' = [channel EXCEPT ![c] = [channel[c] EXCEPT !.timer = "off", !.stopping = FALSE]]
    BY <1>0, <1>2 DEF TimerFindsStopping, ChannelType
  <2> QED BY <1>2, <2>1 DEF TimerFindsStopping, TimerUnchanged
<1>3. CASE patienceTimerCallback(c)
  <2>1. channel' = [channel EXCEPT ![c] = Expired(channel[c])] /\ TellReleased(c, Expired(channel[c]))
    BY <1>3 DEF patienceTimerCallback, Expired
  <2> QED BY <1>3, <2>1 DEF patienceTimerCallback, TimerUnchanged
<1>4. CASE TimerClearsStopping(c)
  <2>1. channel' = [channel EXCEPT ![c] = [channel[c] EXCEPT !.timer = "ending", !.stopping = FALSE]]
    BY <1>0, <1>4 DEF TimerClearsStopping, ChannelType
  <2> QED BY <1>4, <2>1 DEF TimerClearsStopping, TimerUnchanged
<1>5. CASE TimerEnds(c)
  BY <1>5 DEF TimerEnds, SetTimer, TimerUnchanged
<1> QED BY <1>1, <1>2, <1>3, <1>4, <1>5 DEF TimerSteps

\* The timers' steps.
LEMMA TimerTypes ==
    ASSUME TypeOK, NEW c \in Channels, TimerSteps(c)
    PROVE  TypeOK'
<1>1. channel[c] \in ChannelType
  BY DEF TypeOK
<1>2. /\ UNCHANGED <<m_activeChannels, queue, todo, callVars, m_contentType, cutShort>>
      /\ \/ \E n \in TimerChannels(channel[c]) :
               channel' = [channel EXCEPT ![c] = n] /\ UNCHANGED toldVars
         \/ channel' = [channel EXCEPT ![c] = Expired(channel[c])] /\ TellReleased(c, Expired(channel[c]))
  BY TimerChanges DEF TimerChannels
<1>3. channel' \in [Channels -> ChannelType]
  <2>1. PICK n \in ChannelType : channel' = [channel EXCEPT ![c] = n]
    BY <1>1, <1>2, TimerChannelsFit, ExpiredChannel
  <2> QED BY <2>1 DEF TypeOK
<1>4. ToldTypes'
  <2>1. CASE UNCHANGED toldVars
    BY <2>1 DEF TypeOK, ToldTypes, toldVars
  <2>2. CASE TellReleased(c, Expired(channel[c]))
    BY <2>2, TellReleasedTypes DEF TypeOK
  <2> QED BY <1>2, <2>1, <2>2
<1> QED BY <1>2, <1>3, <1>4 DEF TypeOK, callVars

\* The first state.
LEMMA InitTypes == Init => TypeOK
<1> SUFFICES ASSUME Init PROVE TypeOK
  OBVIOUS
<1>1. Idle \in ChannelType
  <2>1. <<>> \in Seq(Activities)
    OBVIOUS
  <2> QED BY <2>1 DEF Idle, ChannelType, Focuses
<1>2. channel \in [Channels -> ChannelType]
  BY <1>1 DEF Init
<1>3. queue \in Seq(Ops) /\ todo \in [Threads -> Seq(Ops)]
  BY ShortPrograms DEF Init
<1>4. ToldTypes
  BY DEF Init, ToldTypes, Focuses, Mixings
<1>5. m_contentType \in [Activities -> ContentTypes]
  BY ConstantsAre DEF Init
<1> QED BY <1>2, <1>3, <1>4, <1>5 DEF Init, TypeOK

\* Every step.
LEMMA NextTypes == TypeOK /\ [Next]_vars => TypeOK'
<1>1. ASSUME TypeOK, Next PROVE TypeOK'
  BY <1>1, CallerTypes, ExecutorStepsTypes, TimerTypes DEF Next
<1>2. ASSUME TypeOK, UNCHANGED vars PROVE TypeOK'
  BY <1>2 DEF vars, TypeOK, ToldTypes, toldVars, callVars
<1> QED BY <1>1, <1>2

\* The programs of the executor and of the callers are about channels and activities that
\* exist: neither a name read before the lock was given up (stopForegroundActivity,
\* stopAllActivities, the loop over m_activeChannels) nor a patience timer that comes late ever
\* makes one up.
THEOREM TypeSafety == Spec => []TypeOK
BY InitTypes, NextTypes, PTL DEF Spec

-----------------------------------------------------------------------------
(* Patience *)

\* Those who wait, wait for a timer that was not told to stop.
PatienceInv == ~cutShort => \A c \in Channels : Waits(channel[c]) /\ Fresh(channel[c])

\* A step that changes one channel.
LEMMA OneChannelWaits ==
    ASSUME TypeOK, PatienceInv, NEW c \in Channels, NEW n, channel' = [channel EXCEPT ![c] = n],
           ~cutShort' => ~cutShort,
           ~cutShort' /\ Waits(channel[c]) /\ Fresh(channel[c]) => Waits(n) /\ Fresh(n)
    PROVE  PatienceInv'
<1> SUFFICES ASSUME ~cutShort', NEW d \in Channels
             PROVE  Waits(channel'[d]) /\ Fresh(channel'[d])
  BY DEF PatienceInv, Waits, Fresh
<1>1. Waits(channel[c]) /\ Fresh(channel[c]) /\ Waits(channel[d]) /\ Fresh(channel[d])
  BY DEF PatienceInv
<1>2. channel'[d] = IF d = c THEN n ELSE channel[d]
  BY DEF TypeOK
<1> QED BY <1>1, <1>2

\* A step that changes none.
LEMMA NoChannelWaits ==
    ASSUME PatienceInv, UNCHANGED <<channel, cutShort>>
    PROVE  PatienceInv'
BY DEF PatienceInv, Waits, Fresh

\* A release.
LEMMA ReleaseWaits ==
    ASSUME TypeOK, PatienceInv, NEW c \in Channels, NEW i, NEW ops, releaseActivity(c, i, ops),
           UNCHANGED cutShort
    PROVE  PatienceInv'
<1> DEFINE a == Owner(c, i)
           n == removeActivityHelperLocked(channel[c], a)
<1>1. channel' = channel \/ channel' = [channel EXCEPT ![c] = n]
  BY DEF releaseActivity, Changes
<1>2. channel[c] \in ChannelType
  BY DEF TypeOK
<1> HIDE DEF a
<1>3. Waits(channel[c]) /\ Fresh(channel[c]) => Waits(n) /\ Fresh(n)
  BY <1>2, RemovedWaits
<1> HIDE DEF n
<1> QED BY <1>1, <1>3, OneChannelWaits, NoChannelWaits

\* A change of the focus.
LEMMA FocusWaits ==
    ASSUME TypeOK, PatienceInv, NEW t \in Threads, setFocus(t)
    PROVE  PatienceInv'
<1> DEFINE o == Head(todo[t])
           n == [channel[o.c] EXCEPT !.focusState = o.f]
<1>1. o.c \in Channels
  BY NextOp, OpFields DEF setFocus
<1>2. UNCHANGED cutShort /\ (channel' = channel \/ channel' = [channel EXCEPT ![o.c] = n])
  BY DEF setFocus
<1>3. channel[o.c] \in ChannelType
  BY <1>1 DEF TypeOK
<1>4. /\ n.receiver = channel[o.c].receiver /\ n.initiator = channel[o.c].initiator
      /\ n.timer = channel[o.c].timer /\ n.stopping = channel[o.c].stopping
      /\ n.expiring = channel[o.c].expiring /\ n.activities = channel[o.c].activities
  BY <1>3 DEF ChannelType
<1> HIDE DEF n
<1>5. Waits(channel[o.c]) /\ Fresh(channel[o.c]) => Waits(n) /\ Fresh(n)
  BY <1>4 DEF Waits, Fresh
<1> HIDE DEF o
<1> QED BY <1>1, <1>2, <1>5, OneChannelWaits, NoChannelWaits

\* An arrival.
LEMMA ArrivalWaits ==
    ASSUME TypeOK, PatienceInv, SetPrimaryStep
    PROVE  PatienceInv'
<1> DEFINE a == Head(todo["executor"]).a
           c == channelOf[a]
           n == setPrimaryActivity(channel[c], a)
<1>1. a \in Activities
  BY NextOp, OpFields, TwoThreads DEF SetPrimaryStep
<1>2. /\ Changes(c, n, ArrivalJoins(channel[c], a), <<>>)
      /\ cutShort' = (cutShort \/ (n.timer = "running" /\ n.stopping))
  BY DEF SetPrimaryStep
<1>3. channel' = channel \/ channel' = [channel EXCEPT ![c] = n]
  BY <1>2 DEF Changes
<1>4. c \in Channels /\ channel[c] \in ChannelType
  BY <1>1, ConstantsAre DEF TypeOK
<1> HIDE DEF a, c
<1>5. Waits(channel[c]) => Waits(n)
  BY <1>1, <1>4, ArrivalChannel
<1> HIDE DEF n
<1>6. ~cutShort' => ~cutShort /\ Fresh(n)
  BY <1>2 DEF Fresh
<1>7. CASE channel' = channel
  BY <1>6, <1>7 DEF PatienceInv, Waits, Fresh
<1>8. CASE channel' = [channel EXCEPT ![c] = n]
  BY <1>4, <1>5, <1>6, <1>8, OneChannelWaits
<1> QED BY <1>3, <1>7, <1>8

\* A timer: it fires for the one that waits, and its callback releases it.
LEMMA TimerWaits ==
    ASSUME TypeOK, PatienceInv, NEW c \in Channels, TimerSteps(c)
    PROVE  PatienceInv'
<1> DEFINE ch == channel[c]
<1>0. ch \in ChannelType /\ UNCHANGED cutShort
  BY TimerChanges DEF TypeOK
<1>1. \/ channel' = [channel EXCEPT ![c] = [ch EXCEPT !.timer = "fired"]] /\ ch.timer = "running"
      \/ \E n \in {[ch EXCEPT !.timer = "off", !.stopping = FALSE],
                   [ch EXCEPT !.timer = "ending", !.stopping = FALSE], [ch EXCEPT !.timer = "off"]} :
            /\ channel' = [channel EXCEPT ![c] = n]
            /\ (ch.timer = "running" /\ ch.stopping) \/ ch.timer \in {"done", "ending"}
      \/ channel' = [channel EXCEPT ![c] = Expired(ch)] /\ ch.timer = "fired"
  BY TimerChanges
<1> HIDE DEF ch
<1>2. PICK n : /\ channel' = [channel EXCEPT ![c] = n]
               /\ Waits(ch) /\ Fresh(ch) => Waits(n) /\ Fresh(n)
  <2>1. CASE channel' = [channel EXCEPT ![c] = [ch EXCEPT !.timer = "fired"]] /\ ch.timer = "running"
    <3> DEFINE n == [ch EXCEPT !.timer = "fired"]
    <3>1. /\ n.receiver = ch.receiver /\ n.initiator = ch.initiator /\ n.timer = "fired"
          /\ n.expiring = ch.expiring /\ n.activities = ch.activities
      BY <1>0 DEF ChannelType
    <3>2. channel' = [channel EXCEPT ![c] = n]
      BY <2>1
    <3> HIDE DEF n
    <3>3. Waits(ch) => Waits(n) /\ Fresh(n)
      BY <3>1 DEF Waits, Fresh
    <3> QED BY <3>2, <3>3
  <2>2. ASSUME NEW n \in {[ch EXCEPT !.timer = "off", !.stopping = FALSE],
                          [ch EXCEPT !.timer = "ending", !.stopping = FALSE], [ch EXCEPT !.timer = "off"]},
               channel' = [channel EXCEPT ![c] = n],
               (ch.timer = "running" /\ ch.stopping) \/ ch.timer \in {"done", "ending"}
        PROVE  \E x : /\ channel' = [channel EXCEPT ![c] = x]
                      /\ Waits(ch) /\ Fresh(ch) => Waits(x) /\ Fresh(x)
    <3>1. n.receiver = ch.receiver /\ n.timer # "running"
      BY <1>0, <2>2 DEF ChannelType
    <3>2. Waits(ch) /\ Fresh(ch) => ch.receiver = None
      BY <2>2 DEF Waits, Fresh
    <3>3. Waits(ch) /\ Fresh(ch) => Waits(n) /\ Fresh(n)
      BY <3>1, <3>2 DEF Waits, Fresh
    <3> QED BY <2>2, <3>3
  <2>3. CASE channel' = [channel EXCEPT ![c] = Expired(ch)] /\ ch.timer = "fired"
    <3>1. Expired(ch).timer = "done" /\ (Waits(ch) => Expired(ch).receiver = None)
      BY <1>0, <2>3, ExpiredChannel
    <3>2. Waits(ch) => Waits(Expired(ch)) /\ Fresh(Expired(ch))
      BY <3>1 DEF Waits, Fresh
    <3> QED BY <2>3, <3>2
  <2> QED BY <1>1, <2>1, <2>2, <2>3
<1> QED BY <1>0, <1>2, OneChannelWaits DEF ch

\* Every step.
LEMMA NextWaits == TypeOK /\ PatienceInv /\ [Next]_vars => PatienceInv'
<1> SUFFICES ASSUME TypeOK, PatienceInv, [Next]_vars PROVE PatienceInv'
  OBVIOUS
<1>1. CASE CallerStarts
  BY <1>1, NoChannelWaits DEF CallerStarts, acquireChannel, releaseChannel, modifyContentType,
      stopForegroundActivity, stopAllActivities, StopReads
<1>2. ASSUME NEW t \in Threads, ThreadSteps(t) PROVE PatienceInv'
  <2>1. CASE setFocus(t)
    BY <2>1, FocusWaits
  <2>2. CASE notifyActivities(t) \/ notifyObserver(t) \/ setBackgroundChannelMixingBehavior(t)
    BY <2>2, NoChannelWaits DEF notifyActivities, notifyObserver, setBackgroundChannelMixingBehavior
  <2> QED BY <1>2, <2>1, <2>2 DEF ThreadSteps
<1>3. CASE CallerSteps
  <2>1. CASE ModifyReads \/ submitToFront
    BY <2>1, NoChannelWaits DEF ModifyReads, submitToFront
  <2> QED BY <1>2, <1>3, <2>1, TwoThreads DEF CallerSteps
<1>4. CASE ExecutorSteps
  <2>1. CASE \/ NextTask \/ acquireChannelHelper \/ ClearChannel
             \/ foregroundHighestPriorityActiveChannel \/ FocusBehind
    BY <2>1, NoChannelWaits DEF NextTask, acquireChannelHelper, ClearChannel,
        foregroundHighestPriorityActiveChannel, FocusBehind
  <2>2. CASE SetPrimaryStep
    BY <2>2, ArrivalWaits
  <2>3. CASE releaseChannelHelper
    <3>1. Head(todo["executor"]).c \in Channels
      BY <2>3, NextOp, OpFields, TwoThreads DEF releaseChannelHelper
    <3> QED BY <2>3, <3>1, ReleaseWaits DEF releaseChannelHelper
  <2>4. CASE stopForegroundActivityHelper
    <3>1. Head(todo["executor"]).c \in Channels
      BY <2>4, NextOp, OpFields, TwoThreads DEF stopForegroundActivityHelper
    <3> QED BY <2>4, <3>1, ReleaseWaits, NoChannelWaits DEF stopForegroundActivityHelper
  <2>5. CASE stopAllActivitiesHelper
    <3>1. Head(todo["executor"]).pairs \subseteq Channels \X Interfaces
      BY <2>5, NextOp, OpFields, TwoThreads DEF stopAllActivitiesHelper
    <3>2. \A p \in Head(todo["executor"]).pairs : p[1] \in Channels
      BY <3>1
    <3> QED BY <2>5, <3>2, ReleaseWaits, NoChannelWaits DEF stopAllActivitiesHelper
  <2>6. CASE ThreadSteps("executor")
    BY <1>2, <2>6, TwoThreads
  <2> QED BY <1>4, <2>1, <2>2, <2>3, <2>4, <2>5, <2>6 DEF ExecutorSteps
<1>5. CASE \E c \in Channels : TimerSteps(c)
  BY <1>5, TimerWaits
<1>6. CASE UNCHANGED vars
  BY <1>6, NoChannelWaits DEF vars
<1> QED BY <1>1, <1>3, <1>4, <1>5, <1>6 DEF Next

\* An activity that another's patience left in the background has a timer that will release
\* it, and the other is still in front: whoever is released, stopped or replaced by Channel's
\* methods, and however late the timer's own thread is, patience and timer end together.  Left
\* out are channels on which Timer::stop left m_stopping set before the timer was started.
THEOREM PatienceSafety == Spec => []PatienceRuns
<1>1. Init => PatienceInv
  <2> SUFFICES ASSUME Init, NEW c \in Channels PROVE Waits(channel[c]) /\ Fresh(channel[c])
    BY DEF PatienceInv
  <2> QED BY DEF Init, Idle, Waits, Fresh
<1>2. PatienceInv => PatienceRuns
  BY DEF PatienceInv, PatienceRuns, Waits
<1> QED BY <1>1, <1>2, InitTypes, NextTypes, NextWaits, PTL DEF Spec

-----------------------------------------------------------------------------
(* Everybody knows: programs as sets *)

\* The members of a sequence and those of its parts.
LEMMA RangeParts ==
    ASSUME NEW S
    PROVE  /\ Range(<<>>) = {}
           /\ \A x : Range(<<x>>) = {x}
           /\ \A x, y : Range(<<x, y>>) = {x, y}
           /\ \A p \in Seq(S) : Range(p) \subseteq S
           /\ \A p \in Seq(S) : p # <<>> => Range(p) = {Head(p)} \cup Range(Tail(p))
           /\ \A p, q \in Seq(S) : Range(p \o q) = Range(p) \cup Range(q)
<1>1. Range(<<>>) = {} /\ \A x : Range(<<x>>) = {x}
  BY DEF Range
<1>2. \A x, y : Range(<<x, y>>) = {x, y}
  BY DEF Range
<1>3. \A p \in Seq(S) : Range(p) \subseteq S
  BY DEF Range
<1>4. ASSUME NEW p \in Seq(S), p # <<>> PROVE Range(p) = {Head(p)} \cup Range(Tail(p))
  <2> DEFINE r == Tail(p)
  <2>1. /\ r \in Seq(S) /\ Len(r) = Len(p) - 1 /\ Head(p) = p[1] /\ Len(p) \in Nat /\ Len(p) > 0
        /\ \A i \in 1..(Len(p) - 1) : r[i] = p[i + 1]
    BY <1>4
  <2>2. DOMAIN p = 1..Len(p) /\ DOMAIN r = 1..(Len(p) - 1)
    BY <2>1
  <2> HIDE DEF r
  <2>3. ASSUME NEW i \in DOMAIN p PROVE p[i] \in {Head(p)} \cup Range(r)
    <3>1. CASE i = 1
      BY <2>1, <3>1
    <3>2. CASE i # 1
      <4>1. i - 1 \in DOMAIN r /\ r[i - 1] = p[i]
        BY <2>1, <2>2, <3>2
      <4> QED BY <4>1 DEF Range
    <3> QED BY <3>1, <3>2
  <2>4. ASSUME NEW i \in DOMAIN r PROVE r[i] \in Range(p)
    <3>1. i + 1 \in DOMAIN p /\ p[i + 1] = r[i]
      BY <2>1, <2>2
    <3> QED BY <3>1 DEF Range
  <2>5. Head(p) \in Range(p)
    BY <2>1, <2>2 DEF Range
  <2> QED BY <2>3, <2>4, <2>5 DEF Range, r
<1>5. ASSUME NEW p \in Seq(S), NEW q \in Seq(S) PROVE Range(p \o q) = Range(p) \cup Range(q)
  <2> DEFINE n == p \o q
  <2>1. /\ DOMAIN n = 1..(Len(p) + Len(q)) /\ Len(p) \in Nat /\ Len(q) \in Nat
        /\ DOMAIN p = 1..Len(p) /\ DOMAIN q = 1..Len(q)
        /\ \A i \in 1..Len(p) : n[i] = p[i]
        /\ \A i \in 1..Len(q) : n[Len(p) + i] = q[i]
    BY ConcatProperties
  <2> HIDE DEF n
  <2>2. ASSUME NEW i \in DOMAIN n PROVE n[i] \in Range(p) \cup Range(q)
    <3>1. CASE i <= Len(p)
      <4>1. i \in DOMAIN p /\ n[i] = p[i]
        BY <2>1, <3>1
      <4> QED BY <4>1 DEF Range
    <3>2. CASE i > Len(p)
      <4>1. i - Len(p) \in DOMAIN q /\ n[Len(p) + (i - Len(p))] = q[i - Len(p)] /\ Len(p) + (i - Len(p)) = i
        BY <2>1, <3>2
      <4> QED BY <4>1 DEF Range
    <3> QED BY <2>1, <3>1, <3>2
  <2>3. ASSUME NEW i \in DOMAIN p PROVE p[i] \in Range(n)
    <3>1. i \in DOMAIN n /\ n[i] = p[i]
      BY <2>1
    <3> QED BY <3>1 DEF Range
  <2>4. ASSUME NEW i \in DOMAIN q PROVE q[i] \in Range(n)
    <3>1. Len(p) + i \in DOMAIN n /\ n[Len(p) + i] = q[i]
      BY <2>1
    <3> QED BY <3>1 DEF Range
  <2> QED BY <2>2, <2>3, <2>4 DEF Range, n
<1> QED BY <1>1, <1>2, <1>3, <1>4, <1>5

\* The operations that the executor and the callers still have to do.
Program == Range(todo["executor"])
Callers == Range(todo["caller"])

\* A program that goes on: its first operation is replaced, the other thread does nothing.
LEMMA ProgramMoves ==
    ASSUME TypeOK, NEW t \in Threads, todo[t] # <<>>, NEW ops \in Seq(Ops), Then(t, ops)
    PROVE  /\ Range(todo[t]) = {Head(todo[t])} \cup Range(Tail(todo[t]))
           /\ Range(todo'[t]) = Range(ops) \cup Range(Tail(todo[t]))
           /\ \A u \in Threads : u # t => todo'[u] = todo[u]
<1>1. todo[t] \in Seq(Ops) /\ Tail(todo[t]) \in Seq(Ops)
  BY DEF TypeOK
<1>2. todo'[t] = ops \o Tail(todo[t]) /\ \A u \in Threads : u # t => todo'[u] = todo[u]
  BY DEF Then, TypeOK
<1>3. /\ \A p \in Seq(Ops) : p # <<>> => Range(p) = {Head(p)} \cup Range(Tail(p))
      /\ \A p, q \in Seq(Ops) : Range(p \o q) = Range(p) \cup Range(q)
  BY RangeParts
<1>4. Range(todo[t]) = {Head(todo[t])} \cup Range(Tail(todo[t]))
  BY <1>1, <1>3
<1>5. Range(ops \o Tail(todo[t])) = Range(ops) \cup Range(Tail(todo[t]))
  BY <1>1, <1>3
<1> QED BY <1>2, <1>4, <1>5

-----------------------------------------------------------------------------
(* The shape of the executor's program *)

TaskOps == {"acquire", "release", "stop", "stopAll"}

\* Operations that bring channels to the foreground or the background; these and what they
\* put first; and those that take the focus from a channel without activities.
Focusing(o) == o.op \in {"background", "behind"} \/ (o.op = "focus" /\ o.f # "NONE")
Working(o) == Focusing(o) \/ (o.op \in {"notify", "tell"} /\ o.f # "NONE")
Clearing(o) == o.op = "clear" \/ (o.op \in {"focus", "notify"} /\ o.f = "NONE")

\* A task that was just taken, an arrival, a release with the clearing that follows it and
\* ends with foregroundHighestPriorityActiveChannel, or the focusing that ends both.
Shape(p) ==
    \/ p = <<>>
    \/ p # <<>> /\ Tail(p) = <<>> /\ Head(p).op \in TaskOps
    \/ p # <<>> /\ Head(p).op = "setPrimary" /\ \A o \in Range(Tail(p)) : Focusing(o)
    \/ \A o \in Range(p) : Working(o)
    \/ p # <<>> /\ Head(p).op = "stopAll" /\ \A o \in Range(Tail(p)) : o.op = "clear"
    \/ /\ p # <<>> /\ p[Len(p)].op = "foreground"
       /\ \A i \in 1..(Len(p) - 1) : Clearing(p[i])

\* What may follow an operation.
Rest(o, R) ==
    /\ o.op \in {"acquire", "release", "stop", "foreground"} => R = {}
    /\ o.op = "setPrimary" => \A r \in R : Focusing(r)
    /\ Working(o) => \A r \in R : Working(r)
    /\ o.op = "stopAll" => \A r \in R : r.op = "clear"
    /\ Clearing(o) => /\ \A r \in R : Clearing(r) \/ r.op = "foreground"
                      /\ \E r \in R : r.op = "foreground"
    /\ o.op \in {"clear", "background", "behind", "focus", "notify", "tell"} =>
          Working(o) \/ Clearing(o)

\* The kinds of operations exclude each other.
LEMMA Kinds ==
    ASSUME NEW o
    PROVE  /\ Working(o) => o.op \in {"background", "behind", "focus", "notify", "tell"} /\ ~Clearing(o)
           /\ Clearing(o) => o.op \in {"clear", "focus", "notify"}
           /\ Focusing(o) => Working(o) /\ o.op \in {"background", "behind", "focus"}
BY DEF Working, Focusing, Clearing

\* A program of this shape, seen from its first operation.
LEMMA ShapeRest ==
    ASSUME NEW p \in Seq(Ops), p # <<>>, Shape(p)
    PROVE  Rest(Head(p), Range(Tail(p)))
<1> DEFINE o == Head(p)
           q == Tail(p)
           R == Range(q)
<1>1. /\ q \in Seq(Ops) /\ Len(q) = Len(p) - 1 /\ o = p[1] /\ Len(p) \in Nat /\ Len(p) > 0
      /\ \A i \in 1..(Len(p) - 1) : q[i] = p[i + 1]
  OBVIOUS
<1>2. DOMAIN q = 1..(Len(p) - 1)
  BY <1>1
<1>3. Range(p) = {o} \cup R
  <2>1. \A s \in Seq(Ops) : s # <<>> => Range(s) = {Head(s)} \cup Range(Tail(s))
    BY RangeParts
  <2> QED BY <2>1
<1>4. q = <<>> => R = {}
  BY DEF Range
<1> HIDE DEF o, q
<1>5. CASE q = <<>> /\ o.op \in TaskOps
  <2> HIDE DEF R
  <2>1. \A r \in R : FALSE
    BY <1>4, <1>5
  <2> QED BY <1>4, <1>5, <2>1, Kinds DEF Rest, TaskOps, R, o, q
<1>6. CASE o.op = "setPrimary" /\ \A r \in R : Focusing(r)
  <2> HIDE DEF R
  <2> QED BY <1>6, Kinds DEF Rest, R, o, q
<1>7. CASE \A r \in Range(p) : Working(r)
  <2> HIDE DEF R
  <2> QED BY <1>3, <1>7, Kinds DEF Rest, R, o, q
<1>8. CASE o.op = "stopAll" /\ \A r \in R : r.op = "clear"
  <2> HIDE DEF R
  <2> QED BY <1>8, Kinds DEF Rest, R, o, q
<1>9. CASE p[Len(p)].op = "foreground" /\ \A i \in 1..(Len(p) - 1) : Clearing(p[i])
  <2>1. CASE q = <<>>
    <3>0. Len(p) = 1
      BY <1>1, <2>1
    <3>1. o.op = "foreground"
      BY <1>1, <1>9, <3>0
    <3> HIDE DEF R
    <3>2. R = {}
      BY <1>4, <2>1
    <3> QED BY <3>1, <3>2, Kinds DEF Rest, R, o, q
  <2>2. CASE q # <<>>
    <3>1. Clearing(o) /\ Len(p) - 1 \in DOMAIN q /\ q[Len(p) - 1] = p[Len(p)]
      BY <1>1, <1>2, <1>9, <2>2
    <3>2. \E r \in R : r.op = "foreground"
      BY <1>9, <3>1 DEF Range
    <3>3. ASSUME NEW i \in DOMAIN q PROVE Clearing(q[i]) \/ q[i].op = "foreground"
      <4>1. q[i] = p[i + 1] /\ (i + 1 = Len(p) \/ i + 1 \in 1..(Len(p) - 1))
        BY <1>1, <1>2
      <4> QED BY <1>9, <4>1
    <3>4. \A r \in R : Clearing(r) \/ r.op = "foreground"
      BY <3>3 DEF Range
    <3> HIDE DEF R
    <3> QED BY <3>1, <3>2, <3>4, Kinds DEF Rest, R, o, q
  <2> QED BY <2>1, <2>2
<1> QED BY <1>5, <1>6, <1>7, <1>8, <1>9 DEF Shape, o, q

\* The shape of what comes next.
LEMMA ShapeStays ==
    ASSUME NEW p \in Seq(Ops), p # <<>>, Shape(p), NEW ops \in Seq(Ops)
    PROVE  /\ Working(Head(p)) /\ (\A n \in Range(ops) : Working(n)) => Shape(ops \o Tail(p))
           /\ Head(p).op = "setPrimary" /\ ops = <<>> => Shape(ops \o Tail(p))
           /\ Clearing(Head(p)) /\ (\A n \in Range(ops) : Clearing(n)) => Shape(ops \o Tail(p))
           /\ Head(p).op \in {"acquire", "release", "stop", "foreground"} /\ Shape(ops) =>
                 Shape(ops \o Tail(p))
           /\ Head(p).op = "stopAll" =>
                 /\ Shape(Append(Tail(p), Foreground))
                 /\ ops # <<>> /\ Head(ops).op = "stopAll" /\ (\A n \in Range(Tail(ops)) : n.op = "clear") =>
                       Shape(ops \o Tail(p))
<1> DEFINE o == Head(p)
           q == Tail(p)
           n == ops \o q
<1>1. /\ q \in Seq(Ops) /\ Len(q) = Len(p) - 1 /\ o = p[1] /\ Len(p) \in Nat /\ Len(p) > 0
      /\ \A i \in 1..(Len(p) - 1) : q[i] = p[i + 1]
  OBVIOUS
<1>2. Rest(o, Range(q))
  BY ShapeRest
<1>3. Range(n) = Range(ops) \cup Range(q)
  <2>1. \A x, y \in Seq(Ops) : Range(x \o y) = Range(x) \cup Range(y)
    BY RangeParts
  <2> QED BY <1>1, <2>1
<1>4. n \in Seq(Ops) /\ Len(n) = Len(ops) + Len(q)
      /\ (\A i \in 1..Len(ops) : n[i] = ops[i]) /\ (\A i \in 1..Len(q) : n[Len(ops) + i] = q[i])
  BY <1>1, ConcatProperties
<1>5. ASSUME q # <<>> PROVE Range(q) # {}
  <2>1. 1 \in DOMAIN q
    BY <1>1, <1>5
  <2> QED BY <2>1 DEF Range
<1> HIDE DEF o, q, n
<1>6. ASSUME Working(o), \A x \in Range(ops) : Working(x) PROVE Shape(n)
  BY <1>2, <1>3, <1>6 DEF Rest, Shape
<1>7. ASSUME o.op = "setPrimary", ops = <<>> PROVE Shape(n)
  <2>1. \A x \in Range(n) : Working(x)
    BY <1>2, <1>3, <1>7, Kinds DEF Rest, Range
  <2> QED BY <2>1 DEF Shape
<1>8. ASSUME Clearing(o), \A x \in Range(ops) : Clearing(x) PROVE Shape(n)
  <2>1. p[Len(p)].op = "foreground" /\ \A i \in 1..(Len(p) - 1) : Clearing(p[i])
    <3>1. ~(o.op = "setPrimary") /\ ~(o.op \in TaskOps) /\ ~Working(o) /\ ~(o.op = "stopAll")
      BY <1>8, Kinds DEF TaskOps
    <3>2. o \in Range(p)
      BY <1>1 DEF Range
    <3> QED BY <3>1, <3>2 DEF Shape, o
  <2>2. Len(p) > 1
    <3>1. o.op # "foreground"
      BY <1>8, Kinds
    <3> QED BY <1>1, <2>1, <3>1
  <2>3. Len(n) = Len(ops) + (Len(p) - 1) /\ n[Len(n)] = p[Len(p)] /\ Len(ops) \in Nat
    <3>1. q[Len(p) - 1] = p[Len(p)] /\ n[Len(ops) + (Len(p) - 1)] = q[Len(p) - 1] /\ Len(ops) \in Nat
      BY <1>1, <1>4, <2>2
    <3> QED BY <1>1, <1>4, <3>1
  <2>4. ASSUME NEW i \in 1..(Len(n) - 1) PROVE Clearing(n[i])
    <3>1. CASE i <= Len(ops)
      <4>1. i \in DOMAIN ops /\ n[i] = ops[i]
        BY <1>4, <2>3, <3>1
      <4> QED BY <1>8, <4>1 DEF Range
    <3>2. CASE i > Len(ops)
      <4>1. i - Len(ops) \in 1..Len(q) /\ Len(ops) + (i - Len(ops)) = i
        BY <1>1, <2>3, <3>2
      <4>2. n[i] = q[i - Len(ops)] /\ q[i - Len(ops)] = p[i - Len(ops) + 1]
        BY <1>1, <1>4, <4>1
      <4>3. i - Len(ops) + 1 \in 1..(Len(p) - 1)
        BY <2>3, <3>2
      <4> QED BY <2>1, <4>2, <4>3
    <3> QED BY <2>3, <3>1, <3>2
  <2>5. n # <<>>
    BY <1>4, <2>2, <2>3
  <2> QED BY <2>1, <2>3, <2>4, <2>5 DEF Shape
<1>9. ASSUME o.op \in {"acquire", "release", "stop", "foreground"}, Shape(ops) PROVE Shape(n)
  <2>1. q = <<>>
    BY <1>2, <1>5, <1>9 DEF Rest
  <2>2. n = ops
    BY <2>1 DEF n
  <2> QED BY <1>9, <2>2
<1>10. ASSUME o.op = "stopAll" PROVE Shape(Append(q, Foreground))
  <2> DEFINE m == Append(q, Foreground)
  <2>1. m # <<>> /\ Len(m) = Len(q) + 1 /\ m[Len(q) + 1] = Foreground /\ \A i \in 1..Len(q) : m[i] = q[i]
    BY <1>1
  <2>2. \A i \in 1..Len(q) : Clearing(q[i])
    BY <1>1, <1>2, <1>10 DEF Rest, Range, Clearing
  <2> HIDE DEF m
  <2>3. Len(m) - 1 = Len(q) /\ m[Len(m)] = Foreground
    BY <1>1, <2>1
  <2> QED BY <2>1, <2>2, <2>3 DEF Shape, Foreground, m
<1>11. ASSUME o.op = "stopAll", ops # <<>>, Head(ops).op = "stopAll", \A x \in Range(Tail(ops)) : x.op = "clear"
       PROVE  Shape(n)
  <2>1. n # <<>> /\ Head(n) = Head(ops) /\ Tail(n) = Tail(ops) \o q
    BY <1>1, <1>11 DEF n
  <2>2. Range(Tail(ops) \o q) = Range(Tail(ops)) \cup Range(q)
    <3>1. \A x, y \in Seq(Ops) : Range(x \o y) = Range(x) \cup Range(y)
      BY RangeParts
    <3>2. Tail(ops) \in Seq(Ops)
      BY <1>11
    <3> QED BY <1>1, <3>1, <3>2
  <2>3. \A x \in Range(Tail(n)) : x.op = "clear"
    BY <1>2, <1>11, <2>1, <2>2 DEF Rest
  <2> QED BY <1>11, <2>1, <2>3 DEF Shape
<1> QED BY <1>6, <1>7, <1>8, <1>9, <1>10, <1>11 DEF o, q, n

\* The executor's next operation, what follows it, and the program when it is done.
LEMMA ExecutorMoves ==
    ASSUME TypeOK, Shape(todo["executor"]), NEW op, Next1("executor", op), NEW ops \in Seq(Ops),
           Then("executor", ops)
    PROVE  \E R : /\ Program = {Head(todo["executor"])} \cup R /\ Program' = Range(ops) \cup R
                  /\ Callers' = Callers /\ Rest(Head(todo["executor"]), R)
<1>1. todo["executor"] # <<>> /\ todo["executor"] \in Seq(Ops) /\ "executor" \in Threads /\ "caller" \in Threads
  BY NextOp, TwoThreads DEF TypeOK
<1>2. Rest(Head(todo["executor"]), Range(Tail(todo["executor"])))
  BY <1>1, ShapeRest
<1> QED BY <1>1, <1>2, ProgramMoves DEF Program, Callers

\* The caller's next operation.
LEMMA CallerMoves ==
    ASSUME TypeOK, NEW op, Next1("caller", op), NEW ops \in Seq(Ops), Then("caller", ops)
    PROVE  \E R : /\ Callers = {Head(todo["caller"])} \cup R /\ Callers' = Range(ops) \cup R
                  /\ Program' = Program /\ todo'["executor"] = todo["executor"]
<1>1. todo["caller"] # <<>> /\ "executor" \in Threads /\ "caller" \in Threads
  BY NextOp, TwoThreads
<1> QED BY <1>1, ProgramMoves DEF Program, Callers

\* What the operations say.
LEMMA OpParts ==
    /\ \A a : Acquire(a).op = "acquire" /\ Acquire(a).a = a
    /\ \A a : SetPrimary(a).op = "setPrimary" /\ SetPrimary(a).a = a
    /\ \A c, i : Release(c, i).op = "release" /\ Stop(c, i).op = "stop"
    /\ \A pairs : StopAll(pairs).op = "stopAll"
    /\ \A c : Clear(c).op = "clear" /\ Clear(c).c = c
    /\ Foreground.op = "foreground"
    /\ \A c, d : Background(c, d).op = "background" /\ Background(c, d).c = c /\ Background(c, d).at = d
    /\ \A c, d : Behind(c, d).op = "behind" /\ Behind(c, d).c = c
    /\ \A c, f, b : LET o == Focus(c, f, b, TRUE)
                    IN  o.op = "focus" /\ o.c = c /\ o.f = f /\ o.b = b /\ o.force
    /\ \A c, f, b : LET o == Focus(c, f, b, FALSE)
                    IN  o.op = "focus" /\ o.c = c /\ o.f = f /\ o.b = b /\ ~o.force
    /\ \A c, f, b : LET o == Notify(c, f, b) IN o.op = "notify" /\ o.c = c /\ o.f = f /\ o.b = b
    /\ \A a, f, b : LET o == Tell(a, f, b) IN o.op = "tell" /\ o.a = a /\ o.f = f /\ o.b = b
BY DEF Acquire, SetPrimary, Release, Stop, StopAll, Clear, Foreground, Background, Behind, Focus,
    Notify, Tell

-----------------------------------------------------------------------------
(* What holds whoever was overtaken *)

Top == getHighestPriorityActiveChannelLocked

\* A channel keeps distinct activities of its own, and the one that leaves when the patience
\* ends is never the primary one.
Ordered(ch) ==
    ch.timer \in {"running", "fired"} =>
        /\ ch.activities # <<>> /\ ch.initiator = Head(ch.activities)
        /\ ch.expiring # Head(ch.activities)

Distinct(s) == \A i, j \in DOMAIN s : s[i] = s[j] => i = j

Orderly ==
    \A c \in Channels :
        /\ Ordered(channel[c]) /\ Distinct(channel[c].activities)
        /\ \A a \in Range(channel[c].activities) : channelOf[a] = c

Present(a) == a \in Range(channel[channelOf[a]].activities)
Primary(a) == channel[channelOf[a]].activities # <<>> /\ a = Head(channel[channelOf[a]].activities)

\* What an operation of the executor says still holds when it is done: nobody but the executor
\* changes m_activeChannels, and no timer changes the primary activities.
TellFits(o) ==
    /\ o.f = "FOREGROUND" => channelOf[o.a] = Top /\ o.b = "PRIMARY" /\ Primary(o.a)
    /\ o.f = "BACKGROUND" /\ channelOf[o.a] = Top => o.b = "MUST_PAUSE" /\ ~Primary(o.a)

OpFits(o) ==
    /\ o.op = "setPrimary" => channelOf[o.a] \in m_activeChannels
    /\ o.op = "background" => o.c = Top /\ Top # None /\ o.at \in m_activeChannels
    /\ o.op = "behind" => o.c \in m_activeChannels /\ o.c # Top
    /\ o.op \in {"focus", "notify"} =>
         /\ o.f = "BACKGROUND" => o.c \in m_activeChannels /\ o.c # Top
         /\ o.f = "FOREGROUND" => o.c \in m_activeChannels /\ o.c = Top /\ o.b = "PRIMARY"
         /\ o.f = "NONE" => o.c \notin m_activeChannels
    /\ o.op = "tell" => TellFits(o)

ProgramFits == Shape(todo["executor"]) /\ \A o \in Program : OpFits(o)

\* A channel is active while it has activities, and the executor is about to give it one, or
\* to look whether the last has left, if it is active without.
ActiveFits ==
    \A c \in Channels :
        /\ channel[c].activities # <<>> => c \in m_activeChannels
        /\ c \in m_activeChannels =>
             \/ channel[c].activities # <<>>
             \/ \E o \in Program : (o.op = "setPrimary" /\ channelOf[o.a] = c) \/ (o.op = "clear" /\ o.c = c)

\* The callers only ever stop something and tell somebody about the background.
CallerFits ==
    /\ captured # None => captured.op \in {"stop", "stopAll"}
    /\ \A o \in Callers :
         \/ o.op \in {"modified", "background"}
         \/ o.op \in {"focus", "notify", "tell"} /\ o.f = "BACKGROUND"

ArrivingNow(a) == \E o \in Program : o.op \in {"acquire", "setPrimary"} /\ o.a = a
ArrivingLater(a) == \E o \in Range(queue) : o.op = "acquire" /\ o.a = a

Untouched(a) ==
    /\ told[a] = "NONE" /\ m_mixingBehavior[a] = "UNDEFINED" /\ ~Present(a)
    /\ \A o \in Program \cup Callers : o.op = "tell" => o.a # a

\* An activity arrives once, and nobody knows it before.
QueueFits ==
    /\ \A o \in Range(queue) : o.op \in TaskOps
    /\ \A i, j \in DOMAIN queue :
         queue[i].op = "acquire" /\ queue[j].op = "acquire" /\ queue[i].a = queue[j].a => i = j

Arrivals ==
    \A a \in Activities :
         /\ ArrivingNow(a) \/ ArrivingLater(a) => a \in acquired
         /\ ArrivingNow(a) => ~ArrivingLater(a)
         /\ a \notin acquired \/ ArrivingNow(a) \/ ArrivingLater(a) => Untouched(a)

Structure == Orderly /\ ActiveFits /\ ProgramFits /\ CallerFits /\ QueueFits /\ Arrivals

\* The highest active channel: it is active, none is higher, and it is the only one such.
LEMMA TopIs ==
    ASSUME TypeOK
    PROVE  /\ m_activeChannels = {} => Top = None
           /\ m_activeChannels # {} =>
                 Top \in m_activeChannels /\ Top # None /\ \A d \in m_activeChannels : Top <= d
           /\ \A c \in Channels : c \in m_activeChannels /\ (\A d \in m_activeChannels : c <= d) => c = Top
           /\ Top # None => Top \in m_activeChannels
<1>1. m_activeChannels = {} => Top = None
  BY DEF Top, getHighestPriorityActiveChannelLocked, HighestPriority
<1>2. m_activeChannels # {} => Top \in m_activeChannels /\ \A d \in m_activeChannels : Top <= d
  BY HighestIsOne DEF TypeOK, Top, getHighestPriorityActiveChannelLocked
<1>3. m_activeChannels \subseteq Channels /\ Channels \subseteq Nat /\ None \notin Channels
  BY ConstantsAre DEF TypeOK
<1>4. ASSUME NEW c \in Channels, c \in m_activeChannels, \A d \in m_activeChannels : c <= d PROVE c = Top
  <2>1. Top \in Nat /\ c \in Nat /\ c <= Top /\ Top <= c
    BY <1>2, <1>3, <1>4
  <2> QED BY <2>1
<1> QED BY <1>1, <1>2, <1>3, <1>4

\* It changes with m_activeChannels only.
LEMMA TopStays == UNCHANGED m_activeChannels => Top' = Top
BY DEF Top, getHighestPriorityActiveChannelLocked

-----------------------------------------------------------------------------
(* A channel stays in order *)

\* A channel that lost some activities, or none.
Keeps(ch, n) ==
    /\ n.focusState = ch.focusState /\ Range(n.activities) \subseteq Range(ch.activities)
    /\ Distinct(ch.activities) => Distinct(n.activities)

\* Distinct activities stay distinct when one goes, and it is gone.
LEMMA WithoutDistinct ==
    ASSUME NEW s \in Seq(Activities), NEW a, Distinct(s)
    PROVE  Distinct(Without(s, a)) /\ a \notin Range(Without(s, a))
<1>1. CASE a \notin Range(s)
  BY <1>1 DEF Without
<1>2. CASE a \in Range(s)
  <2> DEFINE P(i) == s[i] = a /\ \A j \in 1..(i - 1) : s[j] # a
             S == {i \in DOMAIN s : s[i] = a}
             first == CHOOSE k \in DOMAIN s : P(k)
             w == Without(s, a)
  <2>1. S \in SUBSET Nat /\ S # {} /\ DOMAIN s = 1..Len(s) /\ Len(s) \in Nat
    BY <1>2 DEF Range
  <2>2. PICK i \in S : \A j \in S : i <= j
    BY <2>1, LeastExists
  <2>3. i \in DOMAIN s /\ P(i)
    BY <2>1, <2>2
  <2>4. first \in 1..Len(s) /\ s[first] = a
    BY <2>1, <2>3
  <2>5. w = RemoveAt(s, first)
    BY <1>2 DEF Without
  <2> HIDE DEF first, w, S, P
  <2>6. /\ w \in Seq(Activities) /\ Len(w) = Len(s) - 1
        /\ \A j \in 1..(Len(s) - 1) : w[j] = IF j < first THEN s[j] ELSE s[j + 1]
    BY <2>4, <2>5, RemoveAtIndex
  <2>7. DOMAIN w = 1..(Len(s) - 1)
    BY <2>6
  <2>8. ASSUME NEW j \in DOMAIN w, NEW k \in DOMAIN w, w[j] = w[k] PROVE j = k
    <3> DEFINE x == IF j < first THEN j ELSE j + 1
               y == IF k < first THEN k ELSE k + 1
    <3>1. x \in DOMAIN s /\ y \in DOMAIN s /\ w[j] = s[x] /\ w[k] = s[y]
      BY <2>1, <2>4, <2>6, <2>7
    <3>2. x = y
      BY <2>8, <3>1 DEF Distinct
    <3> QED BY <2>1, <2>4, <2>7, <3>2
  <2>9. ASSUME NEW j \in DOMAIN w PROVE w[j] # a
    <3> DEFINE x == IF j < first THEN j ELSE j + 1
    <3>1. x \in DOMAIN s /\ w[j] = s[x] /\ x # first /\ first \in DOMAIN s
      BY <2>1, <2>4, <2>6, <2>7
    <3> QED BY <2>4, <3>1 DEF Distinct
  <2> QED BY <2>8, <2>9 DEF Distinct, Range, w
<1> QED BY <1>1, <1>2

\* Removing an activity.
LEMMA RemovedKeeps ==
    ASSUME NEW ch \in ChannelType, NEW a
    PROVE  LET n == removeActivityHelperLocked(ch, a)
           IN  /\ n \in ChannelType /\ Keeps(ch, n)
               /\ n.timer \in {ch.timer, "off"} /\ (InPatience(ch, a) => n.timer = "off")
               /\ Ordered(ch) => Ordered(n)
               /\ Distinct(ch.activities) /\ ch.activities # <<>> /\ Head(ch.activities) \in Range(n.activities) =>
                     n.activities # <<>> /\ Head(n.activities) = Head(ch.activities)
<1> DEFINE n == removeActivityHelperLocked(ch, a)
<1>1. /\ n \in ChannelType /\ n.activities = Without(ch.activities, a)
      /\ InPatience(ch, a) => n.timer = "off"
      /\ ~InPatience(ch, a) => n.initiator = ch.initiator /\ n.timer = ch.timer /\ n.expiring = ch.expiring
  BY RemovedChannel
<1>2. n.focusState = ch.focusState
  <2> DEFINE s == IF InPatience(ch, a) THEN [Stopped(ch) EXCEPT !.initiator = None, !.receiver = None]
                  ELSE ch
  <2>1. s.focusState = ch.focusState /\ s \in ChannelType
    <3>1. Stopped(ch) \in ChannelType /\ Stopped(ch).focusState = ch.focusState
      BY DEF Stopped, ChannelType
    <3>2. /\ [Stopped(ch) EXCEPT !.initiator = None, !.receiver = None] \in ChannelType
          /\ [Stopped(ch) EXCEPT !.initiator = None, !.receiver = None].focusState = ch.focusState
      BY <3>1 DEF ChannelType
    <3> QED BY <3>2
  <2>2. n = [s EXCEPT !.activities = Without(s.activities, a)]
    BY DEF removeActivityHelperLocked
  <2> HIDE DEF s, n
  <2> QED BY <2>1, <2>2 DEF ChannelType
<1>3. ch.activities \in Seq(Activities)
  BY DEF ChannelType
<1>4. Keeps(ch, n)
  <2> HIDE DEF n
  <2> QED BY <1>1, <1>2, <1>3, WithoutKeeps, WithoutDistinct DEF Keeps
<1>5. ASSUME Ordered(ch), n.timer \in {"running", "fired"}
      PROVE  /\ n.activities # <<>> /\ n.initiator = Head(n.activities)
             /\ n.expiring # Head(n.activities)
  <2> HIDE DEF n
  <2>1. ~InPatience(ch, a)
    BY <1>1, <1>5
  <2>2. /\ ch.activities # <<>> /\ ch.initiator = Head(ch.activities)
        /\ ch.expiring # Head(ch.activities) /\ ch.timer # "off"
    BY <1>1, <1>5, <2>1 DEF Ordered
  <2>3. a # Head(ch.activities)
    BY <2>1, <2>2 DEF InPatience
  <2>4. Without(ch.activities, a) # <<>> /\ Head(Without(ch.activities, a)) = Head(ch.activities)
    BY <1>3, <2>2, <2>3, WithoutKeeps
  <2> QED BY <1>1, <2>1, <2>2, <2>4
<1> HIDE DEF n
<1>6. ASSUME Distinct(ch.activities), ch.activities # <<>>, Head(ch.activities) \in Range(n.activities)
      PROVE  n.activities # <<>> /\ Head(n.activities) = Head(ch.activities)
  <2>1. Head(ch.activities) # a
    BY <1>1, <1>3, <1>6, WithoutDistinct
  <2> QED BY <1>1, <1>3, <1>6, <2>1, WithoutKeeps
<1> QED BY <1>1, <1>4, <1>5, <1>6 DEF Ordered, n

\* Releasing an activity, if it is there.
LEMMA ReleasedKeeps ==
    ASSUME NEW ch \in ChannelType, NEW a
    PROVE  LET n == releaseActivityLocked(ch, a)
           IN  /\ n \in ChannelType /\ Keeps(ch, n) /\ n.timer \in {ch.timer, "off"}
               /\ a \in Range(ch.activities) /\ InPatience(ch, a) => n.timer = "off"
<1>1. CASE a \in Range(ch.activities)
  BY <1>1, RemovedKeeps DEF releaseActivityLocked
<1>2. CASE a \notin Range(ch.activities)
  BY <1>2 DEF releaseActivityLocked, Keeps
<1> QED BY <1>1, <1>2

\* An arrival, before it becomes the primary activity: a timer runs only for its own patience.
LEMMA PolicyKeeps ==
    ASSUME NEW ch \in ChannelType, NEW a \in Activities, ch.activities # <<>>, Ordered(ch)
    PROVE  LET n == processPolicyLocked(ch, a)
           IN  /\ Keeps(ch, n)
               /\ n.timer \in {"running", "fired"} => n.initiator = a /\ n.expiring # a
<1> DEFINE current == Head(ch.activities)
           ended == IF ch.timer = "off" THEN ch
                    ELSE [releaseActivityLocked(Stopped(ch), ch.receiver) EXCEPT !.receiver = None]
           alone == [releaseActivityLocked(ended, ended.initiator) EXCEPT !.initiator = None]
<1>1. current \in Activities /\ current \in Range(ch.activities)
  <2>1. ch.activities \in Seq(Activities)
    BY DEF ChannelType
  <2>2. 1 \in DOMAIN ch.activities /\ current = ch.activities[1] /\ current \in Activities
    BY <2>1
  <2> QED BY <2>1, <2>2 DEF Range
<1>2. ended \in ChannelType /\ ended.timer = "off" /\ Keeps(ch, ended)
  <2>1. CASE ch.timer = "off"
    BY <2>1 DEF Keeps
  <2>2. CASE ch.timer # "off"
    <3> DEFINE s == Stopped(ch)
               r == releaseActivityLocked(s, ch.receiver)
    <3>1. s \in ChannelType /\ s.timer = "off" /\ s.activities = ch.activities /\ s.focusState = ch.focusState
      BY DEF Stopped, ChannelType
    <3> HIDE DEF s
    <3>2. r \in ChannelType /\ Keeps(s, r) /\ r.timer = "off"
      BY <3>1, ReleasedKeeps
    <3>3. ended = [r EXCEPT !.receiver = None]
      BY <2>2 DEF s
    <3> HIDE DEF r
    <3>4. /\ ended \in ChannelType /\ ended.activities = r.activities /\ ended.timer = r.timer
          /\ ended.focusState = r.focusState
      BY <3>2, <3>3 DEF ChannelType
    <3> HIDE DEF ended
    <3> QED BY <3>1, <3>2, <3>4 DEF Keeps
  <2> QED BY <2>1, <2>2
<1> HIDE DEF ended
<1>3. alone \in ChannelType /\ alone.timer = "off" /\ Keeps(ch, alone)
  <2> DEFINE r == releaseActivityLocked(ended, ended.initiator)
  <2>1. r \in ChannelType /\ Keeps(ended, r) /\ r.timer = "off"
    BY <1>2, ReleasedKeeps
  <2>2. alone = [r EXCEPT !.initiator = None]
    OBVIOUS
  <2> HIDE DEF r, alone
  <2>3. /\ alone \in ChannelType /\ alone.activities = r.activities /\ alone.timer = r.timer
        /\ alone.focusState = r.focusState
    BY <2>1, <2>2 DEF ChannelType
  <2> QED BY <1>2, <2>1, <2>3 DEF Keeps
<1> HIDE DEF alone, current
<1> DEFINE n == processPolicyLocked(ch, a)
           goal == /\ Keeps(ch, n)
                   /\ n.timer \in {"running", "fired"} => n.initiator = a /\ n.expiring # a
<1> SUFFICES goal
  OBVIOUS
<1>4. CASE interfaceOf[a] = interfaceOf[current]
  <2>1. n = releaseActivityLocked(ch, current)
    BY <1>4 DEF processPolicyLocked, current
  <2> HIDE DEF n
  <2>2. Keeps(ch, n) /\ n.timer \in {ch.timer, "off"} /\ (InPatience(ch, current) => n.timer = "off")
    BY <1>1, <2>1, ReleasedKeeps
  <2>3. ch.timer \in {"running", "fired"} => InPatience(ch, current)
    BY DEF Ordered, InPatience, current
  <2> QED BY <2>2, <2>3
<1>5. CASE interfaceOf[a] # interfaceOf[current] /\ a \in Patient
  <2>1. n = [ended EXCEPT !.timer = "running", !.expiring = current, !.initiator = a, !.receiver = current]
    BY <1>5 DEF processPolicyLocked, current, ended
  <2> HIDE DEF n
  <2>2. /\ n.expiring = current /\ n.initiator = a /\ n.activities = ended.activities
        /\ n.focusState = ended.focusState
    BY <1>1, <1>2, <2>1 DEF ChannelType
  <2>3. current # a
    BY <1>5
  <2> QED BY <1>2, <2>2, <2>3 DEF Keeps
<1>6. CASE interfaceOf[a] # interfaceOf[current] /\ a \notin Patient
  <2>1. n = releaseActivityLocked(alone, current)
    BY <1>6 DEF processPolicyLocked, current, ended, alone
  <2> HIDE DEF n
  <2>2. Keeps(alone, n) /\ n.timer = "off"
    BY <1>3, <2>1, ReleasedKeeps
  <2> QED BY <1>3, <2>2 DEF Keeps
<1> QED BY <1>4, <1>5, <1>6

\* An arrival that was not there before.
LEMMA ArrivalKeeps ==
    ASSUME NEW ch \in ChannelType, NEW a \in Activities, a \notin Range(ch.activities), Ordered(ch),
           Distinct(ch.activities)
    PROVE  LET n == setPrimaryActivity(ch, a)
           IN  /\ n \in ChannelType /\ n.focusState = ch.focusState /\ Ordered(n) /\ Distinct(n.activities)
               /\ n.activities # <<>> /\ Head(n.activities) = a
               /\ Range(n.activities) \subseteq Range(ch.activities) \cup {a}
<1> DEFINE before == IF ch.activities = <<>> THEN ch ELSE processPolicyLocked(ch, a)
           n == setPrimaryActivity(ch, a)
<1>1. /\ before \in ChannelType /\ Keeps(ch, before)
      /\ before.timer \in {"running", "fired"} => before.initiator = a /\ before.expiring # a
  <2>1. CASE ch.activities = <<>>
    BY <2>1 DEF Ordered, Keeps
  <2>2. CASE ch.activities # <<>>
    <3>1. before = processPolicyLocked(ch, a)
      BY <2>2
    <3> HIDE DEF before
    <3> QED BY <2>2, <3>1, PolicyChannel, PolicyKeeps
  <2> QED BY <2>1, <2>2
<1>2. n = [before EXCEPT !.activities = <<a>> \o before.activities]
  BY DEF setPrimaryActivity
<1>3. n \in ChannelType
  BY ArrivalChannel
<1> HIDE DEF before, n
<1>4. before.activities \in Seq(Activities) /\ <<a>> \in Seq(Activities)
  BY <1>1 DEF ChannelType
<1> DEFINE s == before.activities
           all == <<a>> \o s
<1>5. /\ all \in Seq(Activities) /\ Len(all) = 1 + Len(s) /\ all[1] = a /\ Len(s) \in Nat
      /\ \A i \in 2..(1 + Len(s)) : all[i] = s[i - 1]
  BY <1>4
<1>6. Range(all) = {a} \cup Range(s)
  <2> HIDE DEF s
  <2>1. \A p, q \in Seq(Activities) : Range(p \o q) = Range(p) \cup Range(q)
    BY RangeParts
  <2>2. Range(<<a>>) = {a}
    BY RangeParts
  <2> QED BY <1>4, <2>1, <2>2 DEF s
<1>7. /\ n.activities = all /\ n.focusState = before.focusState /\ n.timer = before.timer
      /\ n.initiator = before.initiator /\ n.expiring = before.expiring
  BY <1>1, <1>2, <1>4 DEF ChannelType
<1> HIDE DEF s, all
<1>8. all # <<>> /\ Head(all) = a
  BY <1>5
<1>9. Distinct(all)
  <2>1. Distinct(s) /\ a \notin Range(s) /\ DOMAIN s = 1..Len(s) /\ DOMAIN all = 1..(1 + Len(s))
    BY <1>1, <1>4, <1>5 DEF Keeps, s
  <2>2. ASSUME NEW i \in DOMAIN all, i # 1 PROVE i - 1 \in DOMAIN s /\ all[i] = s[i - 1] /\ all[i] # a
    <3>1. i - 1 \in DOMAIN s /\ all[i] = s[i - 1]
      BY <1>5, <2>1, <2>2
    <3> QED BY <2>1, <3>1 DEF Range
  <2>3. ASSUME NEW i \in DOMAIN all, NEW j \in DOMAIN all, all[i] = all[j] PROVE i = j
    <3>1. CASE i = 1 \/ j = 1
      BY <1>5, <2>2, <2>3, <3>1
    <3>2. CASE i # 1 /\ j # 1
      <4>1. i - 1 = j - 1
        BY <2>1, <2>2, <2>3, <3>2 DEF Distinct
      <4> QED BY <2>1, <4>1
    <3> QED BY <3>1, <3>2
  <2> QED BY <2>3 DEF Distinct
<1>10. Ordered(n)
  BY <1>1, <1>7, <1>8 DEF Ordered
<1> QED BY <1>1, <1>3, <1>6, <1>7, <1>8, <1>9, <1>10 DEF Keeps, n, s

\* The callback of a timer leaves the primary activity where it is.
LEMMA ExpiredKeeps ==
    ASSUME NEW ch \in ChannelType, Ordered(ch), ch.timer = "fired"
    PROVE  LET n == Expired(ch)
           IN  /\ n \in ChannelType /\ Ordered(n) /\ Keeps(ch, n)
               /\ ch.activities # <<>> /\ n.activities # <<>> /\ Head(n.activities) = Head(ch.activities)
<1> DEFINE own == ch.expiring \in Range(ch.activities) /\ InPatience(ch, ch.expiring)
           w == Without(ch.activities, ch.expiring)
           s == ch.stopping \/ own
           n == Expired(ch)
<1>1. n \in ChannelType /\ n.timer = "done" /\ ch.activities \in Seq(Activities)
  BY ExpiredChannel DEF ChannelType
<1>2. n = [ch EXCEPT !.timer = "done", !.stopping = s, !.activities = w,
                     !.initiator = IF own THEN None ELSE ch.initiator,
                     !.receiver = IF own THEN None ELSE ch.receiver]
  BY DEF Expired
<1> HIDE DEF own, s, n, w
<1>3. n.activities = w /\ n.focusState = ch.focusState
  BY <1>2 DEF ChannelType
<1>4. ch.activities # <<>> /\ ch.expiring # Head(ch.activities)
  BY DEF Ordered
<1>5. w # <<>> /\ Head(w) = Head(ch.activities)
  BY <1>1, <1>4, WithoutKeeps DEF w
<1>6. Keeps(ch, n)
  BY <1>1, <1>3, WithoutKeeps, WithoutDistinct DEF Keeps, w
<1> QED BY <1>1, <1>3, <1>4, <1>5, <1>6 DEF Ordered, n

-----------------------------------------------------------------------------
(* What holds unless somebody was told something out of date *)

\* An operation that brings c to the background.
Backs(o, c) ==
    \/ o.op = "background" /\ o.at < c
    \/ o.op = "behind" /\ o.c = c
    \/ o.op = "focus" /\ o.f = "BACKGROUND" /\ o.c = c

\* The executor is about to bring c to the background, or a channel to the foreground.
WillBack(c) == \E o \in Program : Backs(o, c)

WillFront ==
    \E o \in Program : o.op \in {"foreground", "stopAll"} \/ (o.op = "focus" /\ o.f = "FOREGROUND")

\* Everybody on the highest channel will be told, whatever they know.
Redo ==
    \E o \in Program : \/ o.op = "notify" /\ o.f = "FOREGROUND"
                       \/ o.op = "focus" /\ o.f = "FOREGROUND" /\ o.force

Telling(a, f) == \E o \in Program : o.op = "tell" /\ o.a = a /\ o.f = f

Informed(a) ==
    \/ told[a] = "BACKGROUND" \/ m_mixingBehavior[a] = "UNDEFINED"
    \/ \E o \in Program \cup Callers :
          (o.op = "notify" /\ o.c = channelOf[a]) \/ (o.op = "tell" /\ o.a = a /\ o.f = "BACKGROUND")

\* An activity of the highest channel, once the channel has the foreground.
Knows(a) ==
    IF Primary(a)
    THEN \/ told[a] = "FOREGROUND" \/ Telling(a, "FOREGROUND")
         \/ m_mixingBehavior[a] # "PRIMARY" /\ WillFront
    ELSE (told[a] = "BACKGROUND" /\ m_mixingBehavior[a] # "PRIMARY") \/ Telling(a, "BACKGROUND")

Gone == \A a \in Activities : ~Present(a) => told[a] = "NONE"

\* An arrival on the highest channel is told.
ArrivalTold ==
    \A o \in Program : o.op = "setPrimary" /\ channelOf[o.a] = Top => Redo \/ channel[Top].focusState = "NONE"

Silent ==
    \A c \in Channels : c \notin m_activeChannels =>
        channel[c].focusState = "NONE" \/ \E o \in Program : o.op = "focus" /\ o.c = c /\ o.f = "NONE"

Backed ==
    \A c \in Channels : c \in m_activeChannels /\ c # Top => channel[c].focusState = "BACKGROUND" \/ WillBack(c)

Fronted == Top # None => channel[Top].focusState = "FOREGROUND" \/ WillFront

\* Nobody is told about the foreground before the highest channel has it.
FrontFirst ==
    \A o \in Program : o.op \in {"notify", "tell"} /\ o.f = "FOREGROUND" => channel[Top].focusState = "FOREGROUND"

BackInformed ==
    \A a \in Activities : Present(a) /\ channel[channelOf[a]].focusState = "BACKGROUND" => Informed(a)

FrontInformed ==
    Top # None /\ channel[Top].focusState = "FOREGROUND" =>
        Redo \/ \A a \in Activities : Present(a) /\ channelOf[a] = Top => Knows(a)

Knowledge ==
    ~overtaken => /\ Gone /\ ArrivalTold /\ Silent /\ Backed /\ Fronted /\ FrontFirst
                  /\ BackInformed /\ FrontInformed

-----------------------------------------------------------------------------
(* Steps that leave the activities where they are *)

\* At most the focus of channels changes.
SameChannels ==
    \A c \in Channels :
        /\ channel'[c].activities = channel[c].activities /\ channel'[c].timer = channel[c].timer
        /\ channel'[c].initiator = channel[c].initiator /\ channel'[c].expiring = channel[c].expiring

\* The same activities are there, and the same in front.
LEMMA SamePresent ==
    ASSUME SameChannels, NEW a \in Activities
    PROVE  (Present(a)' <=> Present(a)) /\ (Primary(a)' <=> Primary(a))
BY ConstantsAre DEF SameChannels, Present, Primary

\* Channels stay in order.
LEMMA SameOrderly ==
    ASSUME Orderly, SameChannels
    PROVE  Orderly'
<1> SUFFICES ASSUME NEW c \in Channels
             PROVE  /\ Ordered(channel[c])' /\ Distinct(channel[c].activities)'
                    /\ \A a \in Range(channel'[c].activities) : channelOf[a] = c
  BY DEF Orderly
<1>1. /\ channel'[c].activities = channel[c].activities /\ channel'[c].timer = channel[c].timer
      /\ channel'[c].initiator = channel[c].initiator /\ channel'[c].expiring = channel[c].expiring
  BY DEF SameChannels
<1>2. /\ Ordered(channel[c]) /\ Distinct(channel[c].activities)
      /\ \A a \in Range(channel[c].activities) : channelOf[a] = c
  BY DEF Orderly
<1> QED BY <1>1, <1>2 DEF Ordered, Distinct

\* What fitted fits as long as the same channels are active and the same activities in front.
LEMMA FitsStays ==
    ASSUME UNCHANGED m_activeChannels, NEW o \in Ops, OpFits(o),
           o.op = "tell" => (Primary(o.a)' <=> Primary(o.a))
    PROVE  OpFits(o)'
<1>1. Top' = Top
  BY TopStays
<1>2. o.op = "tell" /\ TellFits(o) => TellFits(o)'
  BY <1>1 DEF TellFits
<1> QED BY <1>1, <1>2 DEF OpFits

\* A step after which the executor and the callers only have other things to do: arrivals
\* are the same, channels that are about to be cleared have activities, and whoever will be told
\* is there.
LEMMA ProgramFrame ==
    ASSUME TypeOK, TypeOK', Structure, SameChannels, CallerFits', Shape(todo'["executor"]),
           UNCHANGED <<m_activeChannels, toldVars, queue, acquired>>,
           \A o \in Program' : o \in Program \/ OpFits(o)',
           \A o \in Program : \/ o \in Program' \/ o.op \notin {"setPrimary", "clear"}
                              \/ o.op = "clear" /\ channel[o.c].activities # <<>>,
           \A o \in Program' : o.op \in {"acquire", "setPrimary"} => o \in Program,
           \A o \in (Program \cup Callers)' : o.op = "tell" => o \in Program \cup Callers \/ Present(o.a)
    PROVE  Structure'
<1>1. Orderly' /\ QueueFits'
  BY SameOrderly DEF Structure, QueueFits
<1>2. ActiveFits'
  BY DEF Structure, ActiveFits, SameChannels
<1>3. ProgramFits'
  <2> SUFFICES ASSUME NEW o \in Program' PROVE OpFits(o)'
    BY DEF ProgramFits
  <2>1. CASE o \in Program
    <3>1. o \in Ops /\ OpFits(o)
      BY <2>1, RangeParts, TwoThreads DEF Structure, ProgramFits, Program, TypeOK
    <3>2. o.op = "tell" => (Primary(o.a)' <=> Primary(o.a))
      BY <3>1, OpFields, SamePresent
    <3> QED BY <3>1, <3>2, FitsStays
  <2> QED BY <2>1
<1>4. Arrivals'
  <2> SUFFICES ASSUME NEW a \in Activities
               PROVE  /\ ArrivingNow(a)' \/ ArrivingLater(a)' => a \in acquired
                      /\ ArrivingNow(a)' => ~ArrivingLater(a)'
                      /\ a \notin acquired \/ ArrivingNow(a)' \/ ArrivingLater(a)' => Untouched(a)'
    BY DEF Arrivals
  <2>1. /\ ArrivingNow(a) \/ ArrivingLater(a) => a \in acquired
        /\ ArrivingNow(a) => ~ArrivingLater(a)
        /\ a \notin acquired \/ ArrivingNow(a) \/ ArrivingLater(a) => Untouched(a)
    BY DEF Structure, Arrivals
  <2>2. (ArrivingNow(a)' => ArrivingNow(a)) /\ (ArrivingLater(a)' <=> ArrivingLater(a))
    BY DEF ArrivingNow, ArrivingLater
  <2>3. Untouched(a) => Untouched(a)'
    <3>1. Present(a)' <=> Present(a)
      BY SamePresent
    <3>2. Untouched(a) => \A o \in (Program \cup Callers)' : o.op = "tell" => o.a # a
      BY DEF Untouched
    <3> QED BY <3>1, <3>2 DEF Untouched, toldVars
  <2> QED BY <2>1, <2>2, <2>3
<1> QED BY <1>1, <1>2, <1>3, <1>4 DEF Structure

\* A step after which the executor and the callers only have other things to do: whoever will
\* be told and every channel that will be brought to the background or the foreground still will.
LEMMA KnowledgeFrame ==
    ASSUME Knowledge, UNCHANGED <<channel, m_activeChannels, toldVars>>, ~overtaken' => ~overtaken,
           \A o \in Program : \/ o \in Program' \/ o.op \notin {"focus", "notify", "tell"}
                              \/ o.op = "notify" /\ o.f # "FOREGROUND",
           \A o \in Program' : \/ o \in Program \/ o.op \notin {"setPrimary", "notify", "tell"}
                               \/ o.op = "tell" /\ o.f # "FOREGROUND",
           \A a \in Activities : Present(a) /\ Informed(a) => Informed(a)',
           \A c \in Channels : c \in m_activeChannels /\ c # Top /\ WillBack(c) => WillBack(c)',
           Top # None /\ WillFront => WillFront'
    PROVE  Knowledge'
<1> SUFFICES ASSUME ~overtaken'
             PROVE  /\ Gone' /\ ArrivalTold' /\ Silent' /\ Backed' /\ Fronted' /\ FrontFirst'
                    /\ BackInformed' /\ FrontInformed'
  BY DEF Knowledge
<1>1. /\ Gone /\ ArrivalTold /\ Silent /\ Backed /\ Fronted /\ FrontFirst
      /\ BackInformed /\ FrontInformed
  BY DEF Knowledge
<1>2. SameChannels /\ Top' = Top
  BY TopStays DEF SameChannels
<1>3. \A a \in Activities : (Present(a)' <=> Present(a)) /\ (Primary(a)' <=> Primary(a))
  BY <1>2, SamePresent
<1>4. Redo => Redo'
  BY DEF Redo
<1>5. Gone' /\ ArrivalTold' /\ Silent' /\ FrontFirst'
  <2>1. Gone'
    BY <1>1, <1>3 DEF Gone, toldVars
  <2>2. ArrivalTold'
    BY <1>1, <1>2, <1>4 DEF ArrivalTold
  <2>3. Silent' /\ FrontFirst'
    BY <1>1, <1>2 DEF Silent, FrontFirst
  <2> QED BY <2>1, <2>2, <2>3
<1>6. Backed' /\ Fronted'
  BY <1>1, <1>2 DEF Backed, Fronted
<1>7. BackInformed'
  BY <1>1, <1>3 DEF BackInformed
<1>8. FrontInformed'
  <2>1. ASSUME NEW a \in Activities, Top # None, Knows(a) PROVE Knows(a)'
    <3>1. \A f : Telling(a, f) => Telling(a, f)'
      BY DEF Telling
    <3> QED BY <1>3, <2>1, <3>1 DEF Knows, toldVars
  <2> QED BY <1>1, <1>2, <1>3, <1>4, <2>1 DEF FrontInformed
<1> QED BY <1>5, <1>6, <1>7, <1>8

\* A step that changes nothing of this.
LEMMA NothingMoves ==
    ASSUME TypeOK, TypeOK', Structure, Knowledge, CallerFits',
           UNCHANGED <<channel, m_activeChannels, toldVars, todo, queue, acquired, overtaken>>
    PROVE  Structure' /\ Knowledge'
<1>1. SameChannels /\ Program' = Program /\ Callers' = Callers
  BY DEF SameChannels, Program, Callers
<1>2. Structure'
  BY <1>1, ProgramFrame DEF Structure, ProgramFits
<1>3. WillFront' = WillFront /\ \A c \in Channels : WillBack(c)' = WillBack(c)
  BY <1>1 DEF WillFront, WillBack, Backs
<1>4. \A a \in Activities : Informed(a) => Informed(a)'
  BY <1>1 DEF Informed, toldVars
<1> QED BY <1>1, <1>2, <1>3, <1>4, KnowledgeFrame

-----------------------------------------------------------------------------
(* The callers' calls *)

\* Another task waits, behind the others or in front of them.
LEMMA QueueGrows ==
    ASSUME TypeOK, QueueFits, NEW o \in Ops, o.op \in TaskOps, o.op = "acquire" => ~ArrivingLater(o.a),
           queue' = Append(queue, o) \/ queue' = <<o>> \o queue
    PROVE  QueueFits' /\ Range(queue') = Range(queue) \cup {o}
<1>1. queue \in Seq(Ops) /\ <<o>> \in Seq(Ops)
  BY DEF TypeOK
<1>2. Range(queue') = Range(queue) \cup {o}
  <2>1. \A p, q \in Seq(Ops) : Range(p \o q) = Range(p) \cup Range(q)
    BY RangeParts
  <2>2. Range(<<o>>) = {o}
    BY RangeParts
  <2>3. Append(queue, o) = queue \o <<o>>
    BY <1>1, AppendIsConcat
  <2>4. Range(queue \o <<o>>) = Range(queue) \cup {o} /\ Range(<<o>> \o queue) = {o} \cup Range(queue)
    BY <1>1, <2>1, <2>2
  <2> QED BY <2>3, <2>4
<1> DEFINE Alone(q) == \A i, j \in DOMAIN q :
               q[i].op = "acquire" /\ q[j].op = "acquire" /\ q[i].a = q[j].a => i = j
<1>3. Alone(queue) /\ DOMAIN queue = 1..Len(queue) /\ Len(queue) \in Nat
  BY <1>1 DEF QueueFits
<1>4. \A i \in DOMAIN queue : o.op = "acquire" /\ queue[i].op = "acquire" => queue[i].a # o.a
  BY DEF ArrivingLater, Range
<1>5. CASE queue' = Append(queue, o)
  <2>1. /\ DOMAIN queue' = 1..(Len(queue) + 1) /\ queue'[Len(queue) + 1] = o
        /\ \A i \in 1..Len(queue) : queue'[i] = queue[i]
    BY <1>1, <1>5
  <2>2. ASSUME NEW i \in DOMAIN queue', NEW j \in DOMAIN queue', queue'[i].op = "acquire",
               queue'[j].op = "acquire", queue'[i].a = queue'[j].a
        PROVE  i = j
    <3>1. CASE i \in DOMAIN queue /\ j \in DOMAIN queue
      BY <1>3, <2>1, <2>2, <3>1
    <3>2. CASE i \notin DOMAIN queue \/ j \notin DOMAIN queue
      BY <1>3, <1>4, <2>1, <2>2, <3>2
    <3> QED BY <3>1, <3>2
  <2> QED BY <1>2, <2>2 DEF QueueFits
<1>6. CASE queue' = <<o>> \o queue
  <2>1. /\ DOMAIN queue' = 1..(Len(queue) + 1) /\ queue'[1] = o
        /\ \A i \in 2..(Len(queue) + 1) : queue'[i] = queue[i - 1]
    BY <1>1, <1>6
  <2>2. ASSUME NEW i \in DOMAIN queue', NEW j \in DOMAIN queue', queue'[i].op = "acquire",
               queue'[j].op = "acquire", queue'[i].a = queue'[j].a
        PROVE  i = j
    <3>1. CASE i # 1 /\ j # 1
      <4>1. i - 1 \in DOMAIN queue /\ j - 1 \in DOMAIN queue /\ queue'[i] = queue[i - 1] /\ queue'[j] = queue[j - 1]
        BY <1>3, <2>1, <3>1
      <4>2. i - 1 = j - 1
        BY <1>3, <2>2, <4>1
      <4> QED BY <2>1, <4>2
    <3>2. CASE i = 1 /\ j # 1
      <4>1. j - 1 \in DOMAIN queue /\ queue'[j] = queue[j - 1]
        BY <1>3, <2>1, <3>2
      <4> QED BY <1>4, <2>1, <2>2, <3>2, <4>1
    <3>3. CASE i # 1 /\ j = 1
      <4>1. i - 1 \in DOMAIN queue /\ queue'[i] = queue[i - 1]
        BY <1>3, <2>1, <3>3
      <4> QED BY <1>4, <2>1, <2>2, <3>3, <4>1
    <3> QED BY <3>1, <3>2, <3>3
  <2> QED BY <1>2, <2>2 DEF QueueFits
<1> QED BY <1>2, <1>5, <1>6

\* A step of the queue alone: an arrival is announced before anybody knows the activity.
LEMMA QueueMoves ==
    ASSUME TypeOK, TypeOK', Structure, Knowledge, QueueFits', CallerFits',
           UNCHANGED <<channel, m_activeChannels, toldVars, todo, overtaken>>,
           acquired \subseteq acquired',
           \A a \in Activities : ArrivingLater(a)' => ArrivingLater(a) \/ (a \notin acquired /\ a \in acquired')
    PROVE  Structure' /\ Knowledge'
<1>1. SameChannels /\ Program' = Program /\ Callers' = Callers
  BY DEF SameChannels, Program, Callers
<1>2. Orderly' /\ ActiveFits'
  BY <1>1, SameOrderly DEF Structure, ActiveFits
<1>3. ProgramFits'
  <2>1. Top' = Top /\ \A a \in Activities : Primary(a)' <=> Primary(a)
    BY <1>1, TopStays, SamePresent
  <2>2. ASSUME NEW o \in Program PROVE OpFits(o)'
    <3>1. o \in Ops /\ OpFits(o)
      BY RangeParts, TwoThreads DEF Structure, ProgramFits, Program, TypeOK
    <3>2. o.op = "tell" => (Primary(o.a)' <=> Primary(o.a))
      BY <2>1, <3>1, OpFields
    <3> QED BY <3>1, <3>2, FitsStays
  <2> QED BY <1>1, <2>2 DEF Structure, ProgramFits
<1>4. Arrivals'
  <2>1. ASSUME NEW a \in Activities
        PROVE  /\ ArrivingNow(a)' \/ ArrivingLater(a)' => a \in acquired'
               /\ ArrivingNow(a)' => ~ArrivingLater(a)'
               /\ a \notin acquired' \/ ArrivingNow(a)' \/ ArrivingLater(a)' => Untouched(a)'
    <3>1. (ArrivingNow(a)' <=> ArrivingNow(a)) /\ (Present(a)' <=> Present(a))
      BY <1>1, SamePresent DEF ArrivingNow
    <3>2. Untouched(a) => Untouched(a)'
      BY <1>1, <3>1 DEF Untouched, toldVars
    <3> QED BY <3>1, <3>2 DEF Structure, Arrivals
  <2> QED BY <2>1 DEF Arrivals
<1>5. WillFront' = WillFront /\ \A c \in Channels : WillBack(c)' = WillBack(c)
  BY <1>1 DEF WillFront, WillBack, Backs
<1>6. \A a \in Activities : Informed(a) => Informed(a)'
  BY <1>1 DEF Informed, toldVars
<1> QED BY <1>1, <1>2, <1>3, <1>4, <1>5, <1>6, KnowledgeFrame DEF Structure

\* The calls: they change what waits for the executor and the caller's own program.
LEMMA StartsKnow ==
    ASSUME TypeOK, TypeOK', Structure, Knowledge, CallerStarts \/ submitToFront
    PROVE  Structure' /\ Knowledge'
<1>1. ASSUME NEW a \in Activities, acquireChannel(a) PROVE Structure' /\ Knowledge'
  <2>1. /\ a \notin acquired /\ acquired' = acquired \cup {a} /\ queue' = Append(queue, Acquire(a))
        /\ UNCHANGED <<channel, m_activeChannels, toldVars, todo, overtaken, captured>>
    BY <1>1 DEF acquireChannel
  <2>2. Acquire(a) \in Ops /\ Acquire(a).op = "acquire" /\ Acquire(a).a = a
    BY OpTypes, OpParts
  <2>3. ~ArrivingLater(a)
    BY <2>1 DEF Structure, Arrivals
  <2>4. QueueFits' /\ Range(queue') = Range(queue) \cup {Acquire(a)}
    BY <2>1, <2>2, <2>3, QueueGrows DEF Structure, TaskOps
  <2>5. CallerFits'
    BY <2>1 DEF Structure, CallerFits, Callers
  <2>6. \A b \in Activities : ArrivingLater(b)' => ArrivingLater(b) \/ (b \notin acquired /\ b \in acquired')
    BY <2>1, <2>2, <2>4 DEF ArrivingLater
  <2> QED BY <2>1, <2>4, <2>5, <2>6, QueueMoves
<1>2. ASSUME NEW o \in Ops, o.op \in {"release", "stop", "stopAll"}, QueueFits, CallerFits',
             queue' = Append(queue, o) \/ queue' = <<o>> \o queue,
             UNCHANGED <<channel, m_activeChannels, toldVars, todo, overtaken, acquired>>
      PROVE  Structure' /\ Knowledge'
  <2>1. QueueFits' /\ Range(queue') = Range(queue) \cup {o}
    BY <1>2, QueueGrows DEF TaskOps
  <2>2. \A b \in Activities : ArrivingLater(b)' => ArrivingLater(b)
    BY <1>2, <2>1 DEF ArrivingLater
  <2> QED BY <1>2, <2>1, <2>2, QueueMoves
<1>3. ASSUME NEW a \in Activities, releaseChannel(a) PROVE Structure' /\ Knowledge'
  <2>1. /\ queue' = Append(queue, Release(channelOf[a], interfaceOf[a]))
        /\ UNCHANGED <<channel, m_activeChannels, toldVars, todo, overtaken, acquired, captured>>
    BY <1>3 DEF releaseChannel
  <2>2. Release(channelOf[a], interfaceOf[a]) \in Ops /\ Release(channelOf[a], interfaceOf[a]).op = "release"
    <3>1. channelOf[a] \in Channels /\ interfaceOf[a] \in Interfaces
      BY ConstantsAre
    <3> QED BY <3>1, OpTypes, OpParts
  <2>3. CallerFits' /\ QueueFits
    BY <2>1 DEF Structure, CallerFits, Callers
  <2> QED BY <1>2, <2>1, <2>2, <2>3
<1>4. ASSUME submitToFront PROVE Structure' /\ Knowledge'
  <2>1. /\ queue' = <<captured>> \o queue /\ captured # None /\ captured' = None
        /\ UNCHANGED <<channel, m_activeChannels, toldVars, todo, overtaken, acquired>>
    BY <1>4 DEF submitToFront
  <2>2. captured \in Ops /\ captured.op \in {"stop", "stopAll"}
    BY <2>1 DEF TypeOK, Structure, CallerFits
  <2>3. CallerFits' /\ QueueFits
    BY <2>1 DEF Structure, CallerFits, Callers
  <2> QED BY <1>2, <2>1, <2>2, <2>3
<1>5. ASSUME NEW a \in Activities, modifyContentType(a) PROVE Structure' /\ Knowledge'
  <2>1. /\ todo["caller"] = <<>> /\ todo' = [todo EXCEPT !["caller"] = <<[op |-> "modified"]>>]
        /\ UNCHANGED <<channel, m_activeChannels, toldVars, overtaken, acquired, queue, captured>>
    BY <1>5 DEF modifyContentType
  <2>2. /\ Program' = Program /\ todo'["executor"] = todo["executor"]
        /\ Callers = {} /\ Callers' = {[op |-> "modified"]}
    <3>1. todo'["executor"] = todo["executor"] /\ todo'["caller"] = <<[op |-> "modified"]>>
      BY <2>1, TwoThreads DEF TypeOK
    <3> QED BY <2>1, <3>1, RangeParts DEF Program, Callers
  <2>3. CallerFits' /\ SameChannels
    BY <2>1, <2>2 DEF Structure, CallerFits, SameChannels
  <2>4. Structure'
    <3>1. \A o \in (Program \cup Callers)' : o.op = "tell" => o \in Program \cup Callers \/ Present(o.a)
      BY <2>2
    <3> QED BY <2>1, <2>2, <2>3, <3>1, ProgramFrame DEF Structure, ProgramFits
  <2>5. WillFront' = WillFront /\ \A c \in Channels : WillBack(c)' = WillBack(c)
    BY <2>2 DEF WillFront, WillBack, Backs
  <2>6. \A b \in Activities : Informed(b) => Informed(b)'
    BY <2>1, <2>2 DEF Informed, toldVars
  <2> QED BY <2>1, <2>2, <2>4, <2>5, <2>6, KnowledgeFrame
<1>6. ASSUME NEW task, task.op \in {"stop", "stopAll"}, StopReads(task) PROVE Structure' /\ Knowledge'
  <2>1. /\ captured' = task
        /\ UNCHANGED <<channel, m_activeChannels, toldVars, todo, queue, acquired, overtaken>>
    BY <1>6 DEF StopReads
  <2>2. CallerFits'
    BY <1>6, <2>1 DEF Structure, CallerFits, Callers
  <2> QED BY <2>1, <2>2, NothingMoves
<1>7. ASSUME stopForegroundActivity \/ stopAllActivities PROVE Structure' /\ Knowledge'
  <2>1. PICK task : StopReads(task) /\ task.op \in {"stop", "stopAll"}
    BY <1>7, OpParts DEF stopForegroundActivity, stopAllActivities
  <2> QED BY <1>6, <2>1
<1> QED BY <1>1, <1>3, <1>4, <1>5, <1>7 DEF CallerStarts

-----------------------------------------------------------------------------
(* The caller's own steps *)

\* What Channel::notifyActivities is about to say.
Tells(c, f, b) ==
    LET acts == channel[c].activities
    IN  [k \in DOMAIN acts |-> IF k = 1 THEN Tell(acts[k], f, b) ELSE Tell(acts[k], "BACKGROUND", "MUST_PAUSE")]

\* Everybody on the channel is told, the primary activity what is given and the others about
\* the background.
LEMMA TellsAre ==
    ASSUME TypeOK, Orderly, NEW c \in Channels, NEW f \in Focuses, NEW b \in Mixings
    PROVE  /\ Tells(c, f, b) \in Seq(Ops)
           /\ \A o \in Range(Tells(c, f, b)) :
                 /\ o.op = "tell" /\ o.a \in Activities /\ channelOf[o.a] = c /\ Present(o.a)
                 /\ IF Primary(o.a) THEN o.f = f /\ o.b = b ELSE o.f = "BACKGROUND" /\ o.b = "MUST_PAUSE"
           /\ \A a \in Activities : Present(a) /\ channelOf[a] = c =>
                 \E o \in Range(Tells(c, f, b)) :
                    o.op = "tell" /\ o.a = a /\ o.f = IF Primary(a) THEN f ELSE "BACKGROUND"
<1> DEFINE acts == channel[c].activities
           tells == [k \in DOMAIN acts |-> IF k = 1 THEN Tell(acts[k], f, b)
                                           ELSE Tell(acts[k], "BACKGROUND", "MUST_PAUSE")]
<1>1. /\ acts \in Seq(Activities) /\ Distinct(acts) /\ Tells(c, f, b) = tells
      /\ \A a \in Range(acts) : channelOf[a] = c
  BY DEF TypeOK, ChannelType, Orderly, Tells
<1>2. \A a \in Activities : channelOf[a] = c =>
         (Present(a) <=> a \in Range(acts)) /\ (Primary(a) <=> acts # <<>> /\ a = Head(acts))
  BY DEF Present, Primary
<1> HIDE DEF acts
<1>3. DOMAIN tells = DOMAIN acts /\ DOMAIN acts = 1..Len(acts) /\ Len(acts) \in Nat
  BY <1>1
<1>4. ASSUME NEW k \in DOMAIN acts
      PROVE  /\ acts[k] \in Activities /\ acts[k] \in Range(acts) /\ Present(acts[k]) /\ channelOf[acts[k]] = c
             /\ Primary(acts[k]) <=> k = 1
  <2>1. acts[k] \in Activities /\ acts[k] \in Range(acts)
    BY <1>1 DEF Range
  <2>2. acts # <<>> /\ Head(acts) = acts[1] /\ 1 \in DOMAIN acts
    BY <1>1, <1>3
  <2>3. acts[k] = acts[1] <=> k = 1
    BY <1>1, <2>2 DEF Distinct
  <2> QED BY <1>1, <1>2, <2>1, <2>2, <2>3
<1>5. ASSUME NEW k \in DOMAIN acts
      PROVE  /\ tells[k] = IF k = 1 THEN Tell(acts[k], f, b) ELSE Tell(acts[k], "BACKGROUND", "MUST_PAUSE")
             /\ tells[k] \in Ops
  <2>1. "BACKGROUND" \in Focuses /\ "MUST_PAUSE" \in Mixings
    BY DEF Focuses, Mixings
  <2> QED BY <1>4, <2>1, OpTypes
<1>6. tells \in Seq(Ops)
  <2>1. tells \in [1..Len(acts) -> Ops]
    BY <1>3, <1>5
  <2> HIDE DEF tells
  <2> QED BY <1>3, <2>1, IsASeq
<1> HIDE DEF tells
<1>7. ASSUME NEW k \in DOMAIN acts
      PROVE  /\ tells[k].op = "tell" /\ tells[k].a = acts[k]
             /\ IF k = 1 THEN tells[k].f = f /\ tells[k].b = b
                ELSE tells[k].f = "BACKGROUND" /\ tells[k].b = "MUST_PAUSE"
  BY <1>5, OpParts
<1>8. ASSUME NEW o \in Range(tells)
      PROVE  /\ o.op = "tell" /\ o.a \in Activities /\ channelOf[o.a] = c /\ Present(o.a)
             /\ IF Primary(o.a) THEN o.f = f /\ o.b = b ELSE o.f = "BACKGROUND" /\ o.b = "MUST_PAUSE"
  <2>1. PICK k \in DOMAIN acts : o = tells[k]
    BY <1>3 DEF Range
  <2> QED BY <1>4, <1>7, <2>1
<1>9. ASSUME NEW a \in Activities, Present(a), channelOf[a] = c
      PROVE  \E o \in Range(tells) : o.op = "tell" /\ o.a = a /\ o.f = IF Primary(a) THEN f ELSE "BACKGROUND"
  <2>1. PICK k \in DOMAIN acts : a = acts[k]
    BY <1>2, <1>9 DEF Range
  <2>2. tells[k] \in Range(tells)
    BY <1>3 DEF Range
  <2> QED BY <1>4, <1>7, <2>1, <2>2
<1> QED BY <1>1, <1>6, <1>8, <1>9

\* The caller goes on to other channels and to those it copied.
LEMMA CallerPrograms ==
    ASSUME TypeOK, TypeOK', Structure, Knowledge,
           ModifyReads \/ setBackgroundChannelMixingBehavior("caller") \/ notifyActivities("caller")
    PROVE  Structure' /\ Knowledge'
<1> SUFFICES ASSUME NEW ops \in Seq(Ops), NEW op, Next1("caller", op), Then("caller", ops),
                    UNCHANGED <<channel, m_activeChannels, toldVars, overtaken, acquired, queue, captured>>,
                    \/ /\ op \in {"modified", "background"}
                       /\ \A n \in Range(ops) : n.op = "background" \/ (n.op = "focus" /\ n.f = "BACKGROUND")
                    \/ op = "notify" /\ LET o == Head(todo["caller"]) IN ops = Tells(o.c, o.f, o.b)
             PROVE  Structure' /\ Knowledge'
  <2>1. CASE ModifyReads
    <3> DEFINE c == getHighestPriorityActiveChannelLocked
    <3>1. /\ Next1("caller", "modified") /\ Then("caller", <<Background(c, c)>>) /\ m_activeChannels # {}
          /\ UNCHANGED <<channel, m_activeChannels, toldVars, overtaken, acquired, queue, captured>>
      BY <2>1 DEF ModifyReads, callVars
    <3>2. c \in Channels
      BY <3>1, HighestType DEF TypeOK
    <3> HIDE DEF c
    <3>3. <<Background(c, c)>> \in Seq(Ops) /\ Range(<<Background(c, c)>>) = {Background(c, c)}
      BY <3>2, OpTypes, ShortPrograms, RangeParts
    <3>4. \A n \in Range(<<Background(c, c)>>) : n.op = "background"
      BY <3>3, OpParts
    <3> QED BY <3>1, <3>3, <3>4
  <2>2. CASE setBackgroundChannelMixingBehavior("caller")
    <3> DEFINE o == Head(todo["caller"])
    <3>1. /\ Next1("caller", "background")
          /\ UNCHANGED <<channel, m_activeChannels, toldVars, overtaken, acquired, queue, captured>>
          /\ \/ Then("caller", <<>>)
             \/ \E d \in Following(o.at) :
                   d # None /\ Then("caller", <<Focus(d, "BACKGROUND", getMixingBehavior(d, o.c), FALSE),
                                                Background(o.c, d)>>)
      BY <2>2 DEF setBackgroundChannelMixingBehavior, ExecutorUnchanged, callVars
    <3>2. o.c \in Channels
      BY <3>1, NextOp, OpFields, TwoThreads
    <3>3. CASE Then("caller", <<>>)
      BY <3>1, <3>3, ShortPrograms, RangeParts
    <3>4. ASSUME NEW d \in Following(o.at), d # None,
                 Then("caller", <<Focus(d, "BACKGROUND", getMixingBehavior(d, o.c), FALSE), Background(o.c, d)>>)
          PROVE  Structure' /\ Knowledge'
      <4>1. d \in Channels
        BY <3>4, FollowingType
      <4>2. getMixingBehavior(d, o.c) \in Mixings /\ "BACKGROUND" \in Focuses
        BY <3>2, <4>1, MixingType DEF Focuses
      <4> DEFINE x == Focus(d, "BACKGROUND", getMixingBehavior(d, o.c), FALSE)
                 y == Background(o.c, d)
      <4>3. x \in Ops /\ y \in Ops /\ x.op = "focus" /\ x.f = "BACKGROUND" /\ y.op = "background"
        <5>1. x \in Ops /\ y \in Ops
          BY <3>2, <4>1, <4>2, OpTypes
        <5>2. x.op = "focus" /\ x.f = "BACKGROUND" /\ y.op = "background"
          BY DEF Focus, Background
        <5> QED BY <5>1, <5>2
      <4>4. <<x, y>> \in Seq(Ops) /\ Range(<<x, y>>) = {x, y}
        BY <4>3, ShortPrograms, RangeParts
      <4>5. \A n \in Range(<<x, y>>) : n.op = "background" \/ (n.op = "focus" /\ n.f = "BACKGROUND")
        <5> HIDE DEF x, y
        <5> QED BY <4>3, <4>4
      <4> QED BY <3>1, <3>4, <4>4, <4>5
    <3> QED BY <3>1, <3>3, <3>4
  <2>3. CASE notifyActivities("caller")
    <3> DEFINE o == Head(todo["caller"])
    <3>1. /\ Next1("caller", "notify") /\ Then("caller", Tells(o.c, o.f, o.b))
          /\ UNCHANGED <<channel, m_activeChannels, toldVars, overtaken, acquired, queue, captured>>
      BY <2>3 DEF notifyActivities, Tells, callVars
    <3>2. o.c \in Channels /\ o.f \in Focuses /\ o.b \in Mixings
      BY <3>1, NextOp, OpFields, TwoThreads
    <3>3. Tells(o.c, o.f, o.b) \in Seq(Ops)
      BY <3>2, TellsAre DEF Structure
    <3> QED BY <3>1, <3>3
  <2> QED BY <2>1, <2>2, <2>3
<1> DEFINE p == Head(todo["caller"])
<1>1. PICK R : /\ Callers = {p} \cup R /\ Callers' = Range(ops) \cup R
               /\ Program' = Program /\ todo'["executor"] = todo["executor"]
  BY CallerMoves
<1>2. PICK o \in Ops : o = p /\ o.op = op /\ o \in Callers
  BY <1>1, NextOp, TwoThreads
<1>3. op = "notify" => /\ o.f = "BACKGROUND" /\ o.c \in Channels /\ o.b \in Mixings /\ o.f \in Focuses
                       /\ ops = Tells(o.c, o.f, o.b)
  <2>1. op = "notify" => o.f = "BACKGROUND"
    BY <1>2 DEF Structure, CallerFits
  <2> QED BY <1>2, <2>1, OpFields
<1>4. op = "notify" =>
         /\ \A n \in Range(ops) : n.op = "tell" /\ n.f = "BACKGROUND" /\ Present(n.a)
         /\ \A a \in Activities : Present(a) /\ channelOf[a] = o.c =>
               \E n \in Range(ops) : n.op = "tell" /\ n.a = a /\ n.f = "BACKGROUND"
  BY <1>3, TellsAre DEF Structure
<1> HIDE DEF p
<1>5. CallerFits' /\ SameChannels
  <2>1. \A n \in Range(ops) : n.op = "background" \/ (n.op \in {"focus", "tell"} /\ n.f = "BACKGROUND")
    BY <1>4
  <2> QED BY <1>1, <2>1 DEF Structure, CallerFits, SameChannels
<1>6. Structure'
  <2>1. \A n \in (Program \cup Callers)' : n.op = "tell" => n \in Program \cup Callers \/ Present(n.a)
    BY <1>1, <1>4
  <2> QED BY <1>1, <1>5, <2>1, ProgramFrame DEF Structure, ProgramFits
<1>7. ASSUME NEW a \in Activities, Present(a), Informed(a) PROVE Informed(a)'
  <2>1. CASE op = "notify" /\ channelOf[a] = o.c
    BY <1>1, <1>4, <1>7, <2>1 DEF Informed
  <2>2. CASE ~(op = "notify" /\ channelOf[a] = o.c)
    <3>1. \A n \in Callers : n \in Callers' \/ n = o
      BY <1>1, <1>2
    <3>2. o.op # "tell"
      BY <1>2
    <3> QED BY <1>1, <1>2, <1>7, <2>2, <3>1, <3>2 DEF Informed, toldVars
  <2> QED BY <2>1, <2>2
<1>8. WillFront' = WillFront /\ \A c \in Channels : WillBack(c)' = WillBack(c)
  BY <1>1 DEF WillFront, WillBack, Backs
<1> QED BY <1>1, <1>6, <1>7, <1>8, KnowledgeFrame

-----------------------------------------------------------------------------
(* Channel::setFocus *)

\* The focus of one channel changes, and its activities will be told; or everything was so
\* already, the primary activity's behavior too.
LEMMA FocusStep ==
    ASSUME TypeOK, Orderly, NEW t \in Threads, setFocus(t)
    PROVE  \E o \in Ops, ops \in Seq(Ops) :
             /\ o = Head(todo[t]) /\ o.op = "focus" /\ Next1(t, "focus") /\ Then(t, ops)
             /\ o.c \in Channels /\ o.f \in Focuses /\ o.b \in Mixings
             /\ SameChannels /\ channel'[o.c].focusState = o.f
             /\ \A d \in Channels : d # o.c => channel'[d].focusState = channel[d].focusState
             /\ \/ Range(ops) = {Notify(o.c, o.f, o.b)}
                \/ /\ Range(ops) = {} /\ ~o.force /\ channel[o.c].focusState = o.f
                   /\ \A a \in Activities : channelOf[a] = o.c /\ Primary(a) => m_mixingBehavior[a] = o.b
             /\ UNCHANGED <<m_activeChannels, queue, captured, acquired, toldVars>>
             /\ ~overtaken' => ~overtaken /\ (t = "caller" => IsBehind(o.c))
<1> DEFINE p == Head(todo[t])
           acts == channel[p.c].activities
           changed == \/ p.force \/ channel[p.c].focusState # p.f
                      \/ acts # <<>> /\ m_mixingBehavior[Head(acts)] # p.b
           ops == IF changed THEN <<Notify(p.c, p.f, p.b)>> ELSE <<>>
<1>1. p \in Ops /\ p.op = "focus" /\ p.c \in Channels /\ p.f \in Focuses /\ p.b \in Mixings
  BY NextOp, OpFields DEF setFocus
<1>2. /\ Next1(t, "focus") /\ Then(t, ops)
      /\ channel' = IF changed THEN [channel EXCEPT ![p.c].focusState = p.f] ELSE channel
      /\ UNCHANGED <<m_activeChannels, queue, captured, acquired, toldVars>>
      /\ ~overtaken' => ~overtaken /\ (t = "caller" => IsBehind(p.c))
  BY DEF setFocus, callVars
<1>3. ops \in Seq(Ops) /\ (changed => Range(ops) = {Notify(p.c, p.f, p.b)}) /\ (~changed => Range(ops) = {})
  <2>1. <<Notify(p.c, p.f, p.b)>> \in Seq(Ops) /\ <<>> \in Seq(Ops)
    BY <1>1, OpTypes, ShortPrograms
  <2>2. Range(<<Notify(p.c, p.f, p.b)>>) = {Notify(p.c, p.f, p.b)} /\ Range(<<>>) = {}
    BY RangeParts
  <2> HIDE DEF changed
  <2> QED BY <2>1, <2>2
<1>4. ~changed => /\ ~p.force /\ channel[p.c].focusState = p.f
                  /\ \A a \in Activities : channelOf[a] = p.c /\ Primary(a) => m_mixingBehavior[a] = p.b
  BY DEF Primary
<1> HIDE DEF changed, ops
<1>5. /\ SameChannels /\ channel'[p.c].focusState = p.f
      /\ \A d \in Channels : d # p.c => channel'[d].focusState = channel[d].focusState
  <2>1. CASE ~changed
    BY <1>2, <1>4, <2>1 DEF SameChannels
  <2>2. CASE changed
    <3> DEFINE n == [channel[p.c] EXCEPT !.focusState = p.f]
    <3>1. channel[p.c] \in ChannelType
      BY <1>1 DEF TypeOK
    <3>2. /\ n.focusState = p.f /\ n.activities = channel[p.c].activities /\ n.timer = channel[p.c].timer
          /\ n.initiator = channel[p.c].initiator /\ n.expiring = channel[p.c].expiring
      BY <3>1 DEF ChannelType
    <3>3. \A d \in Channels : channel'[d] = IF d = p.c THEN n ELSE channel[d]
      BY <1>1, <1>2, <2>2 DEF TypeOK
    <3> HIDE DEF n
    <3> QED BY <1>1, <3>2, <3>3 DEF SameChannels
  <2> QED BY <2>1, <2>2
<1>6. PICK o \in Ops : o = p
  BY <1>1
<1> HIDE DEF p
<1> QED BY <1>1, <1>2, <1>3, <1>4, <1>5, <1>6 DEF p

\* The executor's.
LEMMA ExecutorFocus ==
    ASSUME TypeOK, TypeOK', Structure, Knowledge, setFocus("executor")
    PROVE  Structure' /\ Knowledge'
<1>1. PICK o \in Ops, ops \in Seq(Ops) :
             /\ o = Head(todo["executor"]) /\ o.op = "focus" /\ Next1("executor", "focus") /\ Then("executor", ops)
             /\ o.c \in Channels /\ o.f \in Focuses /\ o.b \in Mixings
             /\ SameChannels /\ channel'[o.c].focusState = o.f
             /\ \A d \in Channels : d # o.c => channel'[d].focusState = channel[d].focusState
             /\ \/ Range(ops) = {Notify(o.c, o.f, o.b)}
                \/ /\ Range(ops) = {} /\ ~o.force /\ channel[o.c].focusState = o.f
                   /\ \A a \in Activities : channelOf[a] = o.c /\ Primary(a) => m_mixingBehavior[a] = o.b
             /\ UNCHANGED <<m_activeChannels, queue, captured, acquired, toldVars>>
             /\ ~overtaken' => ~overtaken
  BY FocusStep, TwoThreads DEF Structure
<1>2. PICK R : /\ Program = {o} \cup R /\ Program' = Range(ops) \cup R /\ Callers' = Callers /\ Rest(o, R)
  BY <1>1, ExecutorMoves DEF Structure, ProgramFits
<1>3. PICK n : n = Notify(o.c, o.f, o.b) /\ n.op = "notify" /\ n.c = o.c /\ n.f = o.f /\ n.b = o.b
  BY OpParts
<1>4. /\ Working(o) => Working(n) /\ \A r \in R : r.op \in {"background", "behind", "focus", "notify", "tell"}
      /\ Clearing(o) => Clearing(n) /\ \A r \in R : r.op \in {"clear", "focus", "notify", "foreground"}
      /\ Working(o) \/ Clearing(o)
  <2>1. (Working(o) => Working(n)) /\ (Clearing(o) => Clearing(n))
    BY <1>1, <1>3 DEF Working, Focusing, Clearing
  <2> QED BY <1>1, <1>2, <2>1, Kinds DEF Rest
<1>5. /\ o.f = "BACKGROUND" => o.c \in m_activeChannels /\ o.c # Top
      /\ o.f = "FOREGROUND" => o.c \in m_activeChannels /\ o.c = Top /\ o.b = "PRIMARY"
      /\ o.f = "NONE" => o.c \notin m_activeChannels
      /\ o.f \in {"NONE", "BACKGROUND", "FOREGROUND"}
  BY <1>1, <1>2 DEF Structure, ProgramFits, OpFits, Focuses
<1>6. Top' = Top /\ (Top # None => Top \in m_activeChannels /\ Top \in Channels)
  BY <1>1, TopStays, TopIs DEF TypeOK
<1>7. Structure'
  <2>1. Shape(todo'["executor"])
    <3>1. /\ todo["executor"] \in Seq(Ops) /\ todo["executor"] # <<>> /\ Shape(todo["executor"])
          /\ todo'["executor"] = ops \o Tail(todo["executor"])
      BY <1>1, TwoThreads DEF TypeOK, Next1, Then, Structure, ProgramFits
    <3>2. Range(ops) \subseteq {n}
      BY <1>1, <1>3
    <3> QED BY <1>1, <1>4, <3>1, <3>2, ShapeStays
  <2>2. OpFits(n)'
    BY <1>1, <1>3, <1>5, <1>6 DEF OpFits
  <2>3. CallerFits'
    BY <1>1, <1>2 DEF Structure, CallerFits
  <2>4. \A x \in Program' : x \in Program \/ x = n
    BY <1>1, <1>2, <1>3
  <2>5. \A x \in Program : x \in Program' \/ x.op \notin {"setPrimary", "clear"}
    BY <1>1, <1>2
  <2>6. \A x \in (Program \cup Callers)' : x.op = "tell" => x \in Program \cup Callers
    BY <1>2, <1>3, <2>4
  <2>7. \A x \in Program' : x \in Program \/ OpFits(x)'
    BY <2>2, <2>4
  <2>8. \A x \in Program' : x.op \in {"acquire", "setPrimary"} => x \in Program
    BY <1>3, <2>4
  <2> QED BY <1>1, <2>1, <2>3, <2>5, <2>6, <2>7, <2>8, ProgramFrame
<1>8. ASSUME ~overtaken'
      PROVE  /\ Gone' /\ ArrivalTold' /\ Silent' /\ Backed' /\ Fronted' /\ FrontFirst'
             /\ BackInformed' /\ FrontInformed'
  <2>1. /\ Gone /\ ArrivalTold /\ Silent /\ Backed /\ Fronted /\ FrontFirst
        /\ BackInformed /\ FrontInformed
    BY <1>1, <1>8 DEF Knowledge
  <2>2. \A a \in Activities : (Present(a)' <=> Present(a)) /\ (Primary(a)' <=> Primary(a))
    BY <1>1, SamePresent
  <2>3. /\ \A x \in Program' : x \in R \/ x = n
        /\ \A x \in Program : x \in Program' \/ x = o
    BY <1>1, <1>2, <1>3
  <2>4. Gone' /\ ArrivalTold'
    <3>1. Gone'
      BY <1>1, <2>1, <2>2 DEF Gone, toldVars
    <3>2. \A x \in Program' : x.op # "setPrimary"
      BY <1>3, <1>4, <2>3
    <3> QED BY <3>1, <3>2 DEF ArrivalTold
  <2>5. Silent'
    BY <1>1, <1>5, <2>1, <2>3 DEF Silent
  <2>6. Backed'
    <3>1. ASSUME NEW c \in Channels, c # o.c, WillBack(c) PROVE WillBack(c)'
      BY <1>1, <2>3, <3>1 DEF WillBack, Backs
    <3> QED BY <1>1, <1>5, <1>6, <2>1, <3>1 DEF Backed
  <2>7. o.f # "FOREGROUND" /\ WillFront => WillFront'
    BY <1>1, <2>3 DEF WillFront
  <2>8. Fronted' /\ FrontFirst'
    <3>1. Fronted'
      BY <1>1, <1>5, <1>6, <2>1, <2>7 DEF Fronted
    <3>2. FrontFirst'
      <4> SUFFICES ASSUME NEW x \in Program', x.op \in {"notify", "tell"}, x.f = "FOREGROUND"
                   PROVE  channel'[Top].focusState = "FOREGROUND"
        BY <1>6 DEF FrontFirst
      <4>1. CASE x = n
        BY <1>1, <1>3, <1>5, <4>1
      <4>2. CASE x \in R
        <5>1. channel[Top].focusState = "FOREGROUND" /\ OpFits(x) /\ x \in Ops
          BY <1>2, <2>1, <4>2, RangeParts, TwoThreads DEF FrontFirst, Structure, ProgramFits, Program, TypeOK
        <5>2. Top \in Channels
          BY <5>1, OpFields, ConstantsAre DEF OpFits, TellFits, TypeOK
        <5>3. Top \in m_activeChannels
          BY <1>6, <5>2, ConstantsAre
        <5> QED BY <1>1, <1>5, <5>1, <5>2, <5>3
      <4> QED BY <2>3, <4>1, <4>2
    <3> QED BY <3>1, <3>2
  <2>9. BackInformed'
    <3> SUFFICES ASSUME NEW a \in Activities, Present(a), channel'[channelOf[a]].focusState = "BACKGROUND"
                 PROVE  Informed(a)'
      BY <2>2 DEF BackInformed
    <3>1. channelOf[a] \in Channels
      BY ConstantsAre
    <3>2. Informed(a) => Informed(a)'
      BY <1>1, <1>2, <2>3 DEF Informed, toldVars
    <3>3. CASE channelOf[a] = o.c /\ Range(ops) = {Notify(o.c, o.f, o.b)}
      <4>1. n \in Program'
        BY <1>2, <1>3, <3>3
      <4> QED BY <1>3, <3>3, <4>1 DEF Informed
    <3>4. CASE channelOf[a] # o.c \/ channel[o.c].focusState = o.f
      BY <1>1, <2>1, <3>1, <3>2, <3>4 DEF BackInformed
    <3> QED BY <1>1, <3>3, <3>4
  <2>10. FrontInformed'
    <3> SUFFICES ASSUME Top # None, channel'[Top].focusState = "FOREGROUND", ~Redo'
                 PROVE  \A a \in Activities : Present(a) /\ channelOf[a] = Top => Knows(a)'
      BY <1>6, <2>2 DEF FrontInformed
    <3>1. o.c # Top \/ (o.f = "FOREGROUND" /\ Range(ops) = {})
      <4>1. n \in Program' /\ o.f = "FOREGROUND" => Redo'
        BY <1>3 DEF Redo
      <4>2. o.c = Top => o.f = "FOREGROUND"
        BY <1>1
      <4> QED BY <1>1, <1>2, <1>3, <4>1, <4>2
    <3>2. channel[Top].focusState = "FOREGROUND"
      BY <1>1, <1>6, <3>1
    <3>3. ~Redo
      <4>1. ~(o.f = "FOREGROUND" /\ o.force)
        BY <1>1, <1>5, <3>1
      <4> QED BY <1>1, <2>3, <4>1 DEF Redo
    <3>4. ASSUME NEW a \in Activities, Present(a), channelOf[a] = Top PROVE Knows(a)'
      <4>1. Knows(a)
        BY <2>1, <3>2, <3>3, <3>4 DEF FrontInformed
      <4>2. \A f : Telling(a, f) => Telling(a, f)'
        BY <1>1, <2>3 DEF Telling
      <4>3. CASE o.c # Top
        <5>1. o.f # "FOREGROUND"
          BY <1>5, <4>3
        <5> QED BY <1>1, <2>2, <2>7, <4>1, <4>2, <5>1 DEF Knows, toldVars
      <4>4. CASE o.c = Top
        <5>1. Primary(a) => m_mixingBehavior[a] = "PRIMARY"
          BY <1>1, <1>5, <3>1, <3>4, <4>4
        <5> QED BY <1>1, <2>2, <4>1, <4>2, <5>1 DEF Knows, toldVars
      <4> QED BY <4>3, <4>4
    <3> QED BY <3>4
  <2> QED BY <2>4, <2>5, <2>6, <2>8, <2>9, <2>10
<1> QED BY <1>7, <1>8 DEF Knowledge

\* The caller's: the channel is behind the highest one, or somebody is overtaken.
LEMMA CallerFocus ==
    ASSUME TypeOK, TypeOK', Structure, Knowledge, setFocus("caller")
    PROVE  Structure' /\ Knowledge'
<1>1. PICK o \in Ops, ops \in Seq(Ops) :
             /\ o = Head(todo["caller"]) /\ o.op = "focus" /\ Next1("caller", "focus") /\ Then("caller", ops)
             /\ o.c \in Channels /\ o.f \in Focuses
             /\ SameChannels /\ channel'[o.c].focusState = o.f
             /\ \A d \in Channels : d # o.c => channel'[d].focusState = channel[d].focusState
             /\ \/ Range(ops) = {Notify(o.c, o.f, o.b)}
                \/ Range(ops) = {} /\ channel[o.c].focusState = o.f
             /\ UNCHANGED <<m_activeChannels, queue, captured, acquired, toldVars>>
             /\ ~overtaken' => ~overtaken /\ IsBehind(o.c)
  BY FocusStep, TwoThreads DEF Structure
<1>2. PICK R : /\ Callers = {o} \cup R /\ Callers' = Range(ops) \cup R
               /\ Program' = Program /\ todo'["executor"] = todo["executor"]
  BY <1>1, CallerMoves
<1>3. PICK n : n = Notify(o.c, o.f, o.b) /\ n.op = "notify" /\ n.c = o.c /\ n.f = o.f
  BY OpParts
<1>4. o.f = "BACKGROUND" /\ Range(ops) \subseteq {n}
  BY <1>1, <1>2, <1>3 DEF Structure, CallerFits
<1>5. CallerFits'
  BY <1>1, <1>2, <1>3, <1>4 DEF Structure, CallerFits
<1>6. Structure'
  <2>1. \A x \in (Program \cup Callers)' : x.op = "tell" => x \in Program \cup Callers
    BY <1>2, <1>3, <1>4
  <2> QED BY <1>1, <1>2, <1>5, <2>1, ProgramFrame DEF Structure, ProgramFits
<1>7. ASSUME ~overtaken'
      PROVE  /\ Gone' /\ ArrivalTold' /\ Silent' /\ Backed' /\ Fronted' /\ FrontFirst'
             /\ BackInformed' /\ FrontInformed'
  <2>1. /\ Gone /\ ArrivalTold /\ Silent /\ Backed /\ Fronted /\ FrontFirst
        /\ BackInformed /\ FrontInformed
    BY <1>1, <1>7 DEF Knowledge
  <2>2. \A a \in Activities : (Present(a)' <=> Present(a)) /\ (Primary(a)' <=> Primary(a))
    BY <1>1, SamePresent
  <2>3. /\ o.c \in m_activeChannels /\ o.c # Top /\ Top' = Top /\ Top \in Channels
        /\ channel'[Top].focusState = channel[Top].focusState
    <3>1. o.c \in m_activeChannels /\ o.c # Top
      BY <1>1, <1>7 DEF IsBehind, Top
    <3>2. Top \in Channels
      BY <3>1, TopIs DEF TypeOK
    <3> QED BY <1>1, <3>1, <3>2, TopStays
  <2>4. (Redo' <=> Redo) /\ (WillFront' <=> WillFront) /\ \A c \in Channels : WillBack(c)' <=> WillBack(c)
    BY <1>2 DEF Redo, WillFront, WillBack, Backs
  <2>5. Gone' /\ ArrivalTold' /\ Silent' /\ FrontFirst'
    <3>1. Gone'
      BY <1>1, <2>1, <2>2 DEF Gone, toldVars
    <3>2. ArrivalTold'
      BY <1>2, <2>1, <2>3, <2>4 DEF ArrivalTold
    <3>3. Silent' /\ FrontFirst'
      BY <1>1, <1>2, <2>1, <2>3 DEF Silent, FrontFirst
    <3> QED BY <3>1, <3>2, <3>3
  <2>6. Backed' /\ Fronted'
    BY <1>1, <1>4, <2>1, <2>3, <2>4 DEF Backed, Fronted
  <2>7. BackInformed'
    <3> SUFFICES ASSUME NEW a \in Activities, Present(a), channel'[channelOf[a]].focusState = "BACKGROUND"
                 PROVE  Informed(a)'
      BY <2>2 DEF BackInformed
    <3>1. channelOf[a] \in Channels
      BY ConstantsAre
    <3>2. Informed(a) => Informed(a)'
      BY <1>1, <1>2 DEF Informed, toldVars
    <3>3. CASE channelOf[a] = o.c /\ Range(ops) = {Notify(o.c, o.f, o.b)}
      <4>1. n \in Callers'
        BY <1>2, <1>3, <3>3
      <4> QED BY <1>3, <3>3, <4>1 DEF Informed
    <3>4. CASE channelOf[a] # o.c \/ channel[o.c].focusState = o.f
      BY <1>1, <2>1, <3>1, <3>2, <3>4 DEF BackInformed
    <3> QED BY <1>1, <3>3, <3>4
  <2>8. FrontInformed'
    <3>1. ASSUME NEW a \in Activities, Knows(a) PROVE Knows(a)'
      <4>1. \A f : Telling(a, f) => Telling(a, f)'
        BY <1>2 DEF Telling
      <4> QED BY <1>1, <2>2, <2>4, <3>1, <4>1 DEF Knows, toldVars
    <3> QED BY <2>1, <2>2, <2>3, <2>4, <3>1 DEF FrontInformed
  <2> QED BY <2>5, <2>6, <2>7, <2>8
<1> QED BY <1>6, <1>7 DEF Knowledge

-----------------------------------------------------------------------------
(* An observer is told *)

\* One activity is told; unless somebody is overtaken it is there, and behind the highest
\* channel if the caller tells it.
LEMMA TellStep ==
    ASSUME TypeOK, NEW t \in Threads, notifyObserver(t)
    PROVE  \E o \in Ops :
             /\ o = Head(todo[t]) /\ o.op = "tell" /\ Next1(t, "tell") /\ Then(t, <<>>)
             /\ o.a \in Activities /\ o.f \in Focuses
             /\ told'[o.a] = o.f /\ (o.b = "MUST_PAUSE" => m_mixingBehavior'[o.a] = "MUST_PAUSE")
             /\ \A a \in Activities : a # o.a =>
                   told'[a] = told[a] /\ m_mixingBehavior'[a] = m_mixingBehavior[a]
             /\ UNCHANGED <<channel, m_activeChannels, queue, captured, acquired>>
             /\ ~overtaken' => ~overtaken /\ Present(o.a) /\ (t = "caller" => IsBehind(channelOf[o.a]))
<1> DEFINE p == Head(todo[t])
<1>1. p \in Ops /\ p.op = "tell" /\ p.a \in Activities /\ p.f \in Focuses
  BY NextOp, OpFields DEF notifyObserver
<1>2. /\ Next1(t, "tell") /\ Then(t, <<>>)
      /\ told' = [told EXCEPT ![p.a] = p.f]
      /\ m_mixingBehavior' = [m_mixingBehavior EXCEPT ![p.a] = Overridden(p.a, p.b)]
      /\ UNCHANGED <<channel, m_activeChannels, queue, captured, acquired>>
      /\ ~overtaken' => ~overtaken /\ Present(p.a) /\ (t = "caller" => IsBehind(channelOf[p.a]))
  BY DEF notifyObserver, callVars, Present
<1>3. p.b = "MUST_PAUSE" => Overridden(p.a, p.b) = "MUST_PAUSE"
  BY DEF Overridden
<1>4. PICK o \in Ops : o = p
  BY <1>1
<1> HIDE DEF p
<1> QED BY <1>1, <1>2, <1>3, <1>4 DEF TypeOK, ToldTypes, p

\* The structure after an observer was told: nobody knew the activities that still arrive.
LEMMA TellStructure ==
    ASSUME TypeOK, TypeOK', Structure, CallerFits', Shape(todo'["executor"]),
           NEW o \in Program \cup Callers, o.op = "tell",
           \A a \in Activities : a # o.a => told'[a] = told[a] /\ m_mixingBehavior'[a] = m_mixingBehavior[a],
           UNCHANGED <<channel, m_activeChannels, queue, acquired>>,
           Program' \subseteq Program, Callers' \subseteq Callers, \A x \in Program : x \in Program' \/ x = o
    PROVE  Structure'
<1>1. SameChannels
  BY DEF SameChannels
<1>2. Orderly' /\ QueueFits' /\ ActiveFits'
  <2>1. Orderly' /\ QueueFits'
    BY <1>1, SameOrderly DEF Structure, QueueFits
  <2> QED BY <2>1 DEF Structure, ActiveFits
<1>3. ProgramFits'
  <2>1. ASSUME NEW x \in Program' PROVE OpFits(x)'
    <3>1. x \in Ops /\ OpFits(x)
      BY RangeParts, TwoThreads DEF Structure, ProgramFits, Program, TypeOK
    <3>2. x.op = "tell" => (Primary(x.a)' <=> Primary(x.a))
      BY <1>1, <3>1, OpFields, SamePresent
    <3> QED BY <3>1, <3>2, FitsStays
  <2> QED BY <2>1 DEF ProgramFits
<1>4. Arrivals'
  <2>1. ASSUME NEW a \in Activities
        PROVE  /\ (ArrivingNow(a)' => ArrivingNow(a)) /\ (ArrivingLater(a)' <=> ArrivingLater(a))
               /\ Untouched(a) => Untouched(a)'
    <3>1. (ArrivingNow(a)' => ArrivingNow(a)) /\ (ArrivingLater(a)' <=> ArrivingLater(a))
      BY DEF ArrivingNow, ArrivingLater
    <3>2. Present(a)' <=> Present(a)
      BY <1>1, SamePresent
    <3>3. Untouched(a) => a # o.a
      BY DEF Untouched
    <3>4. Untouched(a) => Untouched(a)'
      BY <3>2, <3>3 DEF Untouched
    <3> QED BY <3>1, <3>4
  <2> QED BY <2>1 DEF Structure, Arrivals
<1> QED BY <1>2, <1>3, <1>4 DEF Structure

\* The executor tells.
LEMMA ExecutorTells ==
    ASSUME TypeOK, TypeOK', Structure, Knowledge, notifyObserver("executor")
    PROVE  Structure' /\ Knowledge'
<1>1. PICK o \in Ops :
             /\ o = Head(todo["executor"]) /\ o.op = "tell" /\ Next1("executor", "tell") /\ Then("executor", <<>>)
             /\ o.a \in Activities /\ o.f \in Focuses
             /\ told'[o.a] = o.f /\ (o.b = "MUST_PAUSE" => m_mixingBehavior'[o.a] = "MUST_PAUSE")
             /\ \A a \in Activities : a # o.a =>
                   told'[a] = told[a] /\ m_mixingBehavior'[a] = m_mixingBehavior[a]
             /\ UNCHANGED <<channel, m_activeChannels, queue, captured, acquired>>
             /\ ~overtaken' => ~overtaken /\ Present(o.a)
  BY TellStep, TwoThreads
<1>2. PICK R : Program = {o} \cup R /\ Program' = R /\ Callers' = Callers /\ Rest(o, R)
  <2>1. <<>> \in Seq(Ops) /\ Range(<<>>) = {}
    BY ShortPrograms, RangeParts
  <2>2. \E R : Program = {o} \cup R /\ Program' = Range(<<>>) \cup R /\ Callers' = Callers /\ Rest(o, R)
    BY <1>1, <2>1, ExecutorMoves DEF Structure, ProgramFits
  <2> QED BY <2>1, <2>2
<1>3. Working(o) /\ \A r \in R : r.op \in {"background", "behind", "focus", "notify", "tell"}
  BY <1>1, <1>2, Kinds DEF Rest
<1>4. OpFits(o) /\ TellFits(o) /\ o.f \in {"BACKGROUND", "FOREGROUND"}
  <2>1. o.f # "NONE"
    BY <1>1, <1>3 DEF Working, Focusing
  <2> QED BY <1>1, <1>2, <2>1 DEF Structure, ProgramFits, OpFits, Focuses
<1>5. Structure'
  <2>1. Shape(todo'["executor"])
    <3>1. /\ todo["executor"] \in Seq(Ops) /\ todo["executor"] # <<>> /\ Shape(todo["executor"])
          /\ todo'["executor"] = <<>> \o Tail(todo["executor"]) /\ <<>> \in Seq(Ops) /\ Range(<<>>) = {}
      BY <1>1, TwoThreads, RangeParts, ShortPrograms DEF TypeOK, Next1, Then, Structure, ProgramFits
    <3> QED BY <1>1, <1>3, <3>1, ShapeStays
  <2>2. CallerFits'
    BY <1>1, <1>2 DEF Structure, CallerFits
  <2> QED BY <1>1, <1>2, <2>1, <2>2, TellStructure
<1>6. ASSUME ~overtaken'
      PROVE  /\ Gone' /\ ArrivalTold' /\ Silent' /\ Backed' /\ Fronted' /\ FrontFirst'
             /\ BackInformed' /\ FrontInformed'
  <2>1. /\ Gone /\ ArrivalTold /\ Silent /\ Backed /\ Fronted /\ FrontFirst
        /\ BackInformed /\ FrontInformed
    BY <1>1, <1>6 DEF Knowledge
  <2>2. Top' = Top /\ \A a \in Activities : (Present(a)' <=> Present(a)) /\ (Primary(a)' <=> Primary(a))
    BY <1>1, SamePresent, TopStays DEF SameChannels
  <2>3. (Redo' <=> Redo) /\ (WillFront' <=> WillFront) /\ \A c \in Channels : WillBack(c)' <=> WillBack(c)
    BY <1>1, <1>2 DEF Redo, WillFront, WillBack, Backs
  <2>4. Gone' /\ ArrivalTold' /\ Silent' /\ FrontFirst' /\ Backed' /\ Fronted'
    <3>1. Gone'
      BY <1>1, <1>6, <2>1, <2>2 DEF Gone
    <3>2. ArrivalTold'
      BY <1>2, <1>3 DEF ArrivalTold
    <3>3. Silent' /\ FrontFirst'
      BY <1>1, <1>2, <2>1, <2>2 DEF Silent, FrontFirst
    <3>4. Backed' /\ Fronted'
      BY <1>1, <2>1, <2>2, <2>3 DEF Backed, Fronted
    <3> QED BY <3>1, <3>2, <3>3, <3>4
  <2>5. BackInformed'
    <3> SUFFICES ASSUME NEW a \in Activities, Present(a), channel[channelOf[a]].focusState = "BACKGROUND"
                 PROVE  Informed(a)'
      BY <1>1, <2>2 DEF BackInformed
    <3>1. Informed(a)
      BY <2>1 DEF BackInformed
    <3>2. CASE a # o.a
      BY <1>1, <1>2, <3>1, <3>2 DEF Informed
    <3>3. CASE a = o.a
      <4>1. o.f = "BACKGROUND"
        <5>1. o.f = "FOREGROUND" => channelOf[a] = Top /\ channel[Top].focusState = "FOREGROUND"
          BY <1>1, <1>2, <1>4, <2>1, <3>3 DEF TellFits, FrontFirst
        <5> QED BY <1>4, <5>1
      <4> QED BY <1>1, <3>3, <4>1 DEF Informed
    <3> QED BY <3>2, <3>3
  <2>6. FrontInformed'
    <3>1. ASSUME NEW a \in Activities, channelOf[a] = Top, Knows(a) PROVE Knows(a)'
      <4>1. CASE a # o.a
        <5>1. \A f : Telling(a, f) => Telling(a, f)'
          BY <1>2, <4>1 DEF Telling
        <5> QED BY <1>1, <2>2, <2>3, <3>1, <4>1, <5>1 DEF Knows
      <4>2. CASE a = o.a /\ o.f = "FOREGROUND"
        BY <1>1, <1>4, <2>2, <4>2 DEF Knows, TellFits
      <4>3. CASE a = o.a /\ o.f = "BACKGROUND"
        BY <1>1, <1>4, <2>2, <3>1, <4>3 DEF Knows, TellFits
      <4> QED BY <1>4, <4>1, <4>2, <4>3
    <3> QED BY <1>1, <2>1, <2>2, <2>3, <3>1 DEF FrontInformed
  <2> QED BY <2>4, <2>5, <2>6
<1> QED BY <1>5, <1>6 DEF Knowledge

\* The caller tells.
LEMMA CallerTells ==
    ASSUME TypeOK, TypeOK', Structure, Knowledge, notifyObserver("caller")
    PROVE  Structure' /\ Knowledge'
<1>1. PICK o \in Ops :
             /\ o = Head(todo["caller"]) /\ o.op = "tell" /\ Next1("caller", "tell") /\ Then("caller", <<>>)
             /\ o.a \in Activities /\ told'[o.a] = o.f
             /\ \A a \in Activities : a # o.a =>
                   told'[a] = told[a] /\ m_mixingBehavior'[a] = m_mixingBehavior[a]
             /\ UNCHANGED <<channel, m_activeChannels, queue, captured, acquired>>
             /\ ~overtaken' => ~overtaken /\ Present(o.a) /\ IsBehind(channelOf[o.a])
  BY TellStep, TwoThreads
<1>2. PICK R : /\ Callers = {o} \cup R /\ Callers' = R
               /\ Program' = Program /\ todo'["executor"] = todo["executor"]
  <2>1. <<>> \in Seq(Ops) /\ Range(<<>>) = {}
    BY ShortPrograms, RangeParts
  <2>2. \E R : /\ Callers = {o} \cup R /\ Callers' = Range(<<>>) \cup R
               /\ Program' = Program /\ todo'["executor"] = todo["executor"]
    BY <1>1, <2>1, CallerMoves
  <2> QED BY <2>1, <2>2
<1>3. o.f = "BACKGROUND" /\ CallerFits'
  BY <1>1, <1>2 DEF Structure, CallerFits
<1>4. Structure'
  BY <1>1, <1>2, <1>3, TellStructure DEF Structure, ProgramFits
<1>5. ASSUME ~overtaken'
      PROVE  /\ Gone' /\ ArrivalTold' /\ Silent' /\ Backed' /\ Fronted' /\ FrontFirst'
             /\ BackInformed' /\ FrontInformed'
  <2>1. /\ Gone /\ ArrivalTold /\ Silent /\ Backed /\ Fronted /\ FrontFirst
        /\ BackInformed /\ FrontInformed /\ channelOf[o.a] # Top
    BY <1>1, <1>5 DEF Knowledge, IsBehind, Top
  <2>2. Top' = Top /\ \A a \in Activities : (Present(a)' <=> Present(a)) /\ (Primary(a)' <=> Primary(a))
    BY <1>1, SamePresent, TopStays DEF SameChannels
  <2>3. (Redo' <=> Redo) /\ (WillFront' <=> WillFront) /\ \A c \in Channels : WillBack(c)' <=> WillBack(c)
    BY <1>2 DEF Redo, WillFront, WillBack, Backs
  <2>4. Gone' /\ ArrivalTold' /\ Silent' /\ FrontFirst' /\ Backed' /\ Fronted'
    <3>1. Gone'
      BY <1>1, <1>5, <2>1, <2>2 DEF Gone
    <3>2. ArrivalTold'
      BY <1>1, <1>2, <2>1, <2>2, <2>3 DEF ArrivalTold
    <3>3. Silent' /\ FrontFirst'
      BY <1>1, <1>2, <2>1, <2>2 DEF Silent, FrontFirst
    <3>4. Backed' /\ Fronted'
      BY <1>1, <2>1, <2>2, <2>3 DEF Backed, Fronted
    <3> QED BY <3>1, <3>2, <3>3, <3>4
  <2>5. BackInformed'
    <3>1. ASSUME NEW a \in Activities, Informed(a) PROVE Informed(a)'
      BY <1>1, <1>2, <1>3, <3>1 DEF Informed
    <3> QED BY <1>1, <2>1, <2>2, <3>1 DEF BackInformed
  <2>6. FrontInformed'
    <3>1. ASSUME NEW a \in Activities, channelOf[a] = Top, Knows(a) PROVE Knows(a)'
      <4>1. \A f : Telling(a, f) => Telling(a, f)'
        BY <1>2 DEF Telling
      <4> QED BY <1>1, <2>1, <2>2, <2>3, <3>1, <4>1 DEF Knows
    <3> QED BY <1>1, <2>1, <2>2, <2>3, <3>1 DEF FrontInformed
  <2> QED BY <2>4, <2>5, <2>6
<1> QED BY <1>4, <1>5 DEF Knowledge

-----------------------------------------------------------------------------
(* The executor goes on *)

\* The next task: its activity, if it brings one, is no longer among those that wait.
LEMMA TaskKnows ==
    ASSUME TypeOK, TypeOK', Structure, Knowledge, NextTask
    PROVE  Structure' /\ Knowledge'
<1> DEFINE q == queue
<1>1. /\ todo["executor"] = <<>> /\ queue # <<>> /\ queue' = Tail(queue)
      /\ todo' = [todo EXCEPT !["executor"] = <<Head(queue)>>]
      /\ UNCHANGED <<channel, m_activeChannels, toldVars, captured, acquired, overtaken>>
  BY DEF NextTask, ExecutorUnchanged, callVars
<1>2. PICK o \in Ops : o = Head(queue)
  BY <1>1 DEF TypeOK
<1>3. Program = {} /\ Program' = {o} /\ Callers' = Callers /\ todo'["executor"] = <<o>>
  <2>1. todo'["executor"] = <<o>> /\ todo'["caller"] = todo["caller"]
    BY <1>1, <1>2, TwoThreads DEF TypeOK
  <2> QED BY <1>1, <2>1, RangeParts DEF Program, Callers
<1>4. /\ queue \in Seq(Ops) /\ Len(queue') = Len(queue) - 1 /\ o = queue[1] /\ Len(queue) \in Nat /\ Len(queue) > 0
      /\ (\A i \in 1..(Len(queue) - 1) : queue'[i] = queue[i + 1]) /\ DOMAIN queue = 1..Len(queue)
      /\ DOMAIN queue' = 1..(Len(queue) - 1)
  BY <1>1, <1>2 DEF TypeOK
<1>5. Range(queue) = {o} \cup Range(queue')
  <2>1. \A p \in Seq(Ops) : p # <<>> => Range(p) = {Head(p)} \cup Range(Tail(p))
    BY RangeParts
  <2> QED BY <1>1, <1>2, <1>4, <2>1
<1>6. o.op \in TaskOps
  BY <1>5 DEF Structure, QueueFits
<1>7. QueueFits'
  <2>1. \A x \in Range(queue') : x.op \in TaskOps
    BY <1>5 DEF Structure, QueueFits
  <2>2. ASSUME NEW i \in DOMAIN queue', NEW j \in DOMAIN queue', queue'[i].op = "acquire",
               queue'[j].op = "acquire", queue'[i].a = queue'[j].a
        PROVE  i = j
    <3>1. /\ i + 1 \in DOMAIN queue /\ j + 1 \in DOMAIN queue
          /\ queue'[i] = queue[i + 1] /\ queue'[j] = queue[j + 1]
      BY <1>4
    <3>2. i + 1 = j + 1
      BY <2>2, <3>1 DEF Structure, QueueFits
    <3> QED BY <1>4, <3>2
  <2> QED BY <2>1, <2>2 DEF QueueFits
<1>8. ASSUME NEW a \in Activities, ArrivingNow(a)' PROVE ArrivingLater(a) /\ ~ArrivingLater(a)'
  <2>1. o.op = "acquire" /\ o.a = a
    BY <1>3, <1>6, <1>8 DEF ArrivingNow, TaskOps
  <2>2. ASSUME NEW i \in DOMAIN queue', queue'[i].op = "acquire", queue'[i].a = a PROVE FALSE
    <3>1. i + 1 \in DOMAIN queue /\ 1 \in DOMAIN queue /\ queue'[i] = queue[i + 1] /\ i + 1 # 1
      BY <1>4
    <3>2. i + 1 = 1
      BY <1>4, <2>1, <2>2, <3>1 DEF Structure, QueueFits
    <3> QED BY <3>1, <3>2
  <2>3. ArrivingLater(a)
    BY <1>5, <2>1 DEF ArrivingLater
  <2> QED BY <2>2, <2>3 DEF ArrivingLater, Range
<1>9. SameChannels
  BY <1>1 DEF SameChannels
<1>10. Structure'
  <2>1. Orderly'
    BY <1>9, SameOrderly DEF Structure
  <2>2. ActiveFits'
    BY <1>1, <1>3 DEF Structure, ActiveFits
  <2>3. ProgramFits'
    <3>1. <<o>> # <<>> /\ Tail(<<o>>) = <<>> /\ Head(<<o>>) = o
      OBVIOUS
    <3>2. Shape(todo'["executor"])
      BY <1>3, <1>6, <3>1 DEF Shape
    <3>3. OpFits(o)'
      BY <1>6 DEF OpFits, TaskOps
    <3> QED BY <1>3, <3>2, <3>3 DEF ProgramFits
  <2>4. CallerFits'
    BY <1>1, <1>3 DEF Structure, CallerFits
  <2>5. Arrivals'
    <3>1. ASSUME NEW a \in Activities PROVE (ArrivingLater(a)' => ArrivingLater(a)) /\ (Untouched(a) => Untouched(a)')
      <4>1. ArrivingLater(a)' => ArrivingLater(a)
        BY <1>5 DEF ArrivingLater
      <4>2. Present(a)' <=> Present(a)
        BY <1>9, SamePresent
      <4>3. Untouched(a) => Untouched(a)'
        BY <1>1, <1>3, <1>6, <4>2 DEF Untouched, toldVars, TaskOps
      <4> QED BY <4>1, <4>3
    <3> QED BY <1>1, <1>8, <3>1 DEF Structure, Arrivals
  <2> QED BY <1>7, <2>1, <2>2, <2>3, <2>4, <2>5 DEF Structure
<1>11. Knowledge'
  <2>1. \A a \in Activities : Informed(a) => Informed(a)'
    BY <1>1, <1>3 DEF Informed, toldVars
  <2>2. ~WillFront /\ \A c \in Channels : ~WillBack(c)
    BY <1>3 DEF WillFront, WillBack
  <2>3. o.op \notin {"setPrimary", "notify", "tell"}
    BY <1>6 DEF TaskOps
  <2> QED BY <1>1, <1>3, <2>1, <2>2, <2>3, KnowledgeFrame
<1> QED BY <1>10, <1>11

\* The executor replaces an operation by others that bring the same channels to the background
\* and the foreground, or is done with a task that has nothing to do.
LEMMA ExecutorGoesOn ==
    ASSUME TypeOK, TypeOK', Structure, Knowledge,
           NEW op \in {"release", "stop", "clear", "foreground", "behind", "background"},
           Next1("executor", op), NEW ops \in Seq(Ops), Then("executor", ops),
           UNCHANGED <<channel, m_activeChannels, toldVars, overtaken, queue, acquired, captured>>,
           \A n \in Range(ops) : n.op \in {"background", "focus"} /\ Working(n) /\ OpFits(n),
           op = "clear" => ops = <<>> /\ channel[Head(todo["executor"]).c].activities # <<>>,
           \A c \in Channels : c \in m_activeChannels /\ c # Top /\ Backs(Head(todo["executor"]), c) =>
               \E n \in Range(ops) : Backs(n, c),
           op = "foreground" /\ Top # None => \E n \in Range(ops) : n.op = "focus" /\ n.f = "FOREGROUND"
    PROVE  Structure' /\ Knowledge'
<1>1. PICK R : /\ Program = {Head(todo["executor"])} \cup R /\ Program' = Range(ops) \cup R
               /\ Callers' = Callers /\ Rest(Head(todo["executor"]), R)
  BY ExecutorMoves DEF Structure, ProgramFits
<1>2. PICK o \in Ops : o = Head(todo["executor"]) /\ o.op = op
  BY NextOp, TwoThreads
<1>3. SameChannels /\ CallerFits' /\ Top' = Top
  BY <1>1, TopStays DEF SameChannels, Structure, CallerFits
<1>4. Structure'
  <2>1. Shape(todo'["executor"])
    <3>1. /\ todo["executor"] \in Seq(Ops) /\ todo["executor"] # <<>> /\ Shape(todo["executor"])
          /\ todo'["executor"] = ops \o Tail(todo["executor"]) /\ Range(<<>>) = {}
      BY TwoThreads, RangeParts DEF TypeOK, Next1, Then, Structure, ProgramFits
    <3>2. CASE op \in {"release", "stop", "foreground"}
      <4>1. Shape(ops)
        BY DEF Shape
      <4> QED BY <1>2, <3>1, <3>2, <4>1, ShapeStays
    <3>3. CASE op = "clear"
      <4>1. Clearing(o) /\ \A n \in Range(ops) : Clearing(n)
        BY <1>2, <3>1, <3>3 DEF Clearing
      <4> QED BY <1>2, <3>1, <4>1, ShapeStays
    <3>4. CASE op \in {"behind", "background"}
      <4>1. Working(o)
        BY <1>2, <3>4 DEF Working, Focusing
      <4> QED BY <1>2, <3>1, <4>1, ShapeStays
    <3> QED BY <3>2, <3>3, <3>4
  <2>2. \A n \in Range(ops) : OpFits(n)'
    <3>1. \A n \in Range(ops) : n \in Ops
      BY RangeParts
    <3> QED BY <3>1, FitsStays
  <2>3. \A x \in Program : \/ x \in Program' \/ x.op \notin {"setPrimary", "clear"}
                           \/ x.op = "clear" /\ channel[x.c].activities # <<>>
    BY <1>1, <1>2
  <2>4. \A x \in (Program \cup Callers)' : x.op = "tell" => x \in Program \cup Callers
    BY <1>1
  <2>5. \A x \in Program' : x.op \in {"acquire", "setPrimary"} => x \in Program
    BY <1>1
  <2>6. \A x \in Program' : x \in Program \/ OpFits(x)'
    BY <1>1, <2>2
  <2> QED BY <1>3, <2>1, <2>3, <2>4, <2>5, <2>6, ProgramFrame
<1>5. Knowledge'
  <2>1. \A a \in Activities : Informed(a) => Informed(a)'
    BY <1>1, <1>2 DEF Informed, toldVars
  <2>2. \A c \in Channels : c \in m_activeChannels /\ c # Top /\ WillBack(c) => WillBack(c)'
    BY <1>1 DEF WillBack
  <2>3. Top # None /\ WillFront => WillFront'
    BY <1>1, <1>2 DEF WillFront
  <2>4. \A x \in Program : x \in Program' \/ x.op \notin {"focus", "notify", "tell"}
    BY <1>1, <1>2
  <2>5. \A x \in Program' : x \in Program \/ x.op \notin {"setPrimary", "notify", "tell"}
    BY <1>1
  <2> QED BY <2>1, <2>2, <2>3, <2>4, <2>5, KnowledgeFrame
<1> QED BY <1>4, <1>5

\* foregroundHighestPriorityActiveChannel.
LEMMA ForegroundKnows ==
    ASSUME TypeOK, TypeOK', Structure, Knowledge, foregroundHighestPriorityActiveChannel
    PROVE  Structure' /\ Knowledge'
<1> DEFINE b == Background(Top, Top)
           f == Focus(Top, "FOREGROUND", "PRIMARY", FALSE)
           ops == IF Top = None THEN <<>> ELSE <<b, f>>
<1>1. /\ Next1("executor", "foreground") /\ Then("executor", ops)
      /\ UNCHANGED <<channel, m_activeChannels, toldVars, overtaken, queue, acquired, captured>>
  BY DEF foregroundHighestPriorityActiveChannel, ExecutorUnchanged, callVars, Top
<1>2. Top # None => Top \in m_activeChannels /\ Top \in Channels
  BY TopIs DEF TypeOK
<1>3. /\ b.op = "background" /\ b.c = Top /\ b.at = Top
      /\ f.op = "focus" /\ f.c = Top /\ f.f = "FOREGROUND" /\ f.b = "PRIMARY"
  BY DEF Background, Focus
<1>4. Top # None => b \in Ops /\ f \in Ops
  <2>1. "FOREGROUND" \in Focuses /\ "PRIMARY" \in Mixings
    BY DEF Focuses, Mixings
  <2> QED BY <1>2, <2>1, OpTypes
<1>5. Top # None => OpFits(b) /\ OpFits(f) /\ Working(b) /\ Working(f)
  <2> HIDE DEF b, f
  <2> QED BY <1>2, <1>3 DEF OpFits, Working, Focusing
<1>6. ops \in Seq(Ops) /\ Range(ops) = IF Top = None THEN {} ELSE {b, f}
  <2> HIDE DEF b, f
  <2> QED BY <1>4, ShortPrograms, RangeParts
<1>7. \A c \in Channels : ~Backs(Head(todo["executor"]), c)
  BY <1>1 DEF Next1, Backs
<1> HIDE DEF ops, b, f
<1>8. \A n \in Range(ops) : n.op \in {"background", "focus"} /\ Working(n) /\ OpFits(n)
  BY <1>3, <1>5, <1>6
<1>9. Top # None => \E n \in Range(ops) : n.op = "focus" /\ n.f = "FOREGROUND"
  BY <1>3, <1>6
<1> QED BY <1>1, <1>6, <1>7, <1>8, <1>9, ExecutorGoesOn

\* An arrival behind another channel.
LEMMA BehindKnows ==
    ASSUME TypeOK, TypeOK', Structure, Knowledge, FocusBehind
    PROVE  Structure' /\ Knowledge'
<1>1. PICK o \in Ops : o = Head(todo["executor"]) /\ o.op = "behind" /\ o.c \in Channels /\ o.d \in Channels
  BY NextOp, OpFields, TwoThreads DEF FocusBehind
<1> DEFINE f == Focus(o.c, "BACKGROUND", getMixingBehavior(o.c, o.d), FALSE)
<1>2. /\ Next1("executor", "behind") /\ Then("executor", <<f>>)
      /\ UNCHANGED <<channel, m_activeChannels, toldVars, overtaken, queue, acquired, captured>>
  BY <1>1 DEF FocusBehind, ExecutorUnchanged, callVars
<1>3. f.op = "focus" /\ f.c = o.c /\ f.f = "BACKGROUND"
  BY DEF Focus
<1>4. f \in Ops
  <2>1. getMixingBehavior(o.c, o.d) \in Mixings /\ "BACKGROUND" \in Focuses
    BY <1>1, MixingType DEF Focuses
  <2> QED BY <1>1, <2>1, OpTypes
<1>5. o.c \in m_activeChannels /\ o.c # Top
  <2>1. o \in Program
    BY <1>1, <1>2, TwoThreads, RangeParts DEF Program, Next1, TypeOK
  <2> QED BY <1>1, <2>1 DEF Structure, ProgramFits, OpFits
<1> HIDE DEF f
<1>6. <<f>> \in Seq(Ops) /\ Range(<<f>>) = {f}
  BY <1>4, ShortPrograms, RangeParts
<1>7. \A n \in Range(<<f>>) : n.op \in {"background", "focus"} /\ Working(n) /\ OpFits(n)
  BY <1>3, <1>5, <1>6 DEF OpFits, Working, Focusing
<1>8. \A c \in Channels : Backs(Head(todo["executor"]), c) => \E n \in Range(<<f>>) : Backs(n, c)
  BY <1>1, <1>3, <1>6 DEF Backs
<1> QED BY <1>2, <1>6, <1>7, <1>8, ExecutorGoesOn

\* The loop over the channels behind the highest one: the executor's iterator stays valid.
LEMMA BackgroundKnows ==
    ASSUME TypeOK, TypeOK', Structure, Knowledge, setBackgroundChannelMixingBehavior("executor")
    PROVE  Structure' /\ Knowledge'
<1>1. PICK o \in Ops : o = Head(todo["executor"]) /\ o.op = "background" /\ o.c \in Channels /\ o.at \in Channels
  BY NextOp, OpFields, TwoThreads DEF setBackgroundChannelMixingBehavior
<1>2. /\ Next1("executor", "background")
      /\ UNCHANGED <<channel, m_activeChannels, toldVars, overtaken, queue, acquired, captured>>
      /\ \/ o.c = o.at /\ o.c \notin m_activeChannels
         \/ \E d \in Following(o.at) :
               Then("executor", IF d = None THEN <<>>
                                ELSE <<Focus(d, "BACKGROUND", getMixingBehavior(d, o.c), FALSE),
                                       Background(o.c, d)>>)
  BY <1>1 DEF setBackgroundChannelMixingBehavior, ExecutorUnchanged, callVars
<1>3. o.c = Top /\ Top \in m_activeChannels /\ o.at \in m_activeChannels /\ \A d \in m_activeChannels : Top <= d
  <2>1. o \in Program
    BY <1>1, <1>2, TwoThreads, RangeParts DEF Program, Next1, TypeOK
  <2>2. o.c = Top /\ Top # None /\ o.at \in m_activeChannels
    BY <1>1, <2>1 DEF Structure, ProgramFits, OpFits
  <2> QED BY <2>2, TopIs
<1>4. m_activeChannels \subseteq Channels /\ Channels \subseteq Nat /\ None \notin Channels
  BY ConstantsAre DEF TypeOK
<1> DEFINE rest == {d \in m_activeChannels : d > o.at}
<1>5. PICK d : /\ d = HighestPriority(rest)
               /\ Then("executor", IF d = None THEN <<>>
                                   ELSE <<Focus(d, "BACKGROUND", getMixingBehavior(d, o.c), FALSE),
                                          Background(o.c, d)>>)
  BY <1>2, <1>3 DEF Following
<1>6. (rest = {} => d = None) /\ (rest # {} => d \in rest /\ \A e \in rest : d <= e)
  <2>1. rest = {} => d = None
    BY <1>5 DEF HighestPriority
  <2>2. rest \in SUBSET Channels
    BY <1>4
  <2> HIDE DEF rest
  <2> QED BY <1>5, <2>1, <2>2, HighestIsOne
<1>7. CASE d = None
  <2>1. \A c \in m_activeChannels : ~(o.at < c)
    BY <1>4, <1>6, <1>7
  <2>2. \A c \in Channels : c \in m_activeChannels /\ Backs(o, c) => FALSE
    BY <1>1, <2>1 DEF Backs
  <2>3. <<>> \in Seq(Ops) /\ Range(<<>>) = {} /\ Then("executor", <<>>)
    BY <1>5, <1>7, ShortPrograms, RangeParts
  <2> QED BY <1>1, <1>2, <2>2, <2>3, ExecutorGoesOn
<1>8. CASE d # None
  <2> DEFINE f == Focus(d, "BACKGROUND", getMixingBehavior(d, o.c), FALSE)
             b == Background(o.c, d)
  <2>1. d \in m_activeChannels /\ d \in Channels /\ d > o.at /\ (\A e \in m_activeChannels : e > o.at => d <= e)
    BY <1>4, <1>6, <1>8
  <2>2. d # Top
    <3>1. Top \in Nat /\ o.at \in Nat /\ d \in Nat /\ Top <= o.at
      BY <1>3, <1>4, <2>1
    <3> QED BY <2>1, <3>1
  <2>3. f.op = "focus" /\ f.c = d /\ f.f = "BACKGROUND" /\ b.op = "background" /\ b.c = o.c /\ b.at = d
    BY DEF Focus, Background
  <2>4. f \in Ops /\ b \in Ops
    <3>1. getMixingBehavior(d, o.c) \in Mixings /\ "BACKGROUND" \in Focuses
      BY <1>1, <2>1, MixingType DEF Focuses
    <3> QED BY <1>1, <2>1, <3>1, OpTypes
  <2>5. Then("executor", <<f, b>>)
    BY <1>5, <1>8
  <2> HIDE DEF f, b
  <2>6. <<f, b>> \in Seq(Ops) /\ Range(<<f, b>>) = {f, b}
    BY <2>4, ShortPrograms, RangeParts
  <2>7. \A n \in Range(<<f, b>>) : n.op \in {"background", "focus"} /\ Working(n) /\ OpFits(n)
    <3>1. OpFits(f) /\ OpFits(b)
      BY <1>3, <1>4, <2>1, <2>2, <2>3 DEF OpFits
    <3>2. Working(f) /\ Working(b)
      BY <2>3 DEF Working, Focusing
    <3> QED BY <2>3, <2>6, <3>1, <3>2
  <2>8. ASSUME NEW c \in Channels, c \in m_activeChannels, Backs(o, c) PROVE \E n \in Range(<<f, b>>) : Backs(n, c)
    <3>1. o.at < c /\ c \in Nat /\ d \in Nat /\ o.at \in Nat
      BY <1>1, <1>4, <2>1, <2>8 DEF Backs
    <3>2. c = d \/ d < c
      BY <2>1, <2>8, <3>1
    <3>3. (c = d => Backs(f, c)) /\ (d < c => Backs(b, c))
      BY <2>3 DEF Backs
    <3> QED BY <2>6, <3>2, <3>3
  <2> QED BY <1>1, <1>2, <2>5, <2>6, <2>7, <2>8, ExecutorGoesOn
<1> QED BY <1>7, <1>8

\* Channel::notifyActivities by the executor: those whom the channel's focus concerns will be
\* told one by one.
LEMMA NotifyKnows ==
    ASSUME TypeOK, TypeOK', Structure, Knowledge, notifyActivities("executor")
    PROVE  Structure' /\ Knowledge'
<1>1. PICK o \in Ops : /\ o = Head(todo["executor"]) /\ o.op = "notify"
                       /\ o.c \in Channels /\ o.f \in Focuses /\ o.b \in Mixings
  BY NextOp, OpFields, TwoThreads DEF notifyActivities
<1> DEFINE ops == Tells(o.c, o.f, o.b)
<1>2. /\ Next1("executor", "notify") /\ Then("executor", ops)
      /\ UNCHANGED <<channel, m_activeChannels, toldVars, overtaken, queue, acquired, captured>>
  BY <1>1 DEF notifyActivities, Tells, callVars
<1>3. /\ ops \in Seq(Ops)
      /\ \A n \in Range(ops) :
            /\ n.op = "tell" /\ n.a \in Activities /\ channelOf[n.a] = o.c /\ Present(n.a)
            /\ IF Primary(n.a) THEN n.f = o.f /\ n.b = o.b ELSE n.f = "BACKGROUND" /\ n.b = "MUST_PAUSE"
      /\ \A a \in Activities : Present(a) /\ channelOf[a] = o.c =>
            \E n \in Range(ops) : n.op = "tell" /\ n.a = a /\ n.f = IF Primary(a) THEN o.f ELSE "BACKGROUND"
  BY <1>1, TellsAre DEF Structure
<1> HIDE DEF ops
<1>4. PICK R : Program = {o} \cup R /\ Program' = Range(ops) \cup R /\ Callers' = Callers /\ Rest(o, R)
  BY <1>1, <1>2, <1>3, ExecutorMoves DEF Structure, ProgramFits
<1>5. /\ o.f = "BACKGROUND" => o.c \in m_activeChannels /\ o.c # Top
      /\ o.f = "FOREGROUND" => o.c \in m_activeChannels /\ o.c = Top /\ o.b = "PRIMARY"
      /\ o.f = "NONE" => o.c \notin m_activeChannels
      /\ o.f \in {"NONE", "BACKGROUND", "FOREGROUND"}
  BY <1>1, <1>4 DEF Structure, ProgramFits, OpFits, Focuses
<1>6. /\ SameChannels /\ CallerFits' /\ Top' = Top
      /\ \A a \in Activities : (Present(a)' <=> Present(a)) /\ (Primary(a)' <=> Primary(a))
  <2>1. SameChannels
    BY <1>2 DEF SameChannels
  <2> QED BY <1>2, <1>4, <2>1, TopStays, SamePresent DEF Structure, CallerFits
<1>7. o.f = "NONE" => Range(ops) = {}
  <2>1. \A a \in Activities : Present(a) => channelOf[a] \in m_activeChannels
    <3>1. ASSUME NEW a \in Activities, Present(a) PROVE channel[channelOf[a]].activities # <<>>
      BY <3>1 DEF Present, Range
    <3> QED BY <3>1, ConstantsAre DEF Structure, ActiveFits
  <2> QED BY <1>3, <1>5, <2>1
<1>8. Structure'
  <2>1. Shape(todo'["executor"])
    <3>1. /\ todo["executor"] \in Seq(Ops) /\ todo["executor"] # <<>> /\ Shape(todo["executor"])
          /\ todo'["executor"] = ops \o Tail(todo["executor"])
      BY <1>2, TwoThreads DEF TypeOK, Next1, Then, Structure, ProgramFits
    <3>2. o.f # "NONE" => Working(o) /\ \A n \in Range(ops) : Working(n)
      BY <1>1, <1>3 DEF Working, Focusing
    <3>3. o.f = "NONE" => Clearing(o) /\ \A n \in Range(ops) : Clearing(n)
      BY <1>1, <1>7 DEF Clearing
    <3> QED BY <1>1, <1>3, <3>1, <3>2, <3>3, ShapeStays
  <2>2. \A n \in Range(ops) : OpFits(n)'
    <3>1. ASSUME NEW n \in Range(ops) PROVE TellFits(n)
      BY <1>3, <1>5, <1>7 DEF TellFits
    <3>2. \A n \in Range(ops) : OpFits(n) /\ n \in Ops
      BY <1>3, <3>1, RangeParts DEF OpFits
    <3> QED BY <1>2, <1>3, <1>6, <3>2, FitsStays
  <2>3. \A x \in Program : x \in Program' \/ x.op \notin {"setPrimary", "clear"}
    BY <1>1, <1>4
  <2>4. \A x \in (Program \cup Callers)' : x.op = "tell" => x \in Program \cup Callers \/ Present(x.a)
    BY <1>3, <1>4
  <2>5. \A x \in Program' : x.op \in {"acquire", "setPrimary"} => x \in Program
    BY <1>3, <1>4
  <2>6. \A x \in Program' : x \in Program \/ OpFits(x)'
    BY <1>4, <2>2
  <2> QED BY <1>2, <1>6, <2>1, <2>3, <2>4, <2>5, <2>6, ProgramFrame
<1>9. /\ WillFront => WillFront' 
      /\ \A c \in Channels : WillBack(c) => WillBack(c)'
  BY <1>1, <1>4 DEF WillFront, WillBack, Backs
<1>10. ASSUME NEW a \in Activities, Present(a), Informed(a), o.f # "FOREGROUND" \/ channelOf[a] # o.c
       PROVE  Informed(a)'
  <2>1. CASE channelOf[a] = o.c
    <3>1. o.f = "BACKGROUND"
      BY <1>3, <1>5, <1>7, <1>10, <2>1
    <3> QED BY <1>3, <1>4, <1>10, <2>1, <3>1 DEF Informed
  <2>2. CASE channelOf[a] # o.c
    BY <1>1, <1>2, <1>4, <1>10, <2>2 DEF Informed, toldVars
  <2> QED BY <2>1, <2>2
<1>11. CASE o.f # "FOREGROUND"
  <2>1. \A x \in Program : x \in Program' \/ (x.op = "notify" /\ x.f # "FOREGROUND")
    BY <1>1, <1>4, <1>11
  <2>2. \A x \in Program' : x \in Program \/ (x.op = "tell" /\ x.f # "FOREGROUND")
    BY <1>3, <1>4, <1>11
  <2>3. \A a \in Activities : Present(a) /\ Informed(a) => Informed(a)'
    BY <1>10, <1>11
  <2> QED BY <1>2, <1>8, <1>9, <2>1, <2>2, <2>3, KnowledgeFrame
<1>12. CASE o.f = "FOREGROUND"
  <2>1. ASSUME ~overtaken'
        PROVE  /\ Gone' /\ ArrivalTold' /\ Silent' /\ Backed' /\ Fronted' /\ FrontFirst'
               /\ BackInformed' /\ FrontInformed'
    <3>1. /\ Gone /\ ArrivalTold /\ Silent /\ Backed /\ Fronted /\ FrontFirst
          /\ BackInformed /\ FrontInformed
      BY <1>2, <2>1 DEF Knowledge
    <3>2. channel[Top].focusState = "FOREGROUND" /\ o.c = Top
      BY <1>1, <1>4, <1>5, <1>12, <3>1 DEF FrontFirst
    <3>3. \A r \in R : r.op # "setPrimary"
      <4>1. Working(o)
        BY <1>1, <1>12 DEF Working
      <4> QED BY <1>4, <4>1, Kinds DEF Rest
    <3>4. Gone' /\ ArrivalTold' /\ Silent' /\ FrontFirst'
      <4>1. Gone'
        BY <1>2, <1>6, <3>1 DEF Gone, toldVars
      <4>2. ArrivalTold'
        BY <1>3, <1>4, <3>3 DEF ArrivalTold
      <4>3. Silent' /\ FrontFirst'
        BY <1>1, <1>2, <1>4, <1>6, <3>1, <3>2 DEF Silent, FrontFirst
      <4> QED BY <4>1, <4>2, <4>3
    <3>5. Backed' /\ Fronted'
      BY <1>2, <1>6, <1>9, <3>1 DEF Backed, Fronted
    <3>6. BackInformed'
      BY <1>2, <1>6, <1>10, <3>1, <3>2 DEF BackInformed
    <3>7. FrontInformed'
      <4>1. ASSUME NEW a \in Activities, Present(a), channelOf[a] = Top PROVE Knows(a)'
        <5>1. (Primary(a) => Telling(a, "FOREGROUND")') /\ (~Primary(a) => Telling(a, "BACKGROUND")')
          BY <1>3, <1>4, <1>12, <3>2, <4>1 DEF Telling
        <5> QED BY <1>6, <5>1 DEF Knows
      <4> QED BY <1>6, <4>1 DEF FrontInformed
    <3> QED BY <3>4, <3>5, <3>6, <3>7
  <2> QED BY <1>8, <2>1 DEF Knowledge
<1> QED BY <1>11, <1>12

\* The highest of any set of channels.
LEMMA HighestIs ==
    ASSUME NEW S \in SUBSET Channels
    PROVE  /\ S = {} => HighestPriority(S) = None
           /\ S # {} => /\ HighestPriority(S) \in S /\ HighestPriority(S) # None
                        /\ \A d \in S : HighestPriority(S) <= d
           /\ \A c \in S : (\A d \in S : c <= d) => c = HighestPriority(S)
<1> DEFINE h == HighestPriority(S)
<1>1. S = {} => h = None
  BY DEF HighestPriority
<1>2. S # {} => h \in S /\ \A d \in S : h <= d
  BY HighestIsOne
<1>3. Channels \subseteq Nat /\ None \notin Channels
  BY ConstantsAre
<1> HIDE DEF h
<1>4. ASSUME NEW c \in S, \A d \in S : c <= d PROVE c = h
  <2>1. h \in Nat /\ c \in Nat /\ c <= h /\ h <= c
    BY <1>2, <1>3, <1>4
  <2> QED BY <2>1
<1> QED BY <1>1, <1>2, <1>3, <1>4 DEF h

\* A channel without activities is no longer active and will lose the focus; the highest of
\* the others will be brought to the foreground.
LEMMA ClearKnows ==
    ASSUME TypeOK, TypeOK', Structure, Knowledge, ClearChannel
    PROVE  Structure' /\ Knowledge'
<1>1. PICK o \in Ops : o = Head(todo["executor"]) /\ o.op = "clear" /\ o.c \in Channels /\ Next1("executor", "clear")
  BY NextOp, OpFields, TwoThreads DEF ClearChannel
<1>2. UNCHANGED <<channel, queue, toldVars, captured, acquired, overtaken>>
  BY DEF ClearChannel, ExecutorUnchanged, callVars
<1>3. CASE channel[o.c].activities # <<>>
  <2>1. Then("executor", <<>>) /\ UNCHANGED m_activeChannels
    BY <1>1, <1>3 DEF ClearChannel
  <2>2. <<>> \in Seq(Ops) /\ Range(<<>>) = {}
    BY ShortPrograms, RangeParts
  <2>3. \A c \in Channels : ~Backs(o, c)
    BY <1>1 DEF Backs
  <2> QED BY <1>1, <1>2, <1>3, <2>1, <2>2, <2>3, ExecutorGoesOn
<1>4. CASE channel[o.c].activities = <<>>
  <2> DEFINE f == Focus(o.c, "NONE", "MUST_STOP", FALSE)
  <2>1. Then("executor", <<f>>) /\ m_activeChannels' = m_activeChannels \ {o.c}
    BY <1>1, <1>4 DEF ClearChannel
  <2>2. f.op = "focus" /\ f.c = o.c /\ f.f = "NONE"
    BY DEF Focus
  <2>3. f \in Ops
    <3>1. "NONE" \in Focuses /\ "MUST_STOP" \in Mixings
      BY DEF Focuses, Mixings
    <3> QED BY <1>1, <3>1, OpTypes
  <2> HIDE DEF f
  <2>4. <<f>> \in Seq(Ops) /\ Range(<<f>>) = {f}
    BY <2>3, ShortPrograms, RangeParts
  <2>5. PICK R : Program = {o} \cup R /\ Program' = {f} \cup R /\ Callers' = Callers /\ Rest(o, R)
    <3>1. \E R : Program = {o} \cup R /\ Program' = Range(<<f>>) \cup R /\ Callers' = Callers /\ Rest(o, R)
      BY <1>1, <2>1, <2>4, ExecutorMoves DEF Structure, ProgramFits
    <3> QED BY <2>4, <3>1
  <2>6. /\ \A r \in R : r.op \in {"clear", "foreground"} \/ (r.op \in {"focus", "notify"} /\ r.f = "NONE")
        /\ \E r \in R : r.op = "foreground"
    <3>1. Clearing(o)
      BY <1>1 DEF Clearing
    <3> QED BY <2>5, <3>1 DEF Rest, Clearing
  <2>7. SameChannels /\ \A a \in Activities : (Present(a)' <=> Present(a)) /\ (Primary(a)' <=> Primary(a))
    <3>1. SameChannels
      BY <1>2 DEF SameChannels
    <3> QED BY <3>1, SamePresent
  <2>8. Structure'
    <3>1. Orderly' /\ QueueFits' /\ CallerFits'
      BY <1>2, <2>5, <2>7, SameOrderly DEF Structure, QueueFits, CallerFits
    <3>2. ActiveFits'
      BY <1>1, <1>2, <1>4, <2>1, <2>5 DEF Structure, ActiveFits
    <3>3. ProgramFits'
      <4>1. Shape(todo'["executor"])
        <5>1. /\ todo["executor"] \in Seq(Ops) /\ todo["executor"] # <<>> /\ Shape(todo["executor"])
              /\ todo'["executor"] = <<f>> \o Tail(todo["executor"])
          BY <1>1, <2>1, TwoThreads DEF TypeOK, Next1, Then, Structure, ProgramFits
        <5>2. Clearing(o) /\ \A n \in Range(<<f>>) : Clearing(n)
          BY <1>1, <2>2, <2>4 DEF Clearing
        <5> QED BY <1>1, <2>4, <5>1, <5>2, ShapeStays
      <4>2. \A r \in Program' : OpFits(r)'
        <5>1. OpFits(f)'
          BY <2>1, <2>2 DEF OpFits
        <5>2. ASSUME NEW r \in R PROVE OpFits(r)'
          <6>1. OpFits(r)
            BY <2>5 DEF Structure, ProgramFits
          <6> QED BY <2>1, <2>6, <6>1 DEF OpFits
        <5> QED BY <2>5, <5>1, <5>2
      <4> QED BY <4>1, <4>2 DEF ProgramFits
    <3>4. Arrivals'
      <4>1. ASSUME NEW a \in Activities
            PROVE  ~ArrivingNow(a)' /\ (ArrivingLater(a)' <=> ArrivingLater(a)) /\ (Untouched(a) => Untouched(a)')
        <5>1. ~ArrivingNow(a)' /\ (ArrivingLater(a)' <=> ArrivingLater(a))
          BY <1>2, <2>2, <2>5, <2>6 DEF ArrivingNow, ArrivingLater
        <5>2. Untouched(a) => Untouched(a)'
          BY <1>2, <2>2, <2>5, <2>6, <2>7 DEF Untouched, toldVars
        <5> QED BY <5>1, <5>2
      <4> QED BY <1>2, <4>1 DEF Structure, Arrivals
    <3> QED BY <3>1, <3>2, <3>3, <3>4 DEF Structure
  <2>9. ASSUME ~overtaken'
        PROVE  /\ Gone' /\ ArrivalTold' /\ Silent' /\ Backed' /\ Fronted' /\ FrontFirst'
               /\ BackInformed' /\ FrontInformed'
    <3>1. /\ Gone /\ ArrivalTold /\ Silent /\ Backed /\ Fronted /\ FrontFirst
          /\ BackInformed /\ FrontInformed
      BY <1>2, <2>9 DEF Knowledge
    <3>2. WillFront' /\ ~Redo /\ \A c \in Channels : ~WillBack(c)
      <4>1. WillFront' /\ ~Redo
        BY <1>1, <2>5, <2>6 DEF WillFront, Redo
      <4>2. \A c \in Channels : ~WillBack(c)
        BY <1>1, <2>5, <2>6 DEF WillBack, Backs
      <4> QED BY <4>1, <4>2
    <3>3. \A c \in m_activeChannels' : c = Top => c = Top'
      <4>1. m_activeChannels' \in SUBSET Channels /\ m_activeChannels' \subseteq m_activeChannels
        BY <2>1 DEF TypeOK
      <4>2. \A c \in m_activeChannels' : c = Top => \A d \in m_activeChannels' : c <= d
        BY <4>1, TopIs
      <4> QED BY <4>1, <4>2, HighestIs DEF Top, getHighestPriorityActiveChannelLocked
    <3>4. Top' # None => Top' \in m_activeChannels /\ Top' \in Channels
      <4>1. m_activeChannels' \in SUBSET Channels /\ m_activeChannels' \subseteq m_activeChannels
        BY <2>1 DEF TypeOK
      <4> QED BY <4>1, HighestIs DEF Top, getHighestPriorityActiveChannelLocked
    <3>5. Gone' /\ ArrivalTold' /\ Silent' /\ FrontFirst'
      <4>1. Gone'
        BY <1>2, <2>7, <3>1 DEF Gone, toldVars
      <4>2. ArrivalTold' /\ FrontFirst'
        BY <2>2, <2>5, <2>6 DEF ArrivalTold, FrontFirst
      <4>3. Silent'
        BY <1>1, <1>2, <2>1, <2>2, <2>5, <3>1 DEF Silent
      <4> QED BY <4>1, <4>2, <4>3
    <3>6. Backed' /\ Fronted'
      <4>1. Backed'
        BY <1>2, <2>1, <3>1, <3>2, <3>3 DEF Backed
      <4> QED BY <3>2, <4>1 DEF Fronted
    <3>7. BackInformed'
      <4>1. ASSUME NEW a \in Activities, Informed(a) PROVE Informed(a)'
        BY <1>1, <1>2, <2>5, <4>1 DEF Informed, toldVars
      <4> QED BY <1>2, <2>7, <3>1, <4>1 DEF BackInformed
    <3>8. FrontInformed'
      <4> SUFFICES ASSUME Top' # None, channel[Top'].focusState = "FOREGROUND",
                          NEW a \in Activities, Present(a), channelOf[a] = Top'
                   PROVE  Knows(a)'
        BY <1>2, <2>7 DEF FrontInformed
      <4>1. Top' = Top
        BY <3>1, <3>2, <3>4 DEF Backed
      <4>2. Knows(a)
        BY <3>1, <3>2, <4>1 DEF FrontInformed
      <4>3. \A x : Telling(a, x) => Telling(a, x)'
        BY <1>1, <2>5 DEF Telling
      <4> QED BY <1>2, <2>7, <3>2, <4>2, <4>3 DEF Knows, toldVars
    <3> QED BY <3>5, <3>6, <3>7, <3>8
  <2> QED BY <1>2, <2>8, <2>9 DEF Knowledge
<1> QED BY <1>3, <1>4

-----------------------------------------------------------------------------
(* An arrival *)

\* What an arrival on channel c still has to do, and the highest channel when c is active.
LEMMA ArrivedIs ==
    ASSUME TypeOK, NEW c \in Channels, m_activeChannels' = m_activeChannels \cup {c}
    PROVE  LET ops == Arrived(c, Top)
           IN  /\ ops \in Seq(Ops)
               /\ \A n \in Range(ops) : n.op \in {"background", "behind", "focus"} /\ Focusing(n) /\ OpFits(n)'
               /\ \/ /\ Top' = c /\ c \notin m_activeChannels
                     /\ \E n \in Range(ops) : n.op = "focus" /\ n.f = "FOREGROUND"
                     /\ \A d \in m_activeChannels : \E n \in Range(ops) : Backs(n, d)
                  \/ /\ Top' = c /\ Top = c /\ c \in m_activeChannels
                     /\ \E n \in Range(ops) : n.op = "focus" /\ n.f = "FOREGROUND" /\ n.force
                  \/ /\ Top' = Top /\ Top # None /\ Top # c
                     /\ \E n \in Range(ops) : Backs(n, c)
<1>0. PICK fg : fg = Top
  OBVIOUS
<1> DEFINE ops == Arrived(c, fg)
           f == Focus(c, "FOREGROUND", "PRIMARY", FALSE)
           g == Focus(c, "FOREGROUND", "PRIMARY", TRUE)
           b == Background(c, c)
           h == Behind(c, fg)
<1>1. /\ f.op = "focus" /\ f.c = c /\ f.f = "FOREGROUND" /\ f.b = "PRIMARY"
      /\ g.op = "focus" /\ g.c = c /\ g.f = "FOREGROUND" /\ g.b = "PRIMARY" /\ g.force
      /\ b.op = "background" /\ b.c = c /\ b.at = c /\ h.op = "behind" /\ h.c = c
  BY DEF Focus, Background, Behind
<1>2. f \in Ops /\ g \in Ops /\ b \in Ops
  <2>1. "FOREGROUND" \in Focuses /\ "PRIMARY" \in Mixings
    BY DEF Focuses, Mixings
  <2> QED BY <2>1, OpTypes
<1>3. Top \in Channels => h \in Ops
  BY <1>0, OpTypes
<1>4. /\ m_activeChannels \subseteq Channels /\ m_activeChannels' \in SUBSET Channels /\ Channels \subseteq Nat
      /\ None \notin Channels /\ c \in Nat
  BY ConstantsAre DEF TypeOK
<1>5. \A d \in m_activeChannels' : (\A e \in m_activeChannels' : d <= e) => d = Top'
  BY <1>4, HighestIs DEF Top, getHighestPriorityActiveChannelLocked
<1>6. /\ m_activeChannels = {} => Top = None
      /\ Top # None => Top \in m_activeChannels /\ Top \in Channels /\ Top \in Nat
      /\ m_activeChannels # {} => Top # None /\ \A d \in m_activeChannels : Top <= d
  BY <1>4, TopIs
<1>7. c \in m_activeChannels'
  OBVIOUS
<1>8. Top' = c => OpFits(f)' /\ OpFits(g)' /\ OpFits(b)'
  <2> HIDE DEF f, g, b
  <2> QED BY <1>1, <1>4, <1>7 DEF OpFits
<1>9. Focusing(f) /\ Focusing(g) /\ Focusing(b) /\ Focusing(h)
  <2> HIDE DEF f, g, b, h
  <2> QED BY <1>1 DEF Focusing
<1>10. CASE Top = None
  <2>1. ops = <<f>>
    BY <1>0, <1>4, <1>10 DEF Arrived
  <2> HIDE DEF f, ops
  <2>2. ops \in Seq(Ops) /\ Range(ops) = {f}
    BY <1>2, <2>1, ShortPrograms, RangeParts
  <2>3. m_activeChannels = {} /\ \A e \in m_activeChannels' : c <= e
    BY <1>4, <1>6, <1>10
  <2>4. Top' = c
    BY <1>5, <1>7, <2>3
  <2> QED BY <1>0, <1>1, <1>8, <1>9, <2>2, <2>3, <2>4 DEF ops
<1>11. CASE Top = c
  <2>1. ops = <<g>>
    <3>1. fg = c /\ fg # None /\ ~(c < fg)
      BY <1>0, <1>4, <1>11
    <3> HIDE DEF g
    <3>2. Arrived(c, fg) = <<Focus(c, "FOREGROUND", "PRIMARY", TRUE)>>
      BY <3>1, Zenon DEF Arrived
    <3> QED BY <3>2 DEF g
  <2> HIDE DEF g, ops
  <2>2. ops \in Seq(Ops) /\ Range(ops) = {g}
    BY <1>2, <2>1, ShortPrograms, RangeParts
  <2>3. Top # None /\ c \in m_activeChannels
    BY <1>4, <1>6, <1>11
  <2>4. \A e \in m_activeChannels' : c <= e
    BY <1>4, <1>6, <1>11, <2>3
  <2>5. Top' = c
    BY <1>5, <1>7, <2>4
  <2> QED BY <1>0, <1>1, <1>8, <1>9, <1>11, <2>2, <2>3, <2>5 DEF ops
<1>12. CASE Top # None /\ Top # c /\ c < Top
  <2>1. ops = <<b, f>>
    BY <1>0, <1>12 DEF Arrived
  <2> HIDE DEF f, b, ops
  <2>2. ops \in Seq(Ops) /\ Range(ops) = {b, f}
    BY <1>2, <2>1, ShortPrograms, RangeParts
  <2>3. \A d \in m_activeChannels : c < d /\ d \in Nat
    <3>1. ASSUME NEW d \in m_activeChannels PROVE c < d /\ d \in Nat
      <4>1. d \in Nat /\ Top \in Nat /\ Top <= d
        BY <1>4, <1>6, <1>12
      <4> QED BY <1>4, <1>12, <4>1
    <3> QED BY <3>1
  <2>4. c \notin m_activeChannels /\ \A e \in m_activeChannels' : c <= e
    BY <1>4, <2>3
  <2>5. Top' = c
    BY <1>5, <1>7, <2>4
  <2>6. \A d \in m_activeChannels : Backs(b, d)
    BY <1>1, <2>3 DEF Backs
  <2> QED BY <1>0, <1>1, <1>8, <1>9, <2>2, <2>4, <2>5, <2>6 DEF ops
<1>13. CASE Top # None /\ Top # c /\ ~(c < Top)
  <2>1. ops = <<h>>
    BY <1>0, <1>13 DEF Arrived
  <2> HIDE DEF h, ops
  <2>2. ops \in Seq(Ops) /\ Range(ops) = {h}
    BY <1>3, <1>6, <1>13, <2>1, ShortPrograms, RangeParts
  <2>3. Top \in m_activeChannels' /\ \A e \in m_activeChannels' : Top <= e
    BY <1>4, <1>6, <1>13
  <2>4. Top' = Top
    BY <1>5, <2>3
  <2>5. OpFits(h)' /\ Backs(h, c)
    BY <1>1, <1>7, <1>13, <2>4 DEF OpFits, Backs
  <2> QED BY <1>0, <1>1, <1>9, <1>13, <2>2, <2>4, <2>5 DEF ops
<1> QED BY <1>10, <1>11, <1>12, <1>13

\* The channel of an arrival is active.
LEMMA AcquireKnows ==
    ASSUME TypeOK, TypeOK', Structure, Knowledge, acquireChannelHelper
    PROVE  Structure' /\ Knowledge'
<1>1. PICK o \in Ops : /\ o = Head(todo["executor"]) /\ o.op = "acquire" /\ o.a \in Activities
                       /\ Next1("executor", "acquire")
  BY NextOp, OpFields, TwoThreads DEF acquireChannelHelper
<1>2. PICK a \in Activities : a = o.a
  BY <1>1
<1>3. PICK c \in Channels : c = channelOf[a]
  BY ConstantsAre
<1> DEFINE s == SetPrimary(a)
           ops == Arrived(c, Top)
<1>4. /\ m_activeChannels' = m_activeChannels \cup {c} /\ Then("executor", <<s>> \o ops)
      /\ UNCHANGED <<channel, queue, toldVars, captured, acquired, overtaken>>
  BY <1>1, <1>2, <1>3 DEF acquireChannelHelper, ExecutorUnchanged, callVars, Top
<1>5. s.op = "setPrimary" /\ s.a = a /\ s \in Ops
  BY OpTypes DEF SetPrimary
<1>6. /\ ops \in Seq(Ops)
      /\ \A n \in Range(ops) : n.op \in {"background", "behind", "focus"} /\ Focusing(n) /\ OpFits(n)'
      /\ \/ /\ Top' = c /\ c \notin m_activeChannels
            /\ \E n \in Range(ops) : n.op = "focus" /\ n.f = "FOREGROUND"
            /\ \A d \in m_activeChannels : \E n \in Range(ops) : Backs(n, d)
         \/ /\ Top' = c /\ Top = c /\ c \in m_activeChannels
            /\ \E n \in Range(ops) : n.op = "focus" /\ n.f = "FOREGROUND" /\ n.force
         \/ /\ Top' = Top /\ Top # None /\ Top # c
            /\ \E n \in Range(ops) : Backs(n, c)
  BY <1>4, ArrivedIs
<1> DEFINE new == <<s>> \o ops
<1> HIDE DEF s, ops
<1>7. /\ new \in Seq(Ops) /\ new # <<>> /\ Head(new) = s /\ Tail(new) = ops /\ Range(new) = {s} \cup Range(ops)
  <2>1. <<s>> \in Seq(Ops) /\ Range(<<s>>) = {s}
    BY <1>5, ShortPrograms, RangeParts
  <2>2. \A p, q \in Seq(Ops) : Range(p \o q) = Range(p) \cup Range(q)
    BY RangeParts
  <2>3. Range(new) = {s} \cup Range(ops)
    BY <1>6, <2>1, <2>2
  <2>4. new \in Seq(Ops) /\ new # <<>> /\ Head(new) = s /\ Tail(new) = ops
    BY <1>5, <1>6
  <2> QED BY <2>3, <2>4
<1>8. Then("executor", new)
  BY <1>4
<1> HIDE DEF new
<1>9. Program = {o} /\ Program' = {s} \cup Range(ops) /\ Callers' = Callers
  <2>1. PICK R : Program = {o} \cup R /\ Program' = Range(new) \cup R /\ Callers' = Callers /\ Rest(o, R)
    BY <1>1, <1>7, <1>8, ExecutorMoves DEF Structure, ProgramFits
  <2>2. R = {}
    BY <1>1, <2>1 DEF Rest
  <2> QED BY <1>7, <2>1, <2>2
<1>10. SameChannels /\ \A x \in Activities : (Present(x)' <=> Present(x)) /\ (Primary(x)' <=> Primary(x))
  <2>1. SameChannels
    BY <1>4 DEF SameChannels
  <2> QED BY <2>1, SamePresent
<1>11. Structure'
  <2>1. Orderly' /\ QueueFits' /\ CallerFits'
    BY <1>4, <1>9, <1>10, SameOrderly DEF Structure, QueueFits, CallerFits
  <2>2. ActiveFits'
    BY <1>1, <1>3, <1>4, <1>5, <1>9 DEF Structure, ActiveFits
  <2>3. ProgramFits'
    <3>1. Shape(new)
      BY <1>5, <1>6, <1>7 DEF Shape
    <3>2. /\ todo["executor"] \in Seq(Ops) /\ todo["executor"] # <<>> /\ Shape(todo["executor"])
          /\ todo'["executor"] = new \o Tail(todo["executor"])
      BY <1>1, <1>8, TwoThreads DEF TypeOK, Next1, Then, Structure, ProgramFits
    <3>3. Shape(todo'["executor"])
      BY <1>1, <1>7, <3>1, <3>2, ShapeStays
    <3>4. OpFits(s)'
      BY <1>3, <1>4, <1>5 DEF OpFits
    <3> QED BY <1>6, <1>9, <3>3, <3>4 DEF ProgramFits
  <2>4. Arrivals'
    <3>1. ASSUME NEW x \in Activities
          PROVE  /\ (ArrivingNow(x)' <=> ArrivingNow(x)) /\ (ArrivingLater(x)' <=> ArrivingLater(x))
                 /\ Untouched(x) => Untouched(x)'
      <4>1. (ArrivingNow(x)' <=> ArrivingNow(x)) /\ (ArrivingLater(x)' <=> ArrivingLater(x))
        BY <1>1, <1>2, <1>4, <1>5, <1>6, <1>9 DEF ArrivingNow, ArrivingLater
      <4>2. Untouched(x) => Untouched(x)'
        BY <1>4, <1>5, <1>6, <1>9, <1>10 DEF Untouched, toldVars
      <4> QED BY <4>1, <4>2
    <3> QED BY <1>4, <3>1 DEF Structure, Arrivals
  <2> QED BY <2>1, <2>2, <2>3, <2>4 DEF Structure
<1>12. ASSUME ~overtaken'
       PROVE  /\ Gone' /\ ArrivalTold' /\ Silent' /\ Backed' /\ Fronted' /\ FrontFirst'
              /\ BackInformed' /\ FrontInformed'
  <2>1. /\ Gone /\ ArrivalTold /\ Silent /\ Backed /\ Fronted /\ FrontFirst
        /\ BackInformed /\ FrontInformed
    BY <1>4, <1>12 DEF Knowledge
  <2>2. /\ ~WillFront /\ ~Redo /\ \A x \in Activities, f \in Focuses : ~Telling(x, f)
        /\ \A d \in Channels : ~WillBack(d)
    BY <1>1, <1>9 DEF WillFront, Redo, Telling, WillBack, Backs
  <2>3. m_activeChannels \subseteq Channels
    BY DEF TypeOK
  <2>4. c \notin m_activeChannels => channel[c].focusState = "NONE"
    BY <1>1, <1>9, <2>1 DEF Silent
  <2>5. Gone' /\ Silent' /\ FrontFirst'
    <3>1. Gone'
      BY <1>4, <1>10, <2>1 DEF Gone, toldVars
    <3>2. Silent'
      BY <1>1, <1>4, <1>9, <2>1 DEF Silent
    <3>3. FrontFirst'
      BY <1>5, <1>6, <1>9 DEF FrontFirst
    <3> QED BY <3>1, <3>2, <3>3
  <2>6. BackInformed'
    <3>1. ASSUME NEW x \in Activities, Informed(x) PROVE Informed(x)'
      BY <1>1, <1>4, <1>9, <3>1 DEF Informed, toldVars
    <3> QED BY <1>4, <1>10, <2>1, <3>1 DEF BackInformed
  <2>7. CASE /\ Top' = c /\ c \notin m_activeChannels
             /\ \E n \in Range(ops) : n.op = "focus" /\ n.f = "FOREGROUND"
             /\ \A d \in m_activeChannels : \E n \in Range(ops) : Backs(n, d)
    <3>1. WillFront' /\ \A d \in m_activeChannels : WillBack(d)'
      BY <1>9, <2>7 DEF WillFront, WillBack
    <3>2. ArrivalTold' /\ Backed' /\ Fronted' /\ FrontInformed'
      <4>1. channel'[Top'].focusState = "NONE"
        BY <1>4, <2>4, <2>7
      <4>2. Backed'
        BY <1>4, <2>7, <3>1 DEF Backed
      <4>3. ArrivalTold' /\ Fronted' /\ FrontInformed'
        BY <3>1, <4>1 DEF ArrivalTold, Fronted, FrontInformed
      <4> QED BY <4>2, <4>3
    <3> QED BY <2>5, <2>6, <3>2
  <2>8. CASE /\ Top' = c /\ Top = c /\ c \in m_activeChannels
             /\ \E n \in Range(ops) : n.op = "focus" /\ n.f = "FOREGROUND" /\ n.force
    <3>1. WillFront' /\ Redo'
      BY <1>9, <2>8 DEF WillFront, Redo
    <3>2. ArrivalTold' /\ Fronted' /\ FrontInformed'
      BY <3>1 DEF ArrivalTold, Fronted, FrontInformed
    <3>3. Backed'
      BY <1>4, <2>1, <2>2, <2>8 DEF Backed
    <3> QED BY <2>5, <2>6, <3>2, <3>3
  <2>9. CASE Top' = Top /\ Top # None /\ Top # c /\ \E n \in Range(ops) : Backs(n, c)
    <3>1. ArrivalTold'
      BY <1>3, <1>5, <1>6, <1>9, <2>9 DEF ArrivalTold
    <3>2. WillBack(c)'
      BY <1>9, <2>9 DEF WillBack
    <3>3. Backed' /\ Fronted'
      BY <1>4, <2>1, <2>2, <2>9, <3>2 DEF Backed, Fronted
    <3>4. FrontInformed'
      <4>1. ASSUME NEW x \in Activities, Knows(x) PROVE Knows(x)'
        <5>1. ~WillFront /\ ~Telling(x, "FOREGROUND") /\ ~Telling(x, "BACKGROUND")
          BY <2>2 DEF Focuses
        <5> QED BY <1>4, <1>10, <4>1, <5>1 DEF Knows, toldVars
      <4> QED BY <1>4, <1>10, <2>1, <2>2, <2>9, <4>1 DEF FrontInformed
    <3> QED BY <2>5, <2>6, <3>1, <3>3, <3>4
  <2> QED BY <1>6, <2>7, <2>8, <2>9
<1> QED BY <1>11, <1>12 DEF Knowledge

\* One channel changes; the others keep their activities.
LEMMA OneChannel ==
    ASSUME TypeOK, Orderly, NEW c \in Channels, NEW n, Ordered(n), Distinct(n.activities),
           \A a \in Range(n.activities) : channelOf[a] = c, channel' = [channel EXCEPT ![c] = n]
    PROVE  /\ Orderly' /\ channel'[c] = n /\ \A d \in Channels : d # c => channel'[d] = channel[d]
           /\ \A a \in Activities :
                /\ channelOf[a] # c => (Present(a)' <=> Present(a)) /\ (Primary(a)' <=> Primary(a))
                /\ channelOf[a] = c => /\ Present(a)' <=> a \in Range(n.activities)
                                       /\ Primary(a)' <=> n.activities # <<>> /\ a = Head(n.activities)
<1>1. channel'[c] = n /\ \A d \in Channels : d # c => channel'[d] = channel[d]
  BY DEF TypeOK
<1>2. Orderly'
  <2>1. ASSUME NEW d \in Channels
        PROVE  /\ Ordered(channel'[d]) /\ Distinct(channel'[d].activities)
               /\ \A a \in Range(channel'[d].activities) : channelOf[a] = d
    <3>1. CASE d = c
      BY <1>1, <3>1
    <3>2. CASE d # c
      <4>1. channel'[d] = channel[d]
        BY <1>1, <3>2
      <4> QED BY <4>1 DEF Orderly
    <3> QED BY <3>1, <3>2
  <2> QED BY <2>1 DEF Orderly, Ordered, Distinct
<1>3. ASSUME NEW a \in Activities
      PROVE  /\ channelOf[a] # c => (Present(a)' <=> Present(a)) /\ (Primary(a)' <=> Primary(a))
             /\ channelOf[a] = c => /\ Present(a)' <=> a \in Range(n.activities)
                                    /\ Primary(a)' <=> n.activities # <<>> /\ a = Head(n.activities)
  <2>1. channelOf[a] \in Channels
    BY ConstantsAre
  <2> QED BY <1>1, <2>1 DEF Present, Primary
<1> QED BY <1>1, <1>2, <1>3

\* Those that left were told so; the others were told nothing.
LEMMA ReleasedTold ==
    ASSUME TypeOK, Orderly, NEW c \in Channels, NEW n, channel' = [channel EXCEPT ![c] = n],
           TellReleased(c, n)
    PROVE  \A a \in Activities :
             /\ Present(a) /\ ~Present(a)' => told'[a] = "NONE"
             /\ ~Present(a) \/ Present(a)' =>
                   told'[a] = told[a] /\ m_mixingBehavior'[a] = m_mixingBehavior[a]
<1> DEFINE gone == Range(channel[c].activities) \ Range(n.activities)
<1>1. channel'[c] = n /\ \A d \in Channels : d # c => channel'[d] = channel[d]
  BY DEF TypeOK
<1> SUFFICES ASSUME NEW a \in Activities
             PROVE  /\ Present(a) /\ ~Present(a)' => told'[a] = "NONE"
                    /\ ~Present(a) \/ Present(a)' =>
                          told'[a] = told[a] /\ m_mixingBehavior'[a] = m_mixingBehavior[a]
  OBVIOUS
<1>2. /\ a \in gone => told'[a] = "NONE"
      /\ a \notin gone => told'[a] = told[a] /\ m_mixingBehavior'[a] = m_mixingBehavior[a]
  BY DEF TellReleased
<1>3. a \in gone <=> Present(a) /\ ~Present(a)'
  <2>1. channelOf[a] \in Channels
    BY ConstantsAre
  <2>2. CASE channelOf[a] = c
    BY <1>1, <2>2 DEF Present
  <2>3. CASE channelOf[a] # c
    <3>1. a \notin Range(channel[c].activities)
      BY <2>3 DEF Orderly
    <3> QED BY <1>1, <2>1, <2>3, <3>1 DEF Present
  <2> QED BY <2>2, <2>3
<1> QED BY <1>2, <1>3

\* Channel::setPrimaryActivity: the arrival does not know anything yet, and if its channel has
\* the foreground the executor is about to tell it.
LEMMA PrimaryKnows ==
    ASSUME TypeOK, TypeOK', Structure, Knowledge, SetPrimaryStep
    PROVE  Structure' /\ Knowledge'
<1>1. PICK o \in Ops : /\ o = Head(todo["executor"]) /\ o.op = "setPrimary" /\ o.a \in Activities
                       /\ Next1("executor", "setPrimary")
  BY NextOp, OpFields, TwoThreads DEF SetPrimaryStep
<1>2. PICK a \in Activities : a = o.a
  BY <1>1
<1>3. PICK c \in Channels : c = channelOf[a]
  BY ConstantsAre
<1>4. PICK ch \in ChannelType : ch = channel[c]
  BY DEF TypeOK
<1>5. PICK n : n = setPrimaryActivity(ch, a)
  OBVIOUS
<1>6. /\ Changes(c, n, ArrivalJoins(ch, a), <<>>)
      /\ UNCHANGED <<m_activeChannels, queue, captured, acquired, overtaken>>
  BY <1>1, <1>2, <1>3, <1>4, <1>5 DEF SetPrimaryStep, ExecutorUnchanged, callVars
<1>7. CASE UNCHANGED <<channel, toldVars, todo>>
  <2>1. CallerFits'
    BY <1>6, <1>7 DEF Structure, CallerFits, Callers
  <2> QED BY <1>6, <1>7, <2>1, NothingMoves
<1>8. CASE /\ channel' = [channel EXCEPT ![c] = n] /\ TellReleased(c, n) /\ Then("executor", <<>>)
  <2>1. PICK R : Program = {o} \cup R /\ Program' = R /\ Callers' = Callers /\ Rest(o, R)
    <3>1. <<>> \in Seq(Ops) /\ Range(<<>>) = {}
      BY ShortPrograms, RangeParts
    <3>2. \E R : Program = {o} \cup R /\ Program' = Range(<<>>) \cup R /\ Callers' = Callers /\ Rest(o, R)
      BY <1>1, <1>8, <3>1, ExecutorMoves DEF Structure, ProgramFits
    <3> QED BY <3>1, <3>2
  <2>2. \A r \in R : r.op \in {"background", "behind", "focus"} /\ r \in Ops
    <3>1. \A r \in R : r.op \in {"background", "behind", "focus"}
      BY <1>1, <2>1, Kinds DEF Rest
    <3>2. Program \subseteq Ops
      BY RangeParts, TwoThreads DEF Program, TypeOK
    <3> QED BY <2>1, <3>1, <3>2
  <2>3. ArrivingNow(a) /\ Untouched(a) /\ a \in acquired /\ ~ArrivingLater(a)
    <3>1. ArrivingNow(a)
      BY <1>1, <1>2, <2>1 DEF ArrivingNow
    <3> QED BY <3>1 DEF Structure, Arrivals
  <2>4. Ordered(ch) /\ Distinct(ch.activities) /\ a \notin Range(ch.activities)
        /\ \A x \in Range(ch.activities) : channelOf[x] = c
    BY <1>3, <1>4, <2>3 DEF Structure, Orderly, Untouched, Present
  <2>5. /\ n.focusState = ch.focusState /\ Ordered(n) /\ Distinct(n.activities)
        /\ n.activities # <<>> /\ Head(n.activities) = a
        /\ Range(n.activities) \subseteq Range(ch.activities) \cup {a}
    BY <1>5, <2>4, ArrivalKeeps
  <2>6. \A x \in Range(n.activities) : channelOf[x] = c
    BY <1>3, <2>4, <2>5
  <2>7. /\ Orderly' /\ channel'[c] = n /\ \A d \in Channels : d # c => channel'[d] = channel[d]
        /\ \A x \in Activities :
             /\ channelOf[x] # c => (Present(x)' <=> Present(x)) /\ (Primary(x)' <=> Primary(x))
             /\ channelOf[x] = c => (Present(x)' <=> x \in Range(n.activities))
    BY <1>8, <2>5, <2>6, OneChannel DEF Structure
  <2>8. \A x \in Activities :
             /\ Present(x) /\ ~Present(x)' => told'[x] = "NONE"
             /\ ~Present(x) \/ Present(x)' =>
                   told'[x] = told[x] /\ m_mixingBehavior'[x] = m_mixingBehavior[x]
    BY <1>8, ReleasedTold DEF Structure
  <2>9. \A x \in Activities : x # a /\ Present(x)' => Present(x)
    BY <1>4, <2>5, <2>7 DEF Present
  <2>10. \A d \in Channels : channel'[d].focusState = channel[d].focusState
    BY <1>4, <2>5, <2>7
  <2>11. Top' = Top /\ (Top # None => Top \in Channels)
    BY <1>6, TopStays, TopIs DEF TypeOK
  <2>12. Structure'
    <3>1. QueueFits' /\ CallerFits'
      BY <1>6, <2>1 DEF Structure, QueueFits, CallerFits
    <3>2. ActiveFits'
      <4>1. c \in m_activeChannels
        BY <1>1, <1>2, <1>3, <2>1 DEF Structure, ProgramFits, OpFits
      <4> QED BY <1>1, <1>2, <1>3, <1>6, <2>1, <2>5, <2>7, <4>1 DEF Structure, ActiveFits
    <3>3. ProgramFits'
      <4>1. Shape(todo'["executor"])
        <5>1. /\ todo["executor"] \in Seq(Ops) /\ todo["executor"] # <<>> /\ Shape(todo["executor"])
              /\ todo'["executor"] = <<>> \o Tail(todo["executor"]) /\ <<>> \in Seq(Ops)
          BY <1>1, <1>8, TwoThreads, ShortPrograms DEF TypeOK, Next1, Then, Structure, ProgramFits
        <5> QED BY <1>1, <5>1, ShapeStays
      <4>2. ASSUME NEW r \in R PROVE OpFits(r)'
        <5>1. OpFits(r) /\ r \in Ops /\ r.op # "tell"
          BY <2>1, <2>2 DEF Structure, ProgramFits
        <5> QED BY <1>6, <5>1, FitsStays
      <4> QED BY <2>1, <4>1, <4>2 DEF ProgramFits
    <3>4. Arrivals'
      <4>1. ASSUME NEW x \in Activities
            PROVE  /\ ~ArrivingNow(x)' /\ (ArrivingLater(x)' <=> ArrivingLater(x))
                   /\ x # a /\ Untouched(x) => Untouched(x)'
        <5>1. ~ArrivingNow(x)' /\ (ArrivingLater(x)' <=> ArrivingLater(x))
          BY <1>6, <2>1, <2>2 DEF ArrivingNow, ArrivingLater
        <5>2. x # a /\ Untouched(x) => Untouched(x)'
          BY <2>1, <2>8, <2>9 DEF Untouched
        <5> QED BY <5>1, <5>2
      <4> QED BY <1>6, <2>3, <4>1 DEF Structure, Arrivals
    <3> QED BY <2>7, <3>1, <3>2, <3>3, <3>4 DEF Structure
  <2>13. ASSUME ~overtaken'
         PROVE  /\ Gone' /\ ArrivalTold' /\ Silent' /\ Backed' /\ Fronted' /\ FrontFirst'
                /\ BackInformed' /\ FrontInformed'
    <3>1. /\ Gone /\ ArrivalTold /\ Silent /\ Backed /\ Fronted /\ FrontFirst
          /\ BackInformed /\ FrontInformed
      BY <1>6, <2>13 DEF Knowledge
    <3>2. (WillFront' <=> WillFront) /\ (Redo' <=> Redo) /\ \A d \in Channels : WillBack(d)' <=> WillBack(d)
      BY <1>1, <2>1 DEF WillFront, Redo, WillBack, Backs
    <3>3. Gone' /\ ArrivalTold' /\ Silent' /\ FrontFirst'
      <4>1. Gone'
        BY <2>8, <3>1 DEF Gone
      <4>2. ArrivalTold' /\ FrontFirst'
        BY <2>1, <2>2 DEF ArrivalTold, FrontFirst
      <4>3. Silent'
        BY <1>1, <1>6, <2>1, <2>10, <3>1 DEF Silent
      <4> QED BY <4>1, <4>2, <4>3
    <3>4. Backed' /\ Fronted'
      BY <1>6, <2>10, <2>11, <3>1, <3>2 DEF Backed, Fronted
    <3>5. BackInformed'
      <4> SUFFICES ASSUME NEW x \in Activities, Present(x)', channel'[channelOf[x]].focusState = "BACKGROUND"
                   PROVE  Informed(x)'
        BY DEF BackInformed
      <4>1. CASE x = a
        BY <2>3, <2>8, <4>1 DEF Informed, Untouched
      <4>2. CASE x # a
        <5>1. Present(x) /\ channel[channelOf[x]].focusState = "BACKGROUND"
          BY <2>9, <2>10, <4>2, ConstantsAre
        <5>2. Informed(x)
          BY <3>1, <5>1 DEF BackInformed
        <5> QED BY <1>1, <2>1, <2>8, <5>2 DEF Informed
      <4> QED BY <4>1, <4>2
    <3>6. FrontInformed'
      <4> SUFFICES ASSUME Top # None, channel[Top].focusState = "FOREGROUND", ~Redo,
                          NEW x \in Activities, Present(x)', channelOf[x] = Top
                   PROVE  Knows(x)'
        BY <2>10, <2>11, <3>2 DEF FrontInformed
      <4>1. c # Top
        BY <1>1, <1>2, <1>3, <2>1, <3>1 DEF ArrivalTold
      <4>2. Present(x) /\ (Primary(x)' <=> Primary(x))
        BY <2>7, <4>1
      <4>3. Knows(x)
        BY <3>1, <4>2 DEF FrontInformed
      <4>4. \A f : Telling(x, f) => Telling(x, f)'
        BY <1>1, <2>1 DEF Telling
      <4> QED BY <2>8, <3>2, <4>2, <4>3, <4>4 DEF Knows
    <3> QED BY <3>3, <3>4, <3>5, <3>6
  <2> QED BY <2>12, <2>13 DEF Knowledge
<1> QED BY <1>4, <1>6, <1>7, <1>8 DEF Changes

-----------------------------------------------------------------------------
(* Activities leave *)

\* Some activities of a channel leave, and the executor may have other things to clear or to
\* stop.  If another activity is the primary one then, a channel will be brought to the
\* foreground and nobody is being told.
LEMMA LeavingKnows ==
    ASSUME TypeOK, TypeOK', Structure, Knowledge, NEW c \in Channels, NEW n,
           channel' = [channel EXCEPT ![c] = n], TellReleased(c, n), Keeps(channel[c], n), Ordered(n),
           channel[c].activities # <<>> /\ Head(channel[c].activities) \in Range(n.activities) =>
               n.activities # <<>> /\ Head(n.activities) = Head(channel[c].activities),
           UNCHANGED <<m_activeChannels, queue, captured, acquired, overtaken>>, Callers' = Callers,
           Shape(todo'["executor"]),
           \A x \in Program' : x \in Program \/ x.op \in {"stopAll", "clear", "foreground"},
           \A x \in Program : x \in Program' \/ x.op \in {"release", "stop", "stopAll"},
           c \in m_activeChannels =>
               \/ n.activities # <<>>
               \/ \E x \in Program' : (x.op = "setPrimary" /\ channelOf[x.a] = c) \/ (x.op = "clear" /\ x.c = c),
           WillFront => WillFront',
           \/ \A a \in Activities : Primary(a)' <=> Primary(a)
           \/ WillFront' /\ \A x \in Program : x.op # "tell"
    PROVE  Structure' /\ Knowledge'
<1>1. /\ Ordered(n) /\ n.focusState = channel[c].focusState /\ Distinct(n.activities)
      /\ Range(n.activities) \subseteq Range(channel[c].activities)
      /\ \A a \in Range(n.activities) : channelOf[a] = c
  BY DEF Keeps, Structure, Orderly
<1>2. /\ Orderly' /\ channel'[c] = n /\ \A d \in Channels : d # c => channel'[d] = channel[d]
      /\ \A a \in Activities :
           /\ channelOf[a] # c => (Present(a)' <=> Present(a)) /\ (Primary(a)' <=> Primary(a))
           /\ channelOf[a] = c => /\ Present(a)' <=> a \in Range(n.activities)
                                  /\ Primary(a)' <=> n.activities # <<>> /\ a = Head(n.activities)
  BY <1>1, OneChannel DEF Structure
<1>3. \A a \in Activities :
           /\ Present(a) /\ ~Present(a)' => told'[a] = "NONE"
           /\ ~Present(a) \/ Present(a)' =>
                 told'[a] = told[a] /\ m_mixingBehavior'[a] = m_mixingBehavior[a]
  BY ReleasedTold DEF Structure
<1>4. ASSUME NEW a \in Activities PROVE (Present(a)' => Present(a)) /\ (Present(a)' /\ Primary(a) => Primary(a)')
  <2>1. CASE channelOf[a] # c
    BY <1>2, <2>1
  <2>2. CASE channelOf[a] = c
    BY <1>1, <1>2, <2>2 DEF Present, Primary
  <2> QED BY <2>1, <2>2
<1>5. \A d \in Channels : channel'[d].focusState = channel[d].focusState
  BY <1>1, <1>2
<1>6. Top' = Top /\ (Top # None => Top \in Channels)
  BY TopStays, TopIs DEF TypeOK
<1>7. Structure'
  <2>1. QueueFits' /\ CallerFits'
    BY DEF Structure, QueueFits, CallerFits
  <2>2. ActiveFits'
    <3>1. ASSUME NEW d \in Channels
          PROVE  /\ channel'[d].activities # <<>> => d \in m_activeChannels
                 /\ d \in m_activeChannels =>
                      \/ channel'[d].activities # <<>>
                      \/ \E o \in Program' : (o.op = "setPrimary" /\ channelOf[o.a] = d) \/ (o.op = "clear" /\ o.c = d)
      <4>1. CASE d = c
        <5>1. n.activities # <<>> => channel[c].activities # <<>>
          <6>1. n.activities \in Seq(Activities) /\ channel[c].activities \in Seq(Activities)
            BY <1>2 DEF TypeOK, ChannelType
          <6>2. n.activities # <<>> => Head(n.activities) \in Range(n.activities)
            BY <6>1 DEF Range
          <6>3. channel[c].activities = <<>> => Range(channel[c].activities) = {}
            BY DEF Range
          <6> QED BY <1>1, <6>2, <6>3
        <5> QED BY <1>2, <4>1, <5>1 DEF Structure, ActiveFits
      <4>2. CASE d # c
        <5>1. channel'[d] = channel[d]
          BY <1>2, <4>2
        <5> QED BY <5>1 DEF Structure, ActiveFits
      <4> QED BY <4>1, <4>2
    <3> QED BY <3>1 DEF ActiveFits
  <2>3. ProgramFits'
    <3>1. ASSUME NEW x \in Program' PROVE OpFits(x)'
      <4>1. CASE x \in Program
        <5>1. x \in Ops /\ OpFits(x)
          BY <4>1, RangeParts, TwoThreads DEF Structure, ProgramFits, Program, TypeOK
        <5>2. x.op = "tell" => (Primary(x.a)' <=> Primary(x.a))
          BY <4>1, <5>1, OpFields
        <5> QED BY <5>1, <5>2, FitsStays
      <4>2. CASE x.op \in {"stopAll", "clear", "foreground"}
        BY <4>2 DEF OpFits
      <4> QED BY <4>1, <4>2
    <3> QED BY <3>1 DEF ProgramFits
  <2>4. Arrivals'
    <3>1. ASSUME NEW a \in Activities
          PROVE  /\ (ArrivingNow(a)' => ArrivingNow(a)) /\ (ArrivingLater(a)' <=> ArrivingLater(a))
                 /\ Untouched(a) => Untouched(a)'
      <4>1. (ArrivingNow(a)' => ArrivingNow(a)) /\ (ArrivingLater(a)' <=> ArrivingLater(a))
        BY DEF ArrivingNow, ArrivingLater
      <4>2. Untouched(a) => Untouched(a)'
        BY <1>3, <1>4 DEF Untouched
      <4> QED BY <4>1, <4>2
    <3> QED BY <3>1 DEF Structure, Arrivals
  <2> QED BY <1>2, <2>1, <2>2, <2>3, <2>4 DEF Structure
<1>8. ASSUME ~overtaken'
      PROVE  /\ Gone' /\ ArrivalTold' /\ Silent' /\ Backed' /\ Fronted' /\ FrontFirst'
             /\ BackInformed' /\ FrontInformed'
  <2>1. /\ Gone /\ ArrivalTold /\ Silent /\ Backed /\ Fronted /\ FrontFirst
        /\ BackInformed /\ FrontInformed
    BY <1>8 DEF Knowledge
  <2>2. (Redo => Redo') /\ \A d \in Channels : WillBack(d) => WillBack(d)'
    BY DEF Redo, WillBack, Backs
  <2>3. Gone' /\ Silent' /\ Backed' /\ Fronted'
    <3>1. Gone'
      BY <1>3, <2>1 DEF Gone
    <3>2. Silent'
      BY <1>5, <2>1 DEF Silent
    <3>3. Backed' /\ Fronted'
      BY <1>5, <1>6, <2>1, <2>2 DEF Backed, Fronted
    <3> QED BY <3>1, <3>2, <3>3
  <2>4. ArrivalTold' /\ FrontFirst'
    <3>1. ASSUME NEW x \in Program', x.op = "setPrimary", channelOf[x.a] = Top
          PROVE  Redo' \/ channel'[Top].focusState = "NONE"
      <4>1. x \in Program /\ x \in Ops
        BY <3>1, RangeParts, TwoThreads DEF Program, TypeOK
      <4>2. Top \in Channels
        BY <3>1, <4>1, OpFields, ConstantsAre
      <4> QED BY <1>5, <2>1, <2>2, <3>1, <4>1, <4>2 DEF ArrivalTold
    <3>2. ASSUME NEW x \in Program', x.op \in {"notify", "tell"}, x.f = "FOREGROUND"
          PROVE  channel'[Top].focusState = "FOREGROUND"
      <4>1. x \in Program /\ x \in Ops /\ OpFits(x)
        BY <3>2, RangeParts, TwoThreads DEF Program, TypeOK, Structure, ProgramFits
      <4>2. Top \in Channels
        BY <3>2, <4>1, OpFields, ConstantsAre DEF OpFits, TellFits
      <4> QED BY <1>5, <2>1, <3>2, <4>1, <4>2 DEF FrontFirst
    <3> QED BY <1>6, <3>1, <3>2 DEF ArrivalTold, FrontFirst
  <2>5. BackInformed'
    <3> SUFFICES ASSUME NEW a \in Activities, Present(a)', channel'[channelOf[a]].focusState = "BACKGROUND"
                 PROVE  Informed(a)'
      BY DEF BackInformed
    <3>1. Informed(a)
      BY <1>4, <1>5, <2>1, ConstantsAre DEF BackInformed
    <3> QED BY <1>3, <3>1 DEF Informed
  <2>6. FrontInformed'
    <3> SUFFICES ASSUME Top # None, channel[Top].focusState = "FOREGROUND", ~Redo,
                        NEW a \in Activities, Present(a)', channelOf[a] = Top
                 PROVE  Knows(a)'
      BY <1>5, <1>6, <2>2 DEF FrontInformed
    <3>1. Present(a) /\ Knows(a) /\ told'[a] = told[a] /\ m_mixingBehavior'[a] = m_mixingBehavior[a]
      BY <1>3, <1>4, <2>1 DEF FrontInformed
    <3>2. \A f : Telling(a, f) => Telling(a, f)'
      BY DEF Telling
    <3>3. CASE Primary(a)
      BY <1>4, <3>1, <3>2, <3>3 DEF Knows
    <3>4. CASE ~Primary(a) /\ ~Primary(a)'
      BY <3>1, <3>2, <3>4 DEF Knows
    <3>5. CASE ~Primary(a) /\ Primary(a)'
      <4>1. WillFront' /\ ~Telling(a, "BACKGROUND")
        BY <3>5 DEF Telling
      <4> QED BY <3>1, <3>5, <4>1 DEF Knows
    <3> QED BY <3>3, <3>4, <3>5
  <2> QED BY <2>3, <2>4, <2>5, <2>6
<1> QED BY <1>7, <1>8 DEF Knowledge

\* Channel::releaseActivity by the executor, which looks afterwards whether the channel has
\* other activities and which channel is the highest.
LEMMA ReleaseKnows ==
    ASSUME TypeOK, TypeOK', Structure, Knowledge, NEW op \in {"release", "stop", "stopAll"},
           Next1("executor", op), NEW c \in Channels, NEW i, NEW ops \in Seq(Ops), releaseActivity(c, i, ops),
           UNCHANGED <<m_activeChannels, queue, captured, acquired, overtaken>>,
           \A x \in Range(ops) : x.op \in {"stopAll", "clear", "foreground"},
           \E x \in Range(ops) : x.op \in {"stopAll", "foreground"},
           \E x \in Range(ops) : x.op = "clear" /\ x.c = c,
           Shape(ops \o Tail(todo["executor"]))
    PROVE  Structure' /\ Knowledge'
<1>1. CASE UNCHANGED <<channel, toldVars, todo>>
  <2>1. CallerFits'
    BY <1>1 DEF Structure, CallerFits, Callers
  <2> QED BY <1>1, <2>1, NothingMoves
<1>2. PICK ch \in ChannelType : ch = channel[c]
  BY DEF TypeOK
<1>3. Ordered(ch) /\ Distinct(ch.activities)
  BY <1>2 DEF Structure, Orderly
<1>4. ASSUME NEW n, channel' = [channel EXCEPT ![c] = n], TellReleased(c, n), Keeps(ch, n), Ordered(n),
             Then("executor", ops),
             ch.activities # <<>> /\ Head(ch.activities) \in Range(n.activities) =>
                 n.activities # <<>> /\ Head(n.activities) = Head(ch.activities)
      PROVE  Structure' /\ Knowledge'
  <2>1. PICK o \in Ops : o = Head(todo["executor"]) /\ o.op = op
    BY NextOp, TwoThreads
  <2>2. PICK R : Program = {o} \cup R /\ Program' = Range(ops) \cup R /\ Callers' = Callers /\ Rest(o, R)
    BY <1>4, <2>1, ExecutorMoves DEF Structure, ProgramFits
  <2>3. \A r \in R : r.op = "clear"
    BY <2>1, <2>2 DEF Rest
  <2>4. Shape(todo'["executor"])
    BY <1>4, TwoThreads DEF Then, TypeOK
  <2>5. WillFront' /\ \A x \in Program : x.op # "tell"
    <3>1. WillFront'
      BY <2>2 DEF WillFront
    <3> QED BY <2>1, <2>2, <2>3, <3>1
  <2>6. \A x \in Program' : x \in Program \/ x.op \in {"stopAll", "clear", "foreground"}
    BY <2>2
  <2>7. \A x \in Program : x \in Program' \/ x.op \in {"release", "stop", "stopAll"}
    BY <2>1, <2>2
  <2>8. \E x \in Program' : x.op = "clear" /\ x.c = c
    BY <2>2
  <2> QED BY <1>2, <1>4, <2>2, <2>4, <2>5, <2>6, <2>7, <2>8, LeavingKnows
<1>5. CASE Owner(c, i) = None
  <2>1. Then("executor", ops) /\ UNCHANGED <<channel, toldVars>>
    BY <1>5 DEF releaseActivity
  <2>2. channel' = [channel EXCEPT ![c] = ch]
    BY <1>2, <2>1 DEF TypeOK
  <2>3. TellReleased(c, ch)
    BY <1>2, <2>1 DEF TellReleased, toldVars, TypeOK, ToldTypes
  <2>4. Keeps(ch, ch)
    BY DEF Keeps
  <2> QED BY <1>3, <1>4, <2>1, <2>2, <2>3, <2>4
<1>6. CASE Owner(c, i) # None
  <2>1. PICK n : n = removeActivityHelperLocked(ch, Owner(c, i))
    OBVIOUS
  <2>2. Changes(c, n, InPatience(ch, Owner(c, i)), ops)
    BY <1>2, <1>6, <2>1 DEF releaseActivity
  <2>3. \/ UNCHANGED <<channel, toldVars, todo>>
        \/ channel' = [channel EXCEPT ![c] = n] /\ TellReleased(c, n) /\ Then("executor", ops)
    BY <2>2 DEF Changes
  <2>4. /\ Keeps(ch, n) /\ Ordered(n)
        /\ ch.activities # <<>> /\ Head(ch.activities) \in Range(n.activities) =>
             n.activities # <<>> /\ Head(n.activities) = Head(ch.activities)
    BY <1>3, <2>1, RemovedKeeps
  <2> QED BY <1>1, <1>4, <2>3, <2>4
<1> QED BY <1>5, <1>6

\* What a release or a stop goes on with.
LEMMA ClearThenForeground ==
    ASSUME NEW c \in Channels
    PROVE  LET ops == <<Clear(c), Foreground>>
           IN  /\ ops \in Seq(Ops) /\ Shape(ops)
               /\ \A x \in Range(ops) : x.op \in {"stopAll", "clear", "foreground"}
               /\ \E x \in Range(ops) : x.op \in {"stopAll", "foreground"}
               /\ \E x \in Range(ops) : x.op = "clear" /\ x.c = c
<1> DEFINE l == Clear(c)
           f == Foreground
<1>1. l \in Ops /\ f \in Ops /\ l.op = "clear" /\ l.c = c /\ f.op = "foreground"
  BY OpTypes DEF Clear, Foreground
<1> HIDE DEF l, f
<1> DEFINE ops == <<l, f>>
<1>2. ops \in Seq(Ops) /\ Range(ops) = {l, f}
  BY <1>1, ShortPrograms, RangeParts
<1>3. ops # <<>> /\ ops[Len(ops)] = f /\ \A i \in 1..(Len(ops) - 1) : ops[i] = l
  OBVIOUS
<1>4. Shape(ops)
  <2>1. Clearing(l)
    BY <1>1 DEF Clearing
  <2> HIDE DEF ops
  <2> QED BY <1>1, <1>3, <2>1 DEF Shape
<1> HIDE DEF ops
<1> QED BY <1>1, <1>2, <1>4 DEF ops, l, f

\* releaseChannelHelper and stopForegroundActivityHelper.
LEMMA ReleasesKnow ==
    ASSUME TypeOK, TypeOK', Structure, Knowledge, releaseChannelHelper \/ stopForegroundActivityHelper
    PROVE  Structure' /\ Knowledge'
<1>1. PICK op \in {"release", "stop"} :
          /\ Next1("executor", op)
          /\ op = "release" => releaseChannelHelper
          /\ op = "stop" => stopForegroundActivityHelper
  BY DEF releaseChannelHelper, stopForegroundActivityHelper
<1>2. PICK o \in Ops : o = Head(todo["executor"]) /\ o.op = op /\ o.c \in Channels
  BY <1>1, NextOp, OpFields, TwoThreads
<1>3. UNCHANGED <<m_activeChannels, queue, captured, acquired, overtaken>>
  BY DEF releaseChannelHelper, stopForegroundActivityHelper, ExecutorUnchanged, callVars
<1> DEFINE ops == <<Clear(o.c), Foreground>>
<1>4. /\ ops \in Seq(Ops) /\ Shape(ops)
      /\ \A x \in Range(ops) : x.op \in {"stopAll", "clear", "foreground"}
      /\ \E x \in Range(ops) : x.op \in {"stopAll", "foreground"}
      /\ \E x \in Range(ops) : x.op = "clear" /\ x.c = o.c
  BY <1>2, ClearThenForeground
<1>5. \/ releaseActivity(o.c, o.i, ops)
      \/ Then("executor", <<>>) /\ UNCHANGED <<channel, toldVars>>
  <2>1. CASE op = "release"
    <3>1. releaseActivity(o.c, o.i, IF Owner(o.c, o.i) = None THEN <<>> ELSE ops)
      BY <1>1, <1>2, <2>1 DEF releaseChannelHelper
    <3> HIDE DEF ops
    <3>2. CASE Owner(o.c, o.i) = None
      BY <3>1, <3>2 DEF releaseActivity
    <3>3. CASE Owner(o.c, o.i) # None
      BY <3>1, <3>3
    <3> QED BY <3>2, <3>3
  <2>2. CASE op = "stop"
    BY <1>1, <1>2, <2>2 DEF stopForegroundActivityHelper
  <2> QED BY <2>1, <2>2
<1> HIDE DEF ops
<1>6. CASE releaseActivity(o.c, o.i, ops)
  <2>1. todo["executor"] \in Seq(Ops) /\ todo["executor"] # <<>> /\ Shape(todo["executor"])
    BY <1>1, TwoThreads DEF TypeOK, Next1, Structure, ProgramFits
  <2>2. Shape(ops \o Tail(todo["executor"]))
    BY <1>2, <1>4, <2>1, ShapeStays
  <2> QED BY <1>1, <1>2, <1>3, <1>4, <1>6, <2>2, ReleaseKnows
<1>7. CASE Then("executor", <<>>) /\ UNCHANGED <<channel, toldVars>>
  <2>1. <<>> \in Seq(Ops) /\ Range(<<>>) = {}
    BY ShortPrograms, RangeParts
  <2>2. \A c \in Channels : ~Backs(o, c)
    BY <1>2 DEF Backs
  <2> QED BY <1>1, <1>2, <1>3, <1>7, <2>1, <2>2, ExecutorGoesOn
<1> QED BY <1>5, <1>6, <1>7

\* stopAllActivitiesHelper.
LEMMA StopAllKnows ==
    ASSUME TypeOK, TypeOK', Structure, Knowledge, stopAllActivitiesHelper
    PROVE  Structure' /\ Knowledge'
<1>1. PICK o \in Ops : /\ o = Head(todo["executor"]) /\ o.op = "stopAll" /\ Next1("executor", "stopAll")
                       /\ o.pairs \in SUBSET (Channels \X Interfaces)
  BY NextOp, OpFields, TwoThreads DEF stopAllActivitiesHelper
<1>2. UNCHANGED <<m_activeChannels, queue, captured, acquired, overtaken>>
  BY DEF stopAllActivitiesHelper, ExecutorUnchanged, callVars
<1>3. /\ todo["executor"] \in Seq(Ops) /\ todo["executor"] # <<>> /\ Shape(todo["executor"])
      /\ Tail(todo["executor"]) \in Seq(Ops)
  BY <1>1, TwoThreads DEF TypeOK, Next1, Structure, ProgramFits
<1>4. CASE /\ todo' = [todo EXCEPT !["executor"] = Append(Tail(@), Foreground)]
           /\ UNCHANGED <<channel, toldVars>>
  <2>1. PICK f \in Ops : f = Foreground /\ f.op = "foreground"
    BY OpTypes DEF Foreground
  <2>2. todo'["executor"] = Append(Tail(todo["executor"]), f) /\ todo'["caller"] = todo["caller"]
    BY <1>4, <2>1, TwoThreads DEF TypeOK
  <2>3. PICK R : Program = {o} \cup R /\ Program' = {f} \cup R /\ Callers' = Callers /\ Rest(o, R)
    <3> DEFINE S == Range(Tail(todo["executor"]))
    <3>1. /\ \A p \in Seq(Ops) : p # <<>> => Range(p) = {Head(p)} \cup Range(Tail(p))
          /\ \A p, q \in Seq(Ops) : Range(p \o q) = Range(p) \cup Range(q)
          /\ Range(<<f>>) = {f}
      BY RangeParts
    <3>2. <<f>> \in Seq(Ops) /\ Append(Tail(todo["executor"]), f) = Tail(todo["executor"]) \o <<f>>
      BY <1>3, AppendIsConcat, ShortPrograms
    <3>3. Program' = S \cup {f}
      <4>1. Range(Tail(todo["executor"]) \o <<f>>) = S \cup {f}
        <5>1. PICK p \in Seq(Ops), q \in Seq(Ops) : p = Tail(todo["executor"]) /\ q = <<f>>
          BY <1>3, <3>2
        <5>2. Range(p \o q) = Range(p) \cup Range(q)
          BY <3>1
        <5> QED BY <3>1, <5>1, <5>2
      <4>2. todo'["executor"] = Tail(todo["executor"]) \o <<f>>
        BY <2>2, <3>2
      <4> QED BY <4>1, <4>2 DEF Program
    <3>4. Program = {o} \cup S
      BY <1>1, <1>3, <3>1 DEF Program
    <3>5. Rest(o, S)
      BY <1>1, <1>3, ShapeRest
    <3>6. Callers' = Callers
      BY <2>2 DEF Callers
    <3> QED BY <3>3, <3>4, <3>5, <3>6
  <2>4. \A r \in R : r.op = "clear"
    BY <1>1, <2>3 DEF Rest
  <2>5. SameChannels /\ CallerFits'
    BY <1>2, <1>4, <2>3 DEF SameChannels, Structure, CallerFits
  <2>6. Structure'
    <3>1. Shape(todo'["executor"])
      <4>1. <<>> \in Seq(Ops)
        BY ShortPrograms
      <4>2. Shape(Append(Tail(todo["executor"]), Foreground))
        BY <1>1, <1>3, <4>1, ShapeStays
      <4> QED BY <2>1, <2>2, <4>2
    <3>2. \A x \in Program' : x \in Program \/ OpFits(x)'
      BY <2>1, <2>3 DEF OpFits
    <3>3. \A x \in Program : x \in Program' \/ x.op \notin {"setPrimary", "clear"}
      BY <1>1, <2>3
    <3>4. \A x \in (Program \cup Callers)' : x.op = "tell" => x \in Program \cup Callers
      BY <2>1, <2>3
    <3>5. \A x \in Program' : x.op \in {"acquire", "setPrimary"} => x \in Program
      BY <2>1, <2>3
    <3> QED BY <1>2, <1>4, <2>5, <3>1, <3>2, <3>3, <3>4, <3>5, ProgramFrame
  <2>7. Knowledge'
    <3>1. WillFront' /\ \A c \in Channels : ~WillBack(c)
      BY <1>1, <2>1, <2>3, <2>4 DEF WillFront, WillBack, Backs
    <3>2. \A a \in Activities : Informed(a) => Informed(a)'
      BY <1>1, <1>4, <2>3 DEF Informed, toldVars
    <3>3. /\ \A x \in Program : x \in Program' \/ x.op \notin {"focus", "notify", "tell"}
          /\ \A x \in Program' : x \in Program \/ x.op \notin {"setPrimary", "notify", "tell"}
      BY <1>1, <2>1, <2>3
    <3> QED BY <1>2, <1>4, <3>1, <3>2, <3>3, KnowledgeFrame
  <2> QED BY <2>6, <2>7
<1>5. ASSUME NEW p \in o.pairs, releaseActivity(p[1], p[2], <<StopAll(o.pairs \ {p}), Clear(p[1])>>)
      PROVE  Structure' /\ Knowledge'
  <2> DEFINE s == StopAll(o.pairs \ {p})
             l == Clear(p[1])
             ops == <<s, l>>
  <2>1. p[1] \in Channels /\ o.pairs \ {p} \in SUBSET (Channels \X Interfaces)
    BY <1>1
  <2>2. s \in Ops /\ l \in Ops
    BY <2>1, OpTypes
  <2>3. s.op = "stopAll" /\ l.op = "clear" /\ l.c = p[1]
    BY DEF StopAll, Clear
  <2>4. releaseActivity(p[1], p[2], ops)
    BY <1>5
  <2> HIDE DEF s, l
  <2>5. ops \in Seq(Ops) /\ Range(ops) = {s, l}
    BY <2>2, ShortPrograms, RangeParts
  <2>6. ops # <<>> /\ Head(ops) = s /\ Tail(ops) = <<l>> /\ Range(<<l>>) = {l}
    BY RangeParts
  <2> HIDE DEF ops
  <2>7. Shape(ops \o Tail(todo["executor"]))
    <3>1. \A x \in Range(Tail(ops)) : x.op = "clear"
      BY <2>3, <2>6
    <3> QED BY <1>1, <1>3, <2>3, <2>5, <2>6, <3>1, ShapeStays
  <2>8. /\ \A x \in Range(ops) : x.op \in {"stopAll", "clear", "foreground"}
        /\ \E x \in Range(ops) : x.op \in {"stopAll", "foreground"}
        /\ \E x \in Range(ops) : x.op = "clear" /\ x.c = p[1]
    BY <2>3, <2>5
  <2> QED BY <1>1, <1>2, <2>1, <2>4, <2>5, <2>7, <2>8, ReleaseKnows
<1> QED BY <1>1, <1>4, <1>5 DEF stopAllActivitiesHelper

\* A patience timer: its callback releases an activity that is not the primary one.
LEMMA TimerKnows ==
    ASSUME TypeOK, TypeOK', Structure, Knowledge, NEW c \in Channels, TimerSteps(c)
    PROVE  Structure' /\ Knowledge'
<1>1. UNCHANGED <<m_activeChannels, queue, todo, captured, acquired, overtaken>>
  BY DEF TimerSteps, TimerExpires, TimerFindsStopping, patienceTimerCallback, TimerClearsStopping,
      TimerEnds, TimerUnchanged, callVars
<1>2. PICK ch \in ChannelType : ch = channel[c]
  BY DEF TypeOK
<1>3. Ordered(ch) /\ Distinct(ch.activities)
  BY <1>2 DEF Structure, Orderly
<1>4. ASSUME NEW n, channel' = [channel EXCEPT ![c] = n], TellReleased(c, n), Keeps(ch, n), Ordered(n),
             \/ n.activities = ch.activities
             \/ ch.activities # <<>> /\ n.activities # <<>> /\ Head(n.activities) = Head(ch.activities)
      PROVE  Structure' /\ Knowledge'
  <2>1. Program' = Program /\ Callers' = Callers /\ Shape(todo'["executor"])
    BY <1>1 DEF Program, Callers, Structure, ProgramFits
  <2>2. WillFront => WillFront'
    BY <2>1 DEF WillFront
  <2>3. ASSUME NEW a \in Activities PROVE Primary(a)' <=> Primary(a)
    <3>1. channel'[c] = n /\ \A d \in Channels : d # c => channel'[d] = channel[d]
      BY <1>4 DEF TypeOK
    <3>2. channelOf[a] \in Channels
      BY ConstantsAre
    <3> QED BY <1>2, <1>4, <3>1, <3>2 DEF Primary
  <2>4. c \in m_activeChannels =>
            \/ n.activities # <<>>
            \/ \E x \in Program' : (x.op = "setPrimary" /\ channelOf[x.a] = c) \/ (x.op = "clear" /\ x.c = c)
    BY <1>2, <1>4, <2>1 DEF Structure, ActiveFits
  <2> QED BY <1>1, <1>2, <1>4, <2>1, <2>2, <2>3, <2>4, LeavingKnows
<1>5. ASSUME NEW n \in TimerChannels(ch), channel' = [channel EXCEPT ![c] = n], UNCHANGED toldVars,
             n.timer = "fired" => ch.timer = "running"
      PROVE  Structure' /\ Knowledge'
  <2>1. /\ n.activities = ch.activities /\ n.focusState = ch.focusState /\ n.initiator = ch.initiator
        /\ n.expiring = ch.expiring /\ n.timer \in {"fired", "off", "ending"}
    BY <1>5 DEF TimerChannels, ChannelType
  <2>2. Keeps(ch, n) /\ Ordered(n)
    BY <1>3, <1>5, <2>1 DEF Keeps, Ordered
  <2>3. TellReleased(c, n)
    BY <1>2, <1>5, <2>1 DEF TellReleased, toldVars, TypeOK, ToldTypes
  <2> QED BY <1>4, <1>5, <2>1, <2>2, <2>3
<1>6. CASE /\ channel' = [channel EXCEPT ![c] = Expired(ch)] /\ ch.timer = "fired"
           /\ TellReleased(c, Expired(ch))
  BY <1>3, <1>4, <1>6, ExpiredKeeps
<1>7. CASE channel' = [channel EXCEPT ![c] = [ch EXCEPT !.timer = "fired"]] /\ ch.timer = "running" /\ UNCHANGED toldVars
  BY <1>5, <1>7 DEF TimerChannels
<1>8. ASSUME NEW n \in {[ch EXCEPT !.timer = "off", !.stopping = FALSE],
                        [ch EXCEPT !.timer = "ending", !.stopping = FALSE], [ch EXCEPT !.timer = "off"]},
             channel' = [channel EXCEPT ![c] = n], UNCHANGED toldVars
      PROVE  Structure' /\ Knowledge'
  <2>1. n \in TimerChannels(ch) /\ n.timer # "fired"
    BY <1>8 DEF TimerChannels, ChannelType
  <2> QED BY <1>5, <1>8, <2>1
<1> QED BY <1>2, <1>6, <1>7, <1>8, TimerChanges

-----------------------------------------------------------------------------
(* Everybody knows *)

\* The first state.
LEMMA InitKnows == Init => Structure /\ Knowledge
<1> SUFFICES ASSUME Init PROVE Structure /\ Knowledge
  OBVIOUS
<1>1. /\ \A c \in Channels : channel[c] = Idle
      /\ m_activeChannels = {} /\ queue = <<>> /\ captured = None /\ todo["executor"] = <<>> /\ todo["caller"] = <<>>
      /\ \A a \in Activities : told[a] = "NONE" /\ m_mixingBehavior[a] = "UNDEFINED"
      /\ acquired = {}
  BY TwoThreads DEF Init
<1>2. Idle.activities = <<>> /\ Idle.focusState = "NONE" /\ Idle.timer = "off" /\ Range(<<>>) = {}
  BY RangeParts DEF Idle
<1>3. Program = {} /\ Callers = {} /\ Range(queue) = {} /\ Top = None /\ \A a \in Activities : ~Present(a)
  <2>1. Program = {} /\ Callers = {} /\ Range(queue) = {}
    BY <1>1, <1>2 DEF Program, Callers
  <2>2. Top = None
    BY <1>1 DEF Top, getHighestPriorityActiveChannelLocked, HighestPriority
  <2>3. \A a \in Activities : ~Present(a)
    BY <1>1, <1>2, ConstantsAre DEF Present
  <2> QED BY <2>1, <2>2, <2>3
<1>4. Orderly
  BY <1>1, <1>2 DEF Orderly, Ordered, Distinct
<1>5. ActiveFits /\ CallerFits /\ QueueFits
  BY <1>1, <1>2, <1>3 DEF ActiveFits, CallerFits, QueueFits
<1>6. ProgramFits
  BY <1>1, <1>3 DEF ProgramFits, Shape
<1>7. Arrivals
  BY <1>1, <1>3 DEF Arrivals, ArrivingNow, ArrivingLater, Untouched
<1>8. Knowledge
  BY <1>1, <1>2, <1>3 DEF Knowledge, Gone, ArrivalTold, Silent, Backed, Fronted, FrontFirst, BackInformed,
      FrontInformed
<1> QED BY <1>4, <1>5, <1>6, <1>7, <1>8 DEF Structure

\* Every step.
LEMMA NextKnows == TypeOK /\ Structure /\ Knowledge /\ [Next]_vars => Structure' /\ Knowledge'
<1> SUFFICES ASSUME TypeOK, Structure, Knowledge, [Next]_vars PROVE Structure' /\ Knowledge'
  OBVIOUS
<1>1. TypeOK'
  BY NextTypes
<1>2. CASE CallerStarts \/ submitToFront
  BY <1>1, <1>2, StartsKnow
<1>3. CASE ModifyReads \/ setBackgroundChannelMixingBehavior("caller") \/ notifyActivities("caller")
  BY <1>1, <1>3, CallerPrograms
<1>4. CASE setFocus("caller") \/ notifyObserver("caller")
  BY <1>1, <1>4, CallerFocus, CallerTells
<1>5. CASE setFocus("executor") \/ notifyActivities("executor") \/ notifyObserver("executor")
  BY <1>1, <1>5, ExecutorFocus, NotifyKnows, ExecutorTells
<1>6. CASE NextTask \/ acquireChannelHelper \/ SetPrimaryStep
  BY <1>1, <1>6, TaskKnows, AcquireKnows, PrimaryKnows
<1>7. CASE releaseChannelHelper \/ stopForegroundActivityHelper \/ stopAllActivitiesHelper \/ ClearChannel
  BY <1>1, <1>7, ReleasesKnow, StopAllKnows, ClearKnows
<1>8. CASE \/ foregroundHighestPriorityActiveChannel \/ FocusBehind
           \/ setBackgroundChannelMixingBehavior("executor")
  BY <1>1, <1>8, ForegroundKnows, BehindKnows, BackgroundKnows
<1>9. CASE \E c \in Channels : TimerSteps(c)
  BY <1>1, <1>9, TimerKnows
<1>10. CASE UNCHANGED vars
  <2>1. UNCHANGED <<channel, m_activeChannels, toldVars, todo, queue, captured, acquired, overtaken>>
    BY <1>10 DEF vars, callVars
  <2>2. CallerFits'
    BY <2>1 DEF Structure, CallerFits, Callers
  <2> QED BY <1>1, <2>1, <2>2, NothingMoves
<1> QED BY <1>2, <1>3, <1>4, <1>5, <1>6, <1>7, <1>8, <1>9, <1>10 DEF Next, CallerSteps, ExecutorSteps, ThreadSteps

\* When nothing is left to do, the highest active channel is the highest with an activity, and
\* everybody was told what is due.
LEMMA KnownWhenSettled ==
    ASSUME TypeOK, Structure, Knowledge
    PROVE  EverybodyKnows
<1> SUFFICES ASSUME Settled, ~overtaken, NEW a \in Activities PROVE told[a] = Due(a) \/ Unlisted(a)
  BY DEF EverybodyKnows
<1>1. Program = {} /\ Callers = {}
  <2>1. todo["executor"] = <<>> /\ todo["caller"] = <<>>
    BY TwoThreads DEF Settled
  <2> QED BY <2>1, RangeParts DEF Program, Callers
<1>2. Gone /\ Backed /\ Fronted /\ BackInformed /\ FrontInformed
  BY DEF Knowledge
<1>3. ~WillFront /\ ~Redo /\ ~Telling(a, "FOREGROUND") /\ ~Telling(a, "BACKGROUND")
      /\ \A c \in Channels : ~WillBack(c)
  BY <1>1 DEF WillFront, Redo, Telling, WillBack
<1>4. Top = HighestPriority({d \in Channels : channel[d].activities # <<>>})
  <2>1. m_activeChannels = {d \in Channels : channel[d].activities # <<>>}
    BY <1>1 DEF TypeOK, Structure, ActiveFits
  <2> QED BY <2>1 DEF Top, getHighestPriorityActiveChannelLocked
<1>5. Highest(a) <=> Primary(a) /\ channelOf[a] = Top
  BY <1>4 DEF Highest, Primary
<1>6. channelOf[a] \in Channels /\ None \notin Channels
  BY ConstantsAre
<1>7. Primary(a) => Present(a)
  <2>1. channel[channelOf[a]].activities \in Seq(Activities)
    BY <1>6 DEF TypeOK, ChannelType
  <2> QED BY <2>1 DEF Primary, Present, Range
<1>8. CASE ~Present(a)
  <2>1. Due(a) = "NONE"
    BY <1>5, <1>7, <1>8 DEF Due, Present
  <2> QED BY <1>2, <1>8, <2>1 DEF Gone
<1>9. CASE Present(a) /\ channelOf[a] = Top
  <2>1. channel[Top].focusState = "FOREGROUND" /\ Knows(a)
    BY <1>2, <1>3, <1>6, <1>9 DEF Fronted, FrontInformed
  <2>2. CASE Primary(a)
    BY <1>3, <1>5, <1>9, <2>1, <2>2 DEF Knows, Due
  <2>3. CASE ~Primary(a)
    BY <1>3, <1>5, <1>9, <2>1, <2>3 DEF Knows, Due, Present
  <2> QED BY <2>2, <2>3
<1>10. CASE Present(a) /\ channelOf[a] # Top
  <2>1. channelOf[a] \in m_activeChannels
    <3>1. channel[channelOf[a]].activities # <<>>
      BY <1>10, RangeParts DEF Present
    <3> QED BY <1>6, <3>1 DEF Structure, ActiveFits
  <2>2. Informed(a)
    BY <1>2, <1>3, <1>6, <1>10, <2>1 DEF Backed, BackInformed
  <2>3. Due(a) = "BACKGROUND"
    BY <1>5, <1>10 DEF Due, Present
  <2> QED BY <1>1, <2>2, <2>3 DEF Informed, Unlisted
<1> QED BY <1>8, <1>9, <1>10

\* Whatever was acquired, released and stopped, in whatever order the executor, a caller that
\* modifies its content type and the patience timers took their steps: when no task is left
\* (FocusManager::acquireChannelHelper, releaseChannelHelper and the stops are all done), the
\* primary activity of the highest channel that has one was told FOREGROUND last, every other
\* activity of a channel BACKGROUND, and those that left NONE.  Left out are runs in which a
\* thread told an observer something that was out of date by then, and arrivals behind another
\* channel whose interaction the interrupt model does not list.
THEOREM FocusSafety == Spec => []EverybodyKnows
<1>1. Init => TypeOK /\ Structure /\ Knowledge
  BY InitTypes, InitKnows
<1>2. TypeOK /\ Structure /\ Knowledge /\ [Next]_vars => (TypeOK /\ Structure /\ Knowledge)'
  BY NextTypes, NextKnows
<1>3. TypeOK /\ Structure /\ Knowledge => EverybodyKnows
  BY KnownWhenSettled
<1> QED BY <1>1, <1>2, <1>3, PTL DEF Spec
=============================================================================
