------------------------------ MODULE FocusManager ------------------------------
(***************************************************************************)
(* Who may be heard (afml/FocusManager.cpp, afml/Channel.cpp): activities  *)
(* acquire channels, the channel of the highest priority is in the         *)
(* foreground, and an activity that arrives with patience on a taken       *)
(* channel leaves the one before it in the background until a timer ends.  *)
(*                                                                         *)
(* Threads: the executor, which runs the submitted tasks; callers, whose   *)
(* stops read the state before they submit and whose modifyContentType     *)
(* runs on their own thread; the patience timer of each channel, with the  *)
(* steps of timing/Timer.h.  A thread's program is a sequence of small     *)
(* operations, each what it does under one lock or one call of an          *)
(* observer; an operation may put others in front of the rest.             *)
(*                                                                         *)
(* Channels are their priorities, 1 the highest.  An activity is acquired  *)
(* once, on one channel; its observer is that of its interface.  The       *)
(* activity tracker, the observers of channels, timeAtIdle and             *)
(* configuration are left out.                                             *)
(***************************************************************************)
EXTENDS Naturals, Sequences, FiniteSets, SequencesExt

CONSTANTS
    Channels,       \* the priorities
    Activities, channelOf, interfaceOf,
    Patient,        \* the activities with a patience duration
    contentOf,      \* activity -> its first ContentType
    InterruptModel, \* <<content behind, content in front>> -> MixingBehavior
    MaxAcquires,    \* bound: acquisitions
    MaxCalls,       \* bound: releases, stops and modifications
    MaxQueue,       \* bound: tasks that wait when another is submitted
    None

Focuses == {"NONE", "BACKGROUND", "FOREGROUND"}
Mixings == {"UNDEFINED", "PRIMARY", "MAY_DUCK", "MUST_PAUSE", "MUST_STOP"}
ContentTypes == {"MIXABLE", "NONMIXABLE"}
Threads == {"executor", "caller"}

ASSUME FocusAssumption ==
    /\ Channels \subseteq Nat /\ None \notin Channels \cup Activities
    /\ channelOf \in [Activities -> Channels] /\ Patient \subseteq Activities
    /\ contentOf \in [Activities -> ContentTypes]
    /\ InterruptModel \in [ContentTypes \X ContentTypes -> Mixings] /\ {MaxAcquires, MaxCalls, MaxQueue} \subseteq Nat

VARIABLES
    channel,    \* channel -> its activities (primary first), focusState, patience and timer
    m_activeChannels,
    queue,      \* the executor's tasks
    todo,       \* thread -> the operations it still has to do
    captured,   \* what a stop has read and not yet submitted
    told,       \* activity -> the focus its observer was told last
    m_mixingBehavior, m_contentType,
    acquired, calls,
    stuck,      \* the channel whose m_mutex the executor holds for ever
    overtaken,  \* history: the caller or the executor told something out of date
    cutShort    \* history: a patience timer was started with m_stopping left set

toldVars == <<told, m_mixingBehavior>>
callVars == <<captured, acquired, calls>>
vars == <<channel, m_activeChannels, queue, todo, callVars, toldVars, m_contentType,
          stuck, overtaken, cutShort>>

Idle == [activities |-> <<>>, focusState |-> "NONE", initiator |-> None, receiver |-> None,
         timer |-> "off", stopping |-> FALSE, expiring |-> None]

Init ==
    /\ channel = [c \in Channels |-> Idle]
    /\ m_activeChannels = {} /\ queue = <<>> /\ captured = None
    /\ todo = [t \in Threads |-> <<>>]
    /\ told = [a \in Activities |-> "NONE"]
    /\ m_mixingBehavior = [a \in Activities |-> "UNDEFINED"]
    /\ m_contentType = contentOf
    /\ acquired = {} /\ calls = 0
    /\ stuck = None /\ overtaken = FALSE /\ cutShort = FALSE

HighestPriority(S) == IF S = {} THEN None ELSE CHOOSE c \in S : \A d \in S : c <= d

getHighestPriorityActiveChannelLocked == HighestPriority(m_activeChannels)

Interface(c) ==
    IF channel[c].activities = <<>> THEN None ELSE interfaceOf[Head(channel[c].activities)]

---------------------------------------------------------------------------
(* The small operations and what they wait for                             *)

Acquire(a) == [op |-> "acquire", a |-> a]
SetPrimary(a) == [op |-> "setPrimary", a |-> a]
Release(c, i) == [op |-> "release", c |-> c, i |-> i]
Stop(c, i) == [op |-> "stop", c |-> c, i |-> i]
StopAll(pairs) == [op |-> "stopAll", pairs |-> pairs]
Clear(c) == [op |-> "clear", c |-> c]
Foreground == [op |-> "foreground"]
Background(c, at) == [op |-> "background", c |-> c, at |-> at]
Behind(c, d) == [op |-> "behind", c |-> c, d |-> d]
Focus(c, f, b, force) == [op |-> "focus", c |-> c, f |-> f, b |-> b, force |-> force]
Notify(c, f, b) == [op |-> "notify", c |-> c, f |-> f, b |-> b]
Tell(a, f, b) == [op |-> "tell", a |-> a, f |-> f, b |-> b]

\* t does its next operation, whose name is op, and then what it puts first.
Next1(t, op) == todo[t] # <<>> /\ Head(todo[t]).op = op /\ (t = "executor" => stuck = None)
Then(t, ops) == todo' = [todo EXCEPT ![t] = ops \o Tail(@)]

\* stopAllActivitiesHelper releases with FocusManager::m_mutex held.
ManagerFree == stuck # None => Head(todo["executor"]).op # "stopAll"
ChannelFree(c) == stuck # c

---------------------------------------------------------------------------
(* Channel                                                                 *)

\* Timer::stop on another thread.  A timer between its last two assignments clears m_running
\* but no longer m_stopping.
Stopped(ch) == [ch EXCEPT !.timer = "off", !.stopping = ch.timer = "ending"]

InPatience(ch, a) == ch.timer # "off" /\ a \in {ch.initiator, ch.receiver}

\* The first a of s is erased.
Without(s, a) ==
    IF a \in Range(s)
    THEN RemoveAt(s, CHOOSE i \in DOMAIN s : s[i] = a /\ \A j \in 1..(i - 1) : s[j] # a)
    ELSE s

\* (Mutant: the two of the patience are not forgotten.)
removeActivityKeepingPatience(ch, a) ==
    [IF InPatience(ch, a) THEN Stopped(ch) ELSE ch EXCEPT !.activities = Without(@, a)]

removeActivityHelperLocked(ch, a) ==
    LET s == IF InPatience(ch, a) THEN [Stopped(ch) EXCEPT !.initiator = None, !.receiver = None]
             ELSE ch
    IN  [s EXCEPT !.activities = Without(@, a)]

releaseActivityLocked(ch, a) ==
    IF a \in Range(ch.activities) THEN removeActivityHelperLocked(ch, a) ELSE ch

\* An arrival of the same interface replaces the primary activity.  Otherwise a patience
\* that still runs ends now, and a new one begins or the activities before the arrival go.
processPolicyLocked(ch, a) ==
    LET current == Head(ch.activities)
        ended == IF ch.timer = "off" THEN ch
                 ELSE [releaseActivityLocked(Stopped(ch), ch.receiver) EXCEPT !.receiver = None]
        alone == [releaseActivityLocked(ended, ended.initiator) EXCEPT !.initiator = None]
    IN  CASE interfaceOf[a] = interfaceOf[current] -> releaseActivityLocked(ch, current)
          [] interfaceOf[a] # interfaceOf[current] /\ a \in Patient ->
                [ended EXCEPT !.timer = "running", !.expiring = current,
                              !.initiator = a, !.receiver = current]
          [] OTHER -> releaseActivityLocked(alone, current)

setPrimaryActivity(ch, a) ==
    LET before == IF ch.activities = <<>> THEN ch ELSE processPolicyLocked(ch, a)
    IN  [before EXCEPT !.activities = <<a>> \o @]

\* The arrival of a joins the timer's thread.
ArrivalJoins(ch, a) ==
    /\ ch.activities # <<>> /\ ch.timer # "off"
    /\ interfaceOf[a] = interfaceOf[Head(ch.activities)] => InPatience(ch, Head(ch.activities))

\* The first activity of interface i.
Owner(c, i) ==
    LET own == SelectSeq(channel[c].activities, LAMBDA a : interfaceOf[a] = i)
    IN  IF own = <<>> THEN None ELSE Head(own)

\* removeActivityHelperLocked tells the ones that go, with m_mutex held.
TellReleased(c, ch) ==
    LET gone == Range(channel[c].activities) \ Range(ch.activities)
    IN  /\ told' = [a \in Activities |-> IF a \in gone THEN "NONE" ELSE told[a]]
        /\ m_mixingBehavior' =
               [a \in Activities |-> IF a \in gone THEN "MUST_STOP" ELSE m_mixingBehavior[a]]

\* The executor changes channel c to ch and goes on with ops; if that takes joining a timer
\* whose callback waits for the channel's m_mutex, it never comes back.
Changes(c, ch, joins, ops) ==
    IF joins /\ channel[c].timer = "fired"
    THEN stuck' = c /\ UNCHANGED <<channel, toldVars, todo>>
    ELSE /\ channel' = [channel EXCEPT ![c] = ch]
         /\ TellReleased(c, ch) /\ Then("executor", ops) /\ UNCHANGED stuck

releaseActivity(c, i, ops) ==
    LET a == Owner(c, i)
    IN  IF a = None THEN Then("executor", ops) /\ UNCHANGED <<channel, toldVars, stuck>>
        ELSE Changes(c, removeActivityHelperLocked(channel[c], a), InPatience(channel[c], a), ops)

IsBehind(c) == c \in m_activeChannels /\ c # getHighestPriorityActiveChannelLocked

\* Channel::setFocus up to its unlock.
setFocus(t) ==
    /\ Next1(t, "focus")
    /\ LET o == Head(todo[t])
           acts == channel[o.c].activities
           changed == \/ o.force \/ channel[o.c].focusState # o.f
                      \/ acts # <<>> /\ m_mixingBehavior[Head(acts)] # o.b
       IN  /\ ChannelFree(o.c)
           /\ Then(t, IF changed THEN <<Notify(o.c, o.f, o.b)>> ELSE <<>>)
           /\ channel' = IF changed THEN [channel EXCEPT ![o.c].focusState = o.f] ELSE channel
           /\ overtaken' = (\/ overtaken
                            \/ t = "caller" /\ ~IsBehind(o.c))
    /\ UNCHANGED <<m_activeChannels, queue, callVars, toldVars, m_contentType, stuck, cutShort>>

\* (Mutant: only the primary activity is told.)
notifyPrimaryActivity(t) ==
    /\ Next1(t, "notify")
    /\ LET o == Head(todo[t])
           acts == channel[o.c].activities
       IN  /\ ChannelFree(o.c)
           /\ Then(t, IF acts = <<>> THEN <<>> ELSE <<Tell(Head(acts), o.f, o.b)>>)
    /\ UNCHANGED <<channel, m_activeChannels, queue, callVars, toldVars, m_contentType,
                   stuck, overtaken, cutShort>>

\* The activities are copied; their observers are told without the lock.
notifyActivities(t) ==
    /\ Next1(t, "notify")
    /\ LET o == Head(todo[t])
           acts == channel[o.c].activities
       IN  /\ ChannelFree(o.c)
           /\ Then(t, [k \in DOMAIN acts |-> IF k = 1 THEN Tell(acts[k], o.f, o.b)
                                             ELSE Tell(acts[k], "BACKGROUND", "MUST_PAUSE")])
    /\ UNCHANGED <<channel, m_activeChannels, queue, callVars, toldVars, m_contentType,
                   stuck, overtaken, cutShort>>

Overridden(a, b) ==
    IF m_mixingBehavior[a] = "MUST_PAUSE" /\ b = "MAY_DUCK" THEN "MUST_PAUSE" ELSE b

\* What is told is out of date if the activity has left, or is no longer behind another.
notifyObserver(t) ==
    /\ Next1(t, "tell")
    /\ LET o == Head(todo[t])
           c == channelOf[o.a]
       IN  /\ told' = [told EXCEPT ![o.a] = o.f]
           /\ m_mixingBehavior' = [m_mixingBehavior EXCEPT ![o.a] = Overridden(o.a, o.b)]
           /\ overtaken' = (\/ overtaken
                            \/ o.a \notin Range(channel[c].activities)
                            \/ t = "caller" /\ ~IsBehind(c))
    /\ Then(t, <<>>)
    /\ UNCHANGED <<channel, m_activeChannels, queue, callVars, m_contentType, stuck, cutShort>>

---------------------------------------------------------------------------
(* The patience timer of channel c: callTask                               *)

SetTimer(c, pc) == channel' = [channel EXCEPT ![c].timer = pc]
TimerUnchanged ==
    UNCHANGED <<m_activeChannels, queue, todo, callVars, m_contentType, stuck, overtaken, cutShort>>

TimerExpires(c) ==
    /\ channel[c].timer = "running" /\ ~channel[c].stopping
    /\ SetTimer(c, "fired") /\ TimerUnchanged /\ UNCHANGED toldVars

\* m_stopping was left set: the wait ends at once and nothing is called.
TimerFindsStopping(c) ==
    /\ channel[c].timer = "running" /\ channel[c].stopping
    /\ channel' = [channel EXCEPT ![c].timer = "off", ![c].stopping = FALSE]
    /\ TimerUnchanged /\ UNCHANGED toldVars

\* The callback stops its own timer, which joins nobody and sets m_stopping.
patienceTimerCallback(c) ==
    /\ channel[c].timer = "fired" /\ ChannelFree(c)
    /\ LET ch == channel[c]
           here == ch.expiring \in Range(ch.activities)
           own == here /\ InPatience(ch, ch.expiring)
           after == [ch EXCEPT !.timer = "done", !.stopping = @ \/ own,
                               !.activities = Without(@, ch.expiring),
                               !.initiator = IF own THEN None ELSE @,
                               !.receiver = IF own THEN None ELSE @]
       IN  channel' = [channel EXCEPT ![c] = after] /\ TellReleased(c, after)
    /\ TimerUnchanged

TimerClearsStopping(c) ==
    /\ channel[c].timer = "done"
    /\ channel' = [channel EXCEPT ![c].timer = "ending", ![c].stopping = FALSE]
    /\ TimerUnchanged /\ UNCHANGED toldVars

TimerEnds(c) ==
    /\ channel[c].timer = "ending"
    /\ SetTimer(c, "off") /\ TimerUnchanged /\ UNCHANGED toldVars

TimerSteps(c) ==
    \/ TimerExpires(c) \/ TimerFindsStopping(c) \/ patienceTimerCallback(c)
    \/ TimerClearsStopping(c) \/ TimerEnds(c)

---------------------------------------------------------------------------
(* The callers                                                             *)

acquireChannel(a) ==
    /\ a \notin acquired /\ Cardinality(acquired) < MaxAcquires /\ Len(queue) < MaxQueue
    /\ acquired' = acquired \cup {a} /\ queue' = Append(queue, Acquire(a))
    /\ UNCHANGED <<channel, m_activeChannels, todo, captured, calls, toldVars, m_contentType,
                   stuck, overtaken, cutShort>>

releaseChannel(a) ==
    /\ a \in acquired /\ calls < MaxCalls /\ Len(queue) < MaxQueue
    /\ calls' = calls + 1 /\ queue' = Append(queue, Release(channelOf[a], interfaceOf[a]))
    /\ UNCHANGED <<channel, m_activeChannels, todo, captured, acquired, toldVars, m_contentType,
                   stuck, overtaken, cutShort>>

StopReads(task) ==
    /\ captured = None /\ calls < MaxCalls /\ m_activeChannels # {} /\ ManagerFree
    /\ calls' = calls + 1 /\ captured' = task
    /\ UNCHANGED <<channel, m_activeChannels, queue, todo, acquired, toldVars, m_contentType,
                   stuck, overtaken, cutShort>>

stopForegroundActivity ==
    LET c == getHighestPriorityActiveChannelLocked
    IN  m_activeChannels # {} /\ ChannelFree(c) /\ StopReads(Stop(c, Interface(c)))

\* The map takes one interface of each channel, the primary activity's.
stopAllActivities ==
    StopReads(StopAll({<<c, Interface(c)>> : c \in {d \in m_activeChannels : Interface(d) # None}}))

submitToFront ==
    /\ captured # None
    /\ queue' = <<captured>> \o queue /\ captured' = None
    /\ UNCHANGED <<channel, m_activeChannels, todo, acquired, calls, toldVars, m_contentType,
                   stuck, overtaken, cutShort>>

OtherContent(a) == IF m_contentType[a] = "MIXABLE" THEN "NONMIXABLE" ELSE "MIXABLE"

\* With no active channel left the second step dereferences null: the thread ends there.
modifyContentType(a) ==
    /\ todo["caller"] = <<>> /\ calls < MaxCalls
    /\ a \in Range(channel[channelOf[a]].activities) /\ ChannelFree(channelOf[a])
    /\ calls' = calls + 1
    /\ m_contentType' = [m_contentType EXCEPT ![a] = OtherContent(a)]
    /\ todo' = [todo EXCEPT !["caller"] = <<[op |-> "modified"]>>]
    /\ UNCHANGED <<channel, m_activeChannels, queue, captured, acquired, toldVars, stuck,
                   overtaken, cutShort>>

ModifyReads ==
    /\ Next1("caller", "modified") /\ ManagerFree /\ m_activeChannels # {}
    /\ LET c == getHighestPriorityActiveChannelLocked IN Then("caller", <<Background(c, c)>>)
    /\ UNCHANGED <<channel, m_activeChannels, queue, callVars, toldVars, m_contentType, stuck,
                   overtaken, cutShort>>

CallerStarts ==
    \/ \E a \in Activities : acquireChannel(a) \/ releaseChannel(a) \/ modifyContentType(a)
    \/ stopForegroundActivity \/ stopAllActivities

---------------------------------------------------------------------------
(* The executor's tasks                                                    *)

ExecutorUnchanged == UNCHANGED <<callVars, m_contentType, overtaken>>

NextTask ==
    /\ todo["executor"] = <<>> /\ queue # <<>>
    /\ todo' = [todo EXCEPT !["executor"] = <<Head(queue)>>] /\ queue' = Tail(queue)
    /\ UNCHANGED <<channel, m_activeChannels, toldVars, stuck, cutShort>> /\ ExecutorUnchanged

\* What remains to do after the arrival on c, with fg in the foreground before.
Arrived(c, fg) ==
    CASE fg = None -> <<Focus(c, "FOREGROUND", "PRIMARY", FALSE)>>
      [] fg = c -> <<Focus(c, "FOREGROUND", "PRIMARY", TRUE)>>
      [] fg # None /\ c < fg -> <<Background(c, c), Focus(c, "FOREGROUND", "PRIMARY", FALSE)>>
      [] OTHER -> <<Behind(c, fg)>>

acquireChannelHelper ==
    /\ Next1("executor", "acquire")
    /\ LET a == Head(todo["executor"]).a
           c == channelOf[a]
       IN  /\ m_activeChannels' = m_activeChannels \cup {c}
           /\ Then("executor",
                   <<SetPrimary(a)>> \o Arrived(c, getHighestPriorityActiveChannelLocked))
    /\ UNCHANGED <<channel, queue, toldVars, stuck, cutShort>> /\ ExecutorUnchanged

SetPrimaryStep ==
    /\ Next1("executor", "setPrimary")
    /\ LET a == Head(todo["executor"]).a
           c == channelOf[a]
           after == setPrimaryActivity(channel[c], a)
       IN  /\ Changes(c, after, ArrivalJoins(channel[c], a), <<>>)
           /\ cutShort' = (cutShort \/ (after.timer = "running" /\ after.stopping))
    /\ UNCHANGED <<m_activeChannels, queue>> /\ ExecutorUnchanged

\* A release that finds no activity ends the task; a stop whose interface is no longer the
\* primary one does too.
releaseChannelHelper ==
    /\ Next1("executor", "release")
    /\ LET o == Head(todo["executor"])
       IN  releaseActivity(o.c, o.i, IF Owner(o.c, o.i) = None THEN <<>>
                                     ELSE <<Clear(o.c), Foreground>>)
    /\ UNCHANGED <<m_activeChannels, queue, cutShort>> /\ ExecutorUnchanged

stopForegroundActivityHelper ==
    /\ Next1("executor", "stop")
    /\ LET o == Head(todo["executor"])
       IN  IF Interface(o.c) # o.i
           THEN Then("executor", <<>>) /\ UNCHANGED <<channel, toldVars, stuck>>
           ELSE releaseActivity(o.c, o.i, <<Clear(o.c), Foreground>>)
    /\ UNCHANGED <<m_activeChannels, queue, cutShort>> /\ ExecutorUnchanged

\* All pairs are released before the channels are cleared.
stopAllActivitiesHelper ==
    /\ Next1("executor", "stopAll")
    /\ LET pairs == Head(todo["executor"]).pairs
       IN  \/ /\ pairs = {}
              /\ todo' = [todo EXCEPT !["executor"] = Append(Tail(@), Foreground)]
              /\ UNCHANGED <<channel, toldVars, stuck>>
           \/ \E p \in pairs : releaseActivity(p[1], p[2], <<StopAll(pairs \ {p}), Clear(p[1])>>)
    /\ UNCHANGED <<m_activeChannels, queue, cutShort>> /\ ExecutorUnchanged

ClearChannel ==
    /\ Next1("executor", "clear")
    /\ LET c == Head(todo["executor"]).c
           active == channel[c].activities # <<>>
       IN  /\ m_activeChannels' = IF active THEN m_activeChannels ELSE m_activeChannels \ {c}
           /\ Then("executor", IF active THEN <<>> ELSE <<Focus(c, "NONE", "MUST_STOP", FALSE)>>)
    /\ UNCHANGED <<channel, queue, toldVars, stuck, cutShort>> /\ ExecutorUnchanged

foregroundHighestPriorityActiveChannel ==
    /\ Next1("executor", "foreground")
    /\ LET c == getHighestPriorityActiveChannelLocked
       IN  Then("executor", IF c = None THEN <<>>
                            ELSE <<Background(c, c), Focus(c, "FOREGROUND", "PRIMARY", FALSE)>>)
    /\ UNCHANGED <<channel, m_activeChannels, queue, toldVars, stuck, cutShort>>
    /\ ExecutorUnchanged

getMixingBehavior(low, high) ==
    LET l == channel[low].activities
        h == channel[high].activities
    IN  IF low < high \/ l = <<>> \/ h = <<>> THEN "UNDEFINED"
        ELSE InterruptModel[m_contentType[Head(l)], m_contentType[Head(h)]]

FocusBehind ==
    /\ Next1("executor", "behind")
    /\ LET o == Head(todo["executor"])
       IN  Then("executor", <<Focus(o.c, "BACKGROUND", getMixingBehavior(o.c, o.d), FALSE)>>)
    /\ UNCHANGED <<channel, m_activeChannels, queue, toldVars, stuck, cutShort>>
    /\ ExecutorUnchanged

\* (Mutant: the iterator does not move.)
FollowingItself(at) == {HighestPriority({d \in m_activeChannels : d >= at})}

\* Where the loop over m_activeChannels may go on from at.  If at was erased while the lock
\* was free, the iterator is invalid and the loop ends or goes on anywhere.
Following(at) ==
    IF at \in m_activeChannels THEN {HighestPriority({d \in m_activeChannels : d > at})}
    ELSE m_activeChannels \cup {None}

setBackgroundChannelMixingBehavior(t) ==
    /\ Next1(t, "background") /\ ManagerFree
    /\ LET o == Head(todo[t])
       IN  \/ /\ o.c = o.at /\ o.c \notin m_activeChannels
              /\ Then(t, <<>>)
           \/ /\ o.c = o.at => o.c \in m_activeChannels
              /\ \E d \in Following(o.at) :
                    /\ d # None => ChannelFree(d) /\ ChannelFree(o.c)
                    /\ Then(t, IF d = None THEN <<>>
                               ELSE <<Focus(d, "BACKGROUND", getMixingBehavior(d, o.c), FALSE),
                                      Background(o.c, d)>>)
    /\ UNCHANGED <<channel, m_activeChannels, queue, toldVars, stuck, cutShort>>
    /\ ExecutorUnchanged

ThreadSteps(t) ==
    \/ setFocus(t) \/ notifyActivities(t) \/ notifyObserver(t)
    \/ setBackgroundChannelMixingBehavior(t)

ExecutorSteps ==
    \/ NextTask \/ acquireChannelHelper \/ SetPrimaryStep \/ releaseChannelHelper
    \/ stopForegroundActivityHelper \/ stopAllActivitiesHelper \/ ClearChannel
    \/ foregroundHighestPriorityActiveChannel \/ FocusBehind \/ ThreadSteps("executor")

CallerSteps == ModifyReads \/ ThreadSteps("caller") \/ submitToFront

Next ==
    \/ CallerStarts \/ CallerSteps \/ ExecutorSteps
    \/ \E c \in Channels : TimerSteps(c)

Spec == Init /\ [][Next]_vars

\* The executor's thread runs when it can; that anybody calls is not promised.
FairSpec == Spec /\ WF_vars(ExecutorSteps)

---------------------------------------------------------------------------
(* Properties                                                              *)

Settled == queue = <<>> /\ \A t \in Threads : todo[t] = <<>>

\* The primary activity of the highest channel that has one.
Highest(a) ==
    LET c == channelOf[a]
    IN  channel[c].activities # <<>> /\ Head(channel[c].activities) = a
        /\ c = HighestPriority({d \in Channels : channel[d].activities # <<>>})

Due(a) ==
    IF Highest(a) THEN "FOREGROUND"
    ELSE IF a \in Range(channel[channelOf[a]].activities) THEN "BACKGROUND" ELSE "NONE"

\* An arrival behind another channel whose interaction the interrupt model does not list
\* is told nothing if its channel was in the background before.
Unlisted(a) == Due(a) = "BACKGROUND" /\ m_mixingBehavior[a] = "UNDEFINED"

\* When nothing is left to do, one activity has the foreground, the primary one of the
\* highest channel with an activity; those behind it and beside it know that they are in the
\* background, and those that have left were told so last,
\* unless a thread told somebody something that was out of date by then.
EverybodyKnows ==
    Settled /\ ~overtaken => \A a \in Activities : told[a] = Due(a) \/ Unlisted(a)

\* As long as an activity waits out another's patience behind it, the timer that will
\* release it runs.
PatienceRuns ==
    ~cutShort => \A c \in Channels :
        channel[c].receiver # None =>
            /\ channel[c].timer \in {"running", "fired"}
            /\ channel[c].expiring = channel[c].receiver
            /\ channel[c].initiator = Head(channel[c].activities)

\* Every task is worked off, unless the executor joins a timer whose callback waits for
\* the lock the executor holds.
TasksFinish ==
    (queue # <<>> \/ todo["executor"] # <<>>)
        ~> ((queue = <<>> /\ todo["executor"] = <<>>) \/ stuck # None)
====
