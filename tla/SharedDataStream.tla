---------------------------- MODULE SharedDataStream ----------------------------
(***************************************************************************)
(* The ring buffer that carries audio and attachments (util/sds): a writer *)
(* with one of three policies and readers that come, read, seek, close and *)
(* go, each a thread of its own.                                           *)
(*                                                                         *)
(* The word at stream position k is k itself, so that a reader gets the    *)
(* right word at position c if the slot c % DataSize holds c.  memcpy goes *)
(* word by word, on both sides.  A step is what happens under              *)
(* backwardSeekMutex or between two reads of the shared cursors; of        *)
(* dataAvailableMutex the holder matters and is told from the readers' pc. *)
(* A seek relative to the reader or to the writer is a seek to some        *)
(* absolute position.  Replacing a reader or a writer that is still used   *)
(* (forceReplacement) is left out.                                         *)
(***************************************************************************)
EXTENDS Integers, FiniteSets

CONSTANTS
    DataSize,   \* BufferLayout::getDataSize
    Readers,    \* the reader ids
    NonblockingReaders, \* those with Reader::Policy::NONBLOCKING
    Policies,   \* the Writer::Policy values tried
    SeekIndexes, CloseIndexes, \* the positions sought and closed at
    MaxIndex,   \* bound: words written
    MaxWords,   \* bound: nWords of a write or a read
    MaxWriters  \* bound: writers created one after the other

ASSUME SdsAssumption ==
    /\ DataSize \in Nat \ {0}
    /\ NonblockingReaders \subseteq Readers
    /\ SeekIndexes \subseteq Nat /\ CloseIndexes \subseteq Nat
    /\ MaxIndex \in Nat /\ MaxWords \in Nat /\ MaxWriters \in Nat
    /\ Policies \subseteq {"NONBLOCKABLE", "ALL_OR_NOTHING", "BLOCKING"}

VARIABLES
    m_policy,               \* of the writers
    writeStartCursor, writeEndCursor, oldestUnconsumedCursor,
    isWriterEnabled, hasWriterBeenClosed,
    data,                   \* slot -> the word in it
    writer,                 \* pc, words copied so far, words to copy, shift of the source
    reader,                 \* id -> the Reader, its cursor and close index
    writers,
    oversized               \* history: more words than the buffer holds were written at once

cursorVars == <<writeStartCursor, writeEndCursor, oldestUnconsumedCursor>>
writerVars == <<m_policy, writeStartCursor, writeEndCursor, isWriterEnabled,
                hasWriterBeenClosed, data, writer, writers, oversized>>
vars == <<writerVars, oldestUnconsumedCursor, reader>>

Slot(i) == i % DataSize
NoWord == -1
Never == MaxIndex + MaxWords + 1    \* numeric_limits<Index>::max()
Smaller(a, b) == IF a < b THEN a ELSE b

\* The reader holds dataAvailableMutex.
Holding == {"checking", "empty", "drowsy"}

Unlocked == \A r \in Readers : r \in NonblockingReaders \/ reader[r].pc \notin Holding

ReaderPc == {"none", "creating", "seeking", "idle", "checking", "empty", "drowsy", "asleep",
             "awake", "copying", "ok", "overrun", "closed"}

NoReader == [pc |-> "none", enabled |-> FALSE, cursor |-> 0,
             closeIndex |-> 0, n |-> 0, i |-> 0, clean |-> TRUE, late |-> FALSE]

Init ==
    /\ m_policy \in Policies
    /\ writeStartCursor = 0 /\ writeEndCursor = 0 /\ oldestUnconsumedCursor = 0
    /\ isWriterEnabled = FALSE /\ hasWriterBeenClosed = FALSE
    /\ data = [s \in 0..(DataSize - 1) |-> NoWord]
    /\ writer = [pc |-> "none", i |-> 0, n |-> 0, shift |-> 0]
    /\ reader = [r \in Readers |-> NoReader]
    /\ writers = 0
    /\ oversized = FALSE

-----------------------------------------------------------------------------
(* BufferLayout *)

EnabledIn(rs) == {r \in Readers : rs[r].enabled}

\* updateOldestUnconsumedCursorLocked, from the value the cursor has: the smallest
\* position of an enabled reader, or the writer's if there is none.
updateOldestUnconsumedCursor(rs, oldest) ==
    LET Limits == IF EnabledIn(rs) = {} THEN {writeStartCursor}
                  ELSE {rs[r].cursor : r \in EnabledIn(rs)}
        least == CHOOSE c \in Limits : \A d \in Limits : c =< d
    IN IF least > oldest THEN least ELSE oldest

\* Reader r becomes x, and a cursor that moved forward may make room.
Consumed(r, x) ==
    /\ reader' = [reader EXCEPT ![r] = x]
    /\ oldestUnconsumedCursor' = updateOldestUnconsumedCursor(reader', oldestUnconsumedCursor)
    /\ UNCHANGED writerVars

\* Only the members of reader r change.
OnlyReader(r, x) ==
    /\ reader' = [reader EXCEPT ![r] = x]
    /\ UNCHANGED <<writerVars, oldestUnconsumedCursor>>

-----------------------------------------------------------------------------
(* Writer *)

\* Where the last write of a new writer ends.
NewEnd == writeStartCursor

createWriter ==
    /\ ~isWriterEnabled /\ writer.pc = "none" /\ writers < MaxWriters
    /\ writers' = writers + 1
    /\ isWriterEnabled' = TRUE
    /\ writeEndCursor' = NewEnd
    /\ writer' = [writer EXCEPT !.pc = "idle"]
    /\ UNCHANGED <<m_policy, writeStartCursor, hasWriterBeenClosed, data, oversized,
                   oldestUnconsumedCursor, reader>>

\* How many of n words the writer may write now: a NONBLOCKABLE writer as many as
\* fit the buffer, ALL_OR_NOTHING all or none, BLOCKING what is free, once there is
\* something free.
Space(n) ==
    CASE m_policy = "NONBLOCKABLE"   -> {Smaller(n, DataSize)}
      [] m_policy = "ALL_OR_NOTHING" ->
            IF writeStartCursor + n - oldestUnconsumedCursor > DataSize THEN {} ELSE {n}
      [] m_policy = "BLOCKING"       ->
            LET free == IF writeStartCursor >= oldestUnconsumedCursor
                        THEN DataSize - (writeStartCursor - oldestUnconsumedCursor)
                        ELSE DataSize
            IN IF free =< 0 THEN {} ELSE {Smaller(n, free)}

\* write, up to the unlock: where it ends is settled.  A write that blocks has not
\* begun; one that is refused (WOULDBLOCK, TIMEDOUT, CLOSED) changes nothing.
WriteBegins(words) ==
    /\ writer.pc = "idle" /\ isWriterEnabled
    /\ \E n \in Space(words) :
        /\ writeStartCursor + n =< MaxIndex
        /\ writeEndCursor' = writeStartCursor + n
        /\ writer' = [pc |-> "copying", i |-> 0, n |-> Smaller(n, DataSize),
                      shift |-> n - Smaller(n, DataSize)]
        /\ oversized' = (oversized \/ n > DataSize)
    /\ UNCHANGED <<m_policy, writeStartCursor, isWriterEnabled, hasWriterBeenClosed, data,
                   writers, oldestUnconsumedCursor, reader>>

\* memcpy: what does not fit is left out at the front, but the rest starts where
\* the write does.
WriteWord ==
    /\ writer.pc = "copying" /\ writer.i < writer.n
    /\ data' = [data EXCEPT ![Slot(writeStartCursor + writer.i)] =
                   writeStartCursor + writer.shift + writer.i]
    /\ writer' = [writer EXCEPT !.i = @ + 1]
    /\ UNCHANGED <<m_policy, cursorVars, isWriterEnabled, hasWriterBeenClosed, writers,
                   oversized, reader>>

Woken == [r \in Readers |-> IF reader[r].pc = "asleep"
                            THEN [reader[r] EXCEPT !.pc = "awake"] ELSE reader[r]]

\* Mutant: the words are published without the lock, whatever the policy.
PublishesUnlocked == TRUE

\* The lock for publishing; a NONBLOCKABLE writer does without it.
MayPublish == m_policy = "NONBLOCKABLE" \/ Unlocked

\* Mutant: the last word is not copied.
CopiedAlmost == writer.i + 1 >= writer.n

Copied == writer.i = writer.n

\* The words are published and the readers that wait are notified.
WritePublishes ==
    /\ writer.pc = "copying" /\ Copied /\ MayPublish
    /\ writeStartCursor' = writeEndCursor
    /\ writer' = [pc |-> "idle", i |-> 0, n |-> 0, shift |-> 0]
    /\ reader' = Woken
    /\ UNCHANGED <<m_policy, writeEndCursor, oldestUnconsumedCursor, isWriterEnabled,
                   hasWriterBeenClosed, data, writers, oversized>>

\* Writer::close, in two steps: the lock is taken for the second.
WriterCloses ==
    /\ writer.pc = "idle"
    /\ isWriterEnabled' = FALSE
    /\ writer' = [writer EXCEPT !.pc = "closing"]
    /\ UNCHANGED <<m_policy, cursorVars, hasWriterBeenClosed, data, writers, oversized, reader>>

WriterClosed ==
    /\ writer.pc = "closing"
    /\ Unlocked
    /\ hasWriterBeenClosed' = TRUE
    /\ writer' = [writer EXCEPT !.pc = "none"]
    /\ reader' = Woken
    /\ UNCHANGED <<m_policy, cursorVars, isWriterEnabled, data, writers, oversized>>

-----------------------------------------------------------------------------
(* Reader: creation, seek, close, destruction *)

\* Reader::Reader, up to enableReaderLocked.
createReader(r) ==
    /\ reader[r].pc = "none"
    /\ OnlyReader(r, [NoReader EXCEPT !.pc = "creating", !.cursor = writeStartCursor,
                          !.closeIndex = Never])

Overrun(c) == writeEndCursor - c > DataSize

\* Enabled; it comes too late when the position it has noted is no longer kept.  It
\* starts with new data, or goes on to seek.
enableReaderLocked(r) ==
    /\ reader[r].pc = "creating"
    /\ \E pc \in {"idle", "seeking"} :
        LET x == [reader[r] EXCEPT !.pc = pc, !.enabled = TRUE,
                     !.late = reader[r].cursor < oldestUnconsumedCursor \/ Overrun(reader[r].cursor)]
        IN IF pc = "idle" THEN Consumed(r, x) ELSE OnlyReader(r, x)

\* Mutant: the oldest position is not taken back.
OldestKeptBySeek(rs) == updateOldestUnconsumedCursor(rs, oldestUnconsumedCursor)

\* After a backward seek the oldest position is worked out afresh.
OldestAfterSeek(rs) == updateOldestUnconsumedCursor(rs, 0)

\* A successful seek to an absolute position.
SeekTo(r, absolute) ==
    LET x == [reader[r] EXCEPT !.pc = "idle", !.cursor = absolute] IN
    /\ absolute =< reader[r].closeIndex
    /\ ~Overrun(absolute)
    /\ IF absolute < reader[r].cursor
       THEN /\ reader' = [reader EXCEPT ![r] = x]
            /\ oldestUnconsumedCursor' = OldestAfterSeek(reader')
            /\ UNCHANGED writerVars
       ELSE Consumed(r, x)

seek(r) == reader[r].pc = "idle" /\ \E absolute \in SeekIndexes : SeekTo(r, absolute)

\* createReaderLocked without startWithNewData: as far back as nothing is written.
SeekToOldest(r) ==
    LET offset == IF writeStartCursor < DataSize THEN writeStartCursor
                  ELSE DataSize - (writeEndCursor - writeStartCursor)
    IN
    /\ reader[r].pc = "seeking"
    /\ offset >= 0
    /\ SeekTo(r, writeStartCursor - offset)

close(r) ==
    /\ reader[r].pc = "idle"
    /\ \E absolute \in CloseIndexes : OnlyReader(r, [reader[r] EXCEPT !.closeIndex = absolute])

\* ~Reader, and a reader whose creation fails after all its retries.
destroyReader(r) ==
    /\ reader[r].pc \in {"idle", "seeking"}
    /\ Consumed(r, NoReader)

-----------------------------------------------------------------------------
(* Reader::read *)

Available(r) == IF writeStartCursor >= reader[r].cursor THEN writeStartCursor - reader[r].cursor ELSE 0

\* Neither at the close index nor overrun already (CLOSED, OVERRUN); a BLOCKING
\* reader takes the lock.
ReadBegins(r) ==
    /\ reader[r].pc = "idle"
    /\ reader[r].cursor < reader[r].closeIndex
    /\ ~Overrun(reader[r].cursor)
    /\ r \notin NonblockingReaders => Unlocked
    /\ \E n \in 1..MaxWords : OnlyReader(r, [reader[r] EXCEPT !.pc = "checking", !.n = n])

\* What is there, up to the close index, will be copied.
Taking(r) ==
    [reader[r] EXCEPT !.pc = "copying", !.i = 0, !.clean = TRUE,
        !.n = Smaller(Smaller(@, Available(r)), reader[r].closeIndex - reader[r].cursor)]

ReadChecks(r) ==
    /\ reader[r].pc = "checking"
    /\ OnlyReader(r, IF Available(r) = 0 THEN [reader[r] EXCEPT !.pc = "empty"] ELSE Taking(r))

Answering(x, pc) == [x EXCEPT !.pc = pc, !.n = 0, !.i = 0]

\* CLOSED; clean says that nothing was left to read.
SaysClosed(r) == Answering([reader[r] EXCEPT !.clean = Available(r) = 0], "closed")

\* The predicate of the wait, at its begin and whenever the reader is woken.
Decided(r) ==
    IF Available(r) > 0 THEN Taking(r)
    ELSE IF hasWriterBeenClosed THEN SaysClosed(r)
    ELSE [reader[r] EXCEPT !.pc = "drowsy"]

\* Nothing was there: CLOSED if no writer is attached any more, WOULDBLOCK, or a wait.
ReadFindsNothing(r) ==
    /\ reader[r].pc = "empty"
    /\ OnlyReader(r, IF writeEndCursor > 0 /\ ~isWriterEnabled THEN SaysClosed(r)
                     ELSE IF r \in NonblockingReaders THEN Answering(reader[r], "idle")
                     ELSE Decided(r))

\* The wait releases the lock; it ends with a notification or a timeout.
ReadSleeps(r) ==
    /\ reader[r].pc = "drowsy"
    /\ OnlyReader(r, [reader[r] EXCEPT !.pc = "asleep"])

ReadTimesOut(r) ==
    /\ reader[r].pc = "asleep"
    /\ OnlyReader(r, Answering(reader[r], "idle"))

ReadWakes(r) ==
    /\ reader[r].pc = "awake" /\ Unlocked
    /\ OnlyReader(r, Decided(r))

\* memcpy: clean as long as each word is the one written at its position.
ReadWord(r) ==
    LET c == reader[r].cursor + reader[r].i IN
    /\ reader[r].pc = "copying" /\ reader[r].i < reader[r].n
    /\ OnlyReader(r, [reader[r] EXCEPT !.i = @ + 1, !.clean = @ /\ data[Slot(c)] = c])

\* The cursor moves on and is compared with the writer's only then: OVERRUN or the words.
ReadEnds(r) ==
    LET c == reader[r].cursor + reader[r].n IN
    /\ reader[r].pc = "copying" /\ reader[r].i = reader[r].n
    /\ Consumed(r, Answering([reader[r] EXCEPT !.cursor = c], IF Overrun(c) THEN "overrun" ELSE "ok"))

ReadReturns(r) ==
    /\ reader[r].pc \in {"ok", "overrun", "closed"}
    /\ OnlyReader(r, [reader[r] EXCEPT !.pc = "idle", !.clean = TRUE])

-----------------------------------------------------------------------------
(* Next *)

WriterSteps ==
    \/ createWriter \/ WriteWord \/ WritePublishes \/ WriterCloses \/ WriterClosed
    \/ \E n \in 1..MaxWords : WriteBegins(n)

ReaderSteps(r) ==
    \/ createReader(r) \/ enableReaderLocked(r) \/ seek(r) \/ SeekToOldest(r) \/ close(r) \/ destroyReader(r)
    \/ ReadBegins(r) \/ ReadChecks(r) \/ ReadFindsNothing(r) \/ ReadSleeps(r) \/ ReadTimesOut(r)
    \/ ReadWakes(r) \/ ReadWord(r) \/ ReadEnds(r) \/ ReadReturns(r)

Next == WriterSteps \/ \E r \in Readers : ReaderSteps(r)

Spec == Init /\ [][Next]_vars

-----------------------------------------------------------------------------
(* Properties *)

\* The cursors and the threads' positions have their types, and a write is never
\* published beyond its end.
TypeOK ==
    /\ m_policy \in {"NONBLOCKABLE", "ALL_OR_NOTHING", "BLOCKING"}
    /\ writeStartCursor \in Nat /\ writeEndCursor \in Nat /\ oldestUnconsumedCursor \in Nat
    /\ writeStartCursor =< writeEndCursor
    /\ isWriterEnabled \in BOOLEAN /\ hasWriterBeenClosed \in BOOLEAN /\ oversized \in BOOLEAN
    /\ data \in [0..(DataSize - 1) -> Int]
    /\ writers \in Nat
    /\ writer \in [pc : {"none", "idle", "copying", "closing"}, i : Nat, n : Nat, shift : Nat]
    /\ reader \in [Readers -> [pc : ReaderPc, enabled : BOOLEAN, cursor : Nat, closeIndex : Nat, n : Nat, i : Nat,
                               clean : BOOLEAN, late : BOOLEAN]]

Keeping == m_policy # "NONBLOCKABLE"

\* A writer that waits for its readers never begins to overwrite a word that an
\* enabled reader has still to read, whatever the readers seek; only a reader that
\* came too late can find its position gone.
UnconsumedKept ==
    Keeping => \A r \in Readers :
        reader[r].enabled /\ ~reader[r].late =>
            /\ oldestUnconsumedCursor =< reader[r].cursor
            /\ writeEndCursor =< reader[r].cursor + DataSize

\* With such a writer a read that succeeds hands out the words that were written at
\* its positions, although both sides copy at the same time.
ReadsIntact ==
    Keeping /\ ~oversized =>
        \A r \in Readers : reader[r].pc = "ok" => reader[r].clean \/ reader[r].late

\* A reader does not sleep while there is something for it to read or after the
\* writer was closed: no notification is lost between its look and its wait.
NoLostWakeup ==
    Keeping => \A r \in Readers :
        reader[r].pc = "asleep" => Available(r) = 0 /\ ~hasWriterBeenClosed

\* A blocking reader that is told CLOSED has been given every word.
ClosedMeansConsumed ==
    Keeping => \A r \in Readers :
        reader[r].pc = "closed" /\ r \notin NonblockingReaders => reader[r].clean
=============================================================================
