------------------------- MODULE SharedDataStreamProofs -------------------------
(***************************************************************************)
(* What holds of the stream for every size of the buffer, every number of  *)
(* readers and every sequence of seeks: the types, and with a writer that  *)
(* waits for its readers, that unread words are kept, that reads are       *)
(* intact, that no reader sleeps through a notification and that CLOSED    *)
(* comes after the last word.                                              *)
(***************************************************************************)
EXTENDS SharedDataStream, TLAPS, WellFoundedInduction

\* The reader has passed the check of its close index and not yet copied.
Reading == {"checking", "empty", "drowsy", "asleep", "awake"}

BeforeClose == \A r \in Readers : reader[r].pc \in Reading => reader[r].cursor < reader[r].closeIndex

TypeInv == TypeOK /\ BeforeClose

ReaderType == [pc : ReaderPc, enabled : BOOLEAN, cursor : Nat, closeIndex : Nat, n : Nat,
               i : Nat, clean : BOOLEAN, late : BOOLEAN]

---------------------------------------------------------------------------
(* The oldest unconsumed position                                          *)

\* A set of positions that is not empty has a least member.
LEMMA LeastExists ==
    ASSUME NEW S \in SUBSET Nat, S # {}
    PROVE  \E c \in S : \A d \in S : c =< d
<1>1. PICK c \in S : \A d \in S : ~(<<d, c>> \in OpToRel(<, Nat))
    BY NatLessThanWellFounded, WFMin
<1>2. \A d \in S : ~(d < c)
    BY <1>1 DEF OpToRel
<1> QED
    BY <1>2

\* The oldest position never falls, and rises at most to the slowest enabled reader.
LEMMA OldestBounds ==
    ASSUME NEW rs \in [Readers -> ReaderType], NEW oldest \in Nat, writeStartCursor \in Nat
    PROVE  LET new == updateOldestUnconsumedCursor(rs, oldest)
           IN  /\ new \in Nat
               /\ new = oldest \/ \A r \in Readers : rs[r].enabled => new =< rs[r].cursor
<1> DEFINE Limits == IF EnabledIn(rs) = {} THEN {writeStartCursor}
                     ELSE {rs[r].cursor : r \in EnabledIn(rs)}
           least == CHOOSE c \in Limits : \A d \in Limits : c =< d
<1>1. Limits \in SUBSET Nat /\ Limits # {}
    BY DEF EnabledIn, ReaderType
<1>2. least \in Limits /\ \A d \in Limits : least =< d
    <2> HIDE DEF Limits
    <2> QED BY <1>1, LeastExists
<1>3. least \in Nat
    BY <1>1, <1>2
<1>4. \A r \in Readers : rs[r].enabled => least =< rs[r].cursor
    <2> SUFFICES ASSUME NEW r \in Readers, rs[r].enabled PROVE rs[r].cursor \in Limits
        BY <1>2
    <2> QED BY DEF EnabledIn
<1>5. updateOldestUnconsumedCursor(rs, oldest) = IF least > oldest THEN least ELSE oldest
    BY DEF updateOldestUnconsumedCursor
<1> HIDE DEF least
<1> QED
    BY <1>3, <1>4, <1>5

---------------------------------------------------------------------------
(* Types                                                                   *)

\* The smaller of two positions is a position, and no further than either.
LEMMA SmallerType ==
    ASSUME NEW a \in Nat, NEW b \in Nat
    PROVE  Smaller(a, b) \in Nat /\ Smaller(a, b) =< a /\ Smaller(a, b) =< b
BY DEF Smaller

\* The reader that x stands for is in order.
Fits(x) == x \in ReaderType /\ (x.pc \in Reading => x.cursor < x.closeIndex)

\* A step that replaces one reader and, as it may, the oldest position.
LEMMA OneReaderKeepsTypes ==
    ASSUME TypeInv, NEW r \in Readers, NEW x, Fits(x),
           reader' = [reader EXCEPT ![r] = x], UNCHANGED writerVars,
           oldestUnconsumedCursor' \in Nat
    PROVE  TypeInv'
<1>1. reader' \in [Readers -> ReaderType]
    BY DEF TypeInv, TypeOK, Fits, ReaderType
<1>2. BeforeClose'
    BY DEF TypeInv, TypeOK, BeforeClose, Fits
<1>3. TypeOK'
    BY <1>1 DEF TypeInv, TypeOK, writerVars, ReaderType
<1> QED
    BY <1>2, <1>3 DEF TypeInv

\* A step that changes one reader alone keeps the types.
LEMMA OnlyReaderKeepsTypes ==
    ASSUME TypeInv, NEW r \in Readers, NEW x, Fits(x), OnlyReader(r, x)
    PROVE  TypeInv'
<1>1. oldestUnconsumedCursor' \in Nat
    BY DEF OnlyReader, TypeInv, TypeOK
<1> QED
    BY <1>1, OneReaderKeepsTypes DEF OnlyReader

\* A step that moves a reader and the oldest unconsumed cursor keeps the types.
LEMMA ConsumedKeepsTypes ==
    ASSUME TypeInv, NEW r \in Readers, NEW x, Fits(x), Consumed(r, x)
    PROVE  TypeInv'
<1>1. reader' \in [Readers -> ReaderType]
    BY DEF Consumed, TypeInv, TypeOK, Fits, ReaderType
<1>2. oldestUnconsumedCursor' \in Nat
    BY <1>1, OldestBounds DEF Consumed, TypeInv, TypeOK
<1> QED
    BY <1>2, OneReaderKeepsTypes DEF Consumed

\* A seek keeps the types, forwards and backwards.
LEMMA SeekKeepsTypes ==
    ASSUME TypeInv, NEW r \in Readers, NEW absolute \in Nat, SeekTo(r, absolute)
    PROVE  TypeInv'
<1> DEFINE x == [reader[r] EXCEPT !.pc = "idle", !.cursor = absolute]
<1>1. Fits(x)
    BY DEF Fits, TypeInv, TypeOK, ReaderType, ReaderPc, Reading
<1>2. CASE absolute < reader[r].cursor
    <2>1. reader' = [reader EXCEPT ![r] = x] /\ UNCHANGED writerVars
          /\ oldestUnconsumedCursor' = updateOldestUnconsumedCursor(reader', 0)
        BY <1>2 DEF SeekTo, OldestAfterSeek
    <2>2. reader' \in [Readers -> ReaderType]
        BY <1>1, <2>1 DEF TypeInv, TypeOK, Fits, ReaderType
    <2>3. oldestUnconsumedCursor' \in Nat
        BY <2>1, <2>2, OldestBounds DEF TypeInv, TypeOK
    <2> HIDE DEF x
    <2> QED BY <1>1, <2>1, <2>3, OneReaderKeepsTypes
<1>3. CASE ~(absolute < reader[r].cursor)
    <2>1. Consumed(r, x)
        BY <1>3 DEF SeekTo
    <2> HIDE DEF x
    <2> QED BY <1>1, <2>1, ConsumedKeepsTypes
<1> QED
    BY <1>2, <1>3

\* What a reader that has looked takes, and what it answers or waits for.
LEMMA DecisionsFit ==
    ASSUME TypeInv, NEW r \in Readers, reader[r].pc \in Reading
    PROVE  Fits(Taking(r)) /\ Fits(SaysClosed(r)) /\ Fits(Decided(r))
           /\ Fits(Answering(reader[r], "idle"))
<1>1. reader[r] \in ReaderType /\ reader[r].cursor < reader[r].closeIndex
    BY DEF TypeInv, TypeOK, BeforeClose, ReaderType
<1>2. Available(r) \in Nat
    BY <1>1 DEF Available, TypeInv, TypeOK, ReaderType
<1>3. Smaller(Smaller(reader[r].n, Available(r)), reader[r].closeIndex - reader[r].cursor) \in Nat
    <2>1. reader[r].n \in Nat /\ reader[r].closeIndex - reader[r].cursor \in Nat
        BY <1>1 DEF ReaderType
    <2>2. Smaller(reader[r].n, Available(r)) \in Nat
        BY <1>2, <2>1, SmallerType
    <2> QED BY <2>1, <2>2, SmallerType
<1>4. Fits(Taking(r))
    BY <1>1, <1>3 DEF Fits, Taking, ReaderType, ReaderPc, Reading
<1>5. Fits(SaysClosed(r))
    BY <1>1 DEF Fits, SaysClosed, Answering, ReaderType, ReaderPc, Reading
<1>6. Fits([reader[r] EXCEPT !.pc = "drowsy"])
    BY <1>1 DEF Fits, ReaderType, ReaderPc, Reading
<1>7. Fits(Answering(reader[r], "idle"))
    BY <1>1 DEF Fits, Answering, ReaderType, ReaderPc, Reading
<1> QED
    BY <1>4, <1>5, <1>6, <1>7 DEF Decided

\* Copying one word leaves a reader a reader.
LEMMA OneWordOn ==
    ASSUME NEW y \in ReaderType, NEW k \in Nat, NEW b \in BOOLEAN
    PROVE  [y EXCEPT !.i = k, !.clean = b] \in ReaderType
BY DEF ReaderType

\* Every step of Reader keeps the types.
LEMMA ReaderStepsKeepTypes ==
    ASSUME TypeInv, NEW r \in Readers, ReaderSteps(r)
    PROVE  TypeInv'
<1> USE SdsAssumption
<1>0. reader[r] \in ReaderType /\ writeStartCursor \in Nat /\ Never \in Nat
    BY DEF TypeInv, TypeOK, ReaderType, Never
<1>1. CASE createReader(r)
    <2>1. Fits([NoReader EXCEPT !.pc = "creating", !.cursor = writeStartCursor, !.closeIndex = Never])
        BY <1>0 DEF Fits, NoReader, ReaderType, ReaderPc, Reading
    <2> QED BY <1>1, <2>1, OnlyReaderKeepsTypes DEF createReader
<1>2. CASE enableReaderLocked(r)
    <2>1. PICK pc \in {"idle", "seeking"} :
              LET x == [reader[r] EXCEPT !.pc = pc, !.enabled = TRUE,
                           !.late = reader[r].cursor < oldestUnconsumedCursor \/ Overrun(reader[r].cursor)]
              IN IF pc = "idle" THEN Consumed(r, x) ELSE OnlyReader(r, x)
        BY <1>2 DEF enableReaderLocked
    <2> DEFINE x == [reader[r] EXCEPT !.pc = pc, !.enabled = TRUE,
                           !.late = reader[r].cursor < oldestUnconsumedCursor \/ Overrun(reader[r].cursor)]
    <2>2. Fits(x)
        BY <1>0 DEF Fits, ReaderType, ReaderPc, Reading
    <2>3. Consumed(r, x) \/ OnlyReader(r, x)
        BY <2>1
    <2> HIDE DEF x
    <2> QED BY <2>2, <2>3, ConsumedKeepsTypes, OnlyReaderKeepsTypes
<1>3. CASE seek(r)
    BY <1>3, SeekKeepsTypes DEF seek
<1>4. CASE SeekToOldest(r)
    <2> DEFINE offset == IF writeStartCursor < DataSize THEN writeStartCursor
                         ELSE DataSize - (writeEndCursor - writeStartCursor)
    <2>1. offset >= 0 /\ SeekTo(r, writeStartCursor - offset)
        BY <1>4 DEF SeekToOldest
    <2>2. writeStartCursor - offset \in Nat
        BY <2>1 DEF TypeInv, TypeOK
    <2> HIDE DEF offset
    <2> QED BY <2>1, <2>2, SeekKeepsTypes
<1>5. CASE close(r)
    <2>1. PICK absolute \in CloseIndexes : OnlyReader(r, [reader[r] EXCEPT !.closeIndex = absolute])
        BY <1>5 DEF close
    <2>2. Fits([reader[r] EXCEPT !.closeIndex = absolute])
        BY <1>0, <1>5 DEF close, Fits, ReaderType, Reading
    <2> QED BY <2>1, <2>2, OnlyReaderKeepsTypes
<1>6. CASE destroyReader(r)
    <2>1. Fits(NoReader)
        BY DEF Fits, NoReader, ReaderType, ReaderPc, Reading
    <2> QED BY <1>6, <2>1, ConsumedKeepsTypes DEF destroyReader
<1>7. CASE ReadBegins(r)
    <2>1. PICK n \in 1..MaxWords : OnlyReader(r, [reader[r] EXCEPT !.pc = "checking", !.n = n])
        BY <1>7 DEF ReadBegins
    <2>2. n \in Nat /\ reader[r].cursor < reader[r].closeIndex
        BY <1>7 DEF ReadBegins
    <2>3. Fits([reader[r] EXCEPT !.pc = "checking", !.n = n])
        BY <1>0, <2>2 DEF Fits, ReaderType, ReaderPc, Reading
    <2> QED BY <2>1, <2>3, OnlyReaderKeepsTypes
<1>8. CASE ReadChecks(r)
    <2>1. Fits([reader[r] EXCEPT !.pc = "empty"]) /\ reader[r].pc \in Reading
        BY <1>0, <1>8 DEF ReadChecks, Fits, ReaderType, ReaderPc, Reading, TypeInv, BeforeClose
    <2> QED BY <1>8, <2>1, DecisionsFit, OnlyReaderKeepsTypes DEF ReadChecks
<1>9. CASE ReadFindsNothing(r)
    <2>1. reader[r].pc \in Reading
        BY <1>9 DEF ReadFindsNothing, Reading
    <2>2. \/ OnlyReader(r, SaysClosed(r)) \/ OnlyReader(r, Answering(reader[r], "idle"))
          \/ OnlyReader(r, Decided(r))
        BY <1>9 DEF ReadFindsNothing
    <2> QED BY <2>1, <2>2, DecisionsFit, OnlyReaderKeepsTypes
<1>10. CASE ReadSleeps(r)
    <2>1. Fits([reader[r] EXCEPT !.pc = "asleep"])
        BY <1>0, <1>10 DEF ReadSleeps, Fits, ReaderType, ReaderPc, Reading, TypeInv, BeforeClose
    <2> QED BY <1>10, <2>1, OnlyReaderKeepsTypes DEF ReadSleeps
<1>11. CASE ReadTimesOut(r)
    BY <1>11, DecisionsFit, OnlyReaderKeepsTypes DEF ReadTimesOut, Reading
<1>12. CASE ReadWakes(r)
    BY <1>12, DecisionsFit, OnlyReaderKeepsTypes DEF ReadWakes, Reading
<1>13. CASE ReadWord(r)
    <2> DEFINE c == reader[r].cursor + reader[r].i
               same == reader[r].clean /\ data[Slot(c)] = c
               x == [reader[r] EXCEPT !.i = @ + 1, !.clean = same]
    <2>1. reader[r].pc = "copying" /\ OnlyReader(r, x)
        BY <1>13 DEF ReadWord
    <2>2. same \in BOOLEAN
        OBVIOUS
    <2>3. reader[r].i + 1 \in Nat
        BY <1>0 DEF ReaderType
    <2>4. Fits(x)
        <3> HIDE DEF same
        <3>1. x \in ReaderType
            BY <1>0, <2>2, <2>3, OneWordOn
        <3>2. x.pc = "copying"
            BY <1>0, <2>1 DEF ReaderType
        <3> QED BY <3>1, <3>2 DEF Fits, Reading
    <2> HIDE DEF x
    <2> QED BY <2>1, <2>4, OnlyReaderKeepsTypes
<1>14. CASE ReadEnds(r)
    <2> DEFINE c == reader[r].cursor + reader[r].n
               said == IF Overrun(c) THEN "overrun" ELSE "ok"
               x == Answering([reader[r] EXCEPT !.cursor = c], said)
    <2>1. Consumed(r, x)
        BY <1>14 DEF ReadEnds
    <2>2. said \in {"overrun", "ok"} /\ c \in Nat
        BY <1>0 DEF ReaderType
    <2> HIDE DEF said, c
    <2>3. Fits(x)
        BY <1>0, <2>2 DEF Answering, Fits, ReaderType, ReaderPc, Reading
    <2> HIDE DEF x
    <2> QED BY <2>1, <2>3, ConsumedKeepsTypes
<1>15. CASE ReadReturns(r)
    <2>1. Fits([reader[r] EXCEPT !.pc = "idle", !.clean = TRUE])
        BY <1>0 DEF Fits, ReaderType, ReaderPc, Reading
    <2> QED BY <1>15, <2>1, OnlyReaderKeepsTypes DEF ReadReturns
<1> QED
    BY <1>1, <1>2, <1>3, <1>4, <1>5, <1>6, <1>7, <1>8, <1>9, <1>10, <1>11, <1>12, <1>13, <1>14,
       <1>15 DEF ReaderSteps

\* notify_all wakes the readers that are asleep and changes no other.
LEMMA WokenReaders ==
    ASSUME TypeInv
    PROVE  Woken \in [Readers -> ReaderType]
           /\ \A r \in Readers : Woken[r] = [reader[r] EXCEPT !.pc = Woken[r].pc]
                  /\ Woken[r].pc = IF reader[r].pc = "asleep" THEN "awake" ELSE reader[r].pc
<1> SUFFICES ASSUME NEW r \in Readers
             PROVE  LET w == IF reader[r].pc = "asleep" THEN [reader[r] EXCEPT !.pc = "awake"]
                             ELSE reader[r]
                    IN  w \in ReaderType /\ w = [reader[r] EXCEPT !.pc = w.pc]
                        /\ w.pc = IF reader[r].pc = "asleep" THEN "awake" ELSE reader[r].pc
    BY DEF Woken
<1>1. reader[r] \in ReaderType
    BY DEF TypeInv, TypeOK, ReaderType
<1> QED
    BY <1>1 DEF ReaderType, ReaderPc

\* What a write may take: with a writer that waits for its readers, it ends within
\* the buffer's length of the oldest unconsumed word.
LEMMA SpaceBounds ==
    ASSUME TypeInv, NEW words \in Nat, NEW n \in Space(words)
    PROVE  /\ n \in Nat
           /\ Keeping => writeStartCursor + n =< oldestUnconsumedCursor + DataSize
<1> USE SdsAssumption
<1>1. CASE m_policy = "NONBLOCKABLE"
    <2>1. n = Smaller(words, DataSize)
        BY <1>1 DEF Space
    <2> QED BY <1>1, <2>1, SmallerType DEF Keeping
<1>2. CASE m_policy = "ALL_OR_NOTHING"
    <2>1. n = words /\ ~(writeStartCursor + words - oldestUnconsumedCursor > DataSize)
        BY <1>2 DEF Space
    <2> QED BY <2>1 DEF TypeInv, TypeOK
<1>3. CASE m_policy = "BLOCKING"
    <2> DEFINE free == IF writeStartCursor >= oldestUnconsumedCursor
                       THEN DataSize - (writeStartCursor - oldestUnconsumedCursor) ELSE DataSize
    <2>1. ~(free =< 0) /\ n = Smaller(words, free)
        BY <1>3 DEF Space
    <2>2. free \in Nat /\ writeStartCursor + free =< oldestUnconsumedCursor + DataSize
        BY <2>1 DEF TypeInv, TypeOK
    <2> HIDE DEF free
    <2>3. n \in Nat /\ n =< free
        BY <2>1, <2>2, SmallerType
    <2> QED BY <2>2, <2>3 DEF TypeInv, TypeOK
<1> QED
    BY <1>1, <1>2, <1>3 DEF TypeInv, TypeOK

WriterType == [pc : {"none", "idle", "copying", "closing"}, i : Nat, n : Nat, shift : Nat]

\* Waking the readers leaves them in order.
LEMMA WakingKeepsReaders ==
    ASSUME TypeInv, reader' = Woken
    PROVE  reader' \in [Readers -> ReaderType] /\ BeforeClose'
<1>1. reader' \in [Readers -> ReaderType]
    BY WokenReaders
<1>2. ASSUME NEW r \in Readers, reader'[r].pc \in Reading
      PROVE  reader'[r].cursor < reader'[r].closeIndex
    <2>1. reader[r] \in ReaderType /\ Woken[r] = [reader[r] EXCEPT !.pc = Woken[r].pc]
        BY WokenReaders DEF TypeInv, TypeOK, ReaderType
    <2>2. Woken[r].cursor = reader[r].cursor /\ Woken[r].closeIndex = reader[r].closeIndex
        BY <2>1 DEF ReaderType
    <2>3. reader[r].pc \in Reading
        BY <1>2, WokenReaders DEF Reading
    <2> QED BY <2>2, <2>3 DEF TypeInv, BeforeClose
<1> QED
    BY <1>1, <1>2 DEF BeforeClose

\* Every step of Writer keeps the types.
LEMMA WriterStepsKeepTypes ==
    ASSUME TypeInv, WriterSteps
    PROVE  TypeInv'
<1> USE SdsAssumption
<1>0. /\ writer \in WriterType /\ writeStartCursor \in Nat /\ writeEndCursor \in Nat
      /\ writeStartCursor =< writeEndCursor /\ writers \in Nat
      /\ data \in [0..(DataSize - 1) -> Int] /\ reader \in [Readers -> ReaderType]
    BY DEF TypeInv, TypeOK, WriterType, ReaderType
<1>1. CASE createWriter
    <2>1. writer' \in WriterType
        BY <1>0, <1>1 DEF createWriter, WriterType
    <2>2. isWriterEnabled' \in BOOLEAN
        BY <1>1 DEF createWriter
    <2>3. /\ writers' \in Nat /\ writeEndCursor' = writeStartCursor
          /\ UNCHANGED <<m_policy, writeStartCursor, hasWriterBeenClosed, data, oversized,
                         oldestUnconsumedCursor, reader>>
        BY <1>0, <1>1 DEF createWriter, NewEnd
    <2> QED BY <1>0, <2>1, <2>2, <2>3 DEF TypeInv, TypeOK, BeforeClose, WriterType
<1>2. CASE WriteWord
    <2>1. writeStartCursor + writer.shift + writer.i \in Int
        BY <1>0 DEF WriterType
    <2>2. data' \in [0..(DataSize - 1) -> Int]
        BY <1>0, <1>2, <2>1 DEF WriteWord
    <2>3. writer' = [writer EXCEPT !.i = writer.i + 1] /\ writer.i + 1 \in Nat
        BY <1>0, <1>2 DEF WriteWord, WriterType
    <2>4. writer' \in WriterType
        BY <1>0, <2>3 DEF WriterType
    <2> QED BY <1>2, <2>2, <2>4 DEF WriteWord, cursorVars, TypeInv, TypeOK, BeforeClose, WriterType
<1>3. CASE WritePublishes
    <2>1. reader' \in [Readers -> ReaderType] /\ BeforeClose'
        BY <1>3, WakingKeepsReaders DEF WritePublishes
    <2>2. writer' \in WriterType /\ writeStartCursor' = writeEndCursor
        BY <1>3 DEF WritePublishes, WriterType
    <2> QED BY <1>3, <2>1, <2>2 DEF WritePublishes, TypeInv, TypeOK, ReaderType, WriterType
<1>4. CASE WriterCloses
    <2>1. writer' \in WriterType
        BY <1>0, <1>4 DEF WriterCloses, WriterType
    <2> QED BY <1>4, <2>1 DEF WriterCloses, cursorVars, TypeInv, TypeOK, BeforeClose, WriterType
<1>5. CASE WriterClosed
    <2>1. reader' \in [Readers -> ReaderType] /\ BeforeClose'
        BY <1>5, WakingKeepsReaders DEF WriterClosed
    <2>2. writer' \in WriterType
        BY <1>0, <1>5 DEF WriterClosed, WriterType
    <2> QED BY <1>5, <2>1, <2>2 DEF WriterClosed, cursorVars, TypeInv, TypeOK, ReaderType, WriterType
<1>6. CASE \E words \in 1..MaxWords : WriteBegins(words)
    <2>1. PICK words \in 1..MaxWords : WriteBegins(words)
        BY <1>6
    <2>2. PICK n \in Space(words) :
              /\ writeEndCursor' = writeStartCursor + n
              /\ writer' = [pc |-> "copying", i |-> 0, n |-> Smaller(n, DataSize),
                            shift |-> n - Smaller(n, DataSize)]
              /\ oversized' = (oversized \/ n > DataSize)
        BY <2>1 DEF WriteBegins
    <2>3. words \in Nat
        OBVIOUS
    <2>4. n \in Nat
        BY <2>2, <2>3, SpaceBounds
    <2>5. Smaller(n, DataSize) \in Nat /\ Smaller(n, DataSize) =< n
        BY <2>4, SmallerType
    <2>6. n - Smaller(n, DataSize) \in Nat
        BY <2>4, <2>5
    <2>7. oversized' \in BOOLEAN
        BY <2>2
    <2>8. writer' \in WriterType
        BY <2>2, <2>5, <2>6 DEF WriterType
    <2> QED BY <1>0, <2>1, <2>2, <2>4, <2>7, <2>8
            DEF WriteBegins, TypeInv, TypeOK, BeforeClose, WriterType
<1> QED
    BY <1>1, <1>2, <1>3, <1>4, <1>5, <1>6 DEF WriterSteps

\* Every step keeps the types.
LEMMA TypesKept == TypeInv /\ [Next]_vars => TypeInv'
<1>1. ASSUME TypeInv, Next PROVE TypeInv'
    BY <1>1, WriterStepsKeepTypes, ReaderStepsKeepTypes DEF Next
<1>2. ASSUME TypeInv, UNCHANGED vars PROVE TypeInv'
    BY <1>2 DEF vars, writerVars, TypeInv, TypeOK, BeforeClose
<1> QED
    BY <1>1, <1>2

\* The types hold at the start.
LEMMA TypesInitially == Init => TypeInv
<1> SUFFICES ASSUME Init PROVE TypeInv
    OBVIOUS
<1>1. NoReader \in ReaderType /\ NoReader.pc \notin Reading
    BY DEF NoReader, ReaderType, ReaderPc, Reading
<1>2. reader \in [Readers -> ReaderType] /\ BeforeClose
    BY <1>1 DEF Init, BeforeClose
<1>3. writer \in WriterType
    BY DEF Init, WriterType
<1>4. data \in [0..(DataSize - 1) -> Int]
    BY SdsAssumption DEF Init, NoWord
<1>5. isWriterEnabled \in BOOLEAN /\ hasWriterBeenClosed \in BOOLEAN /\ oversized \in BOOLEAN
    BY DEF Init
<1>6. /\ m_policy \in {"NONBLOCKABLE", "ALL_OR_NOTHING", "BLOCKING"}
      /\ writeStartCursor = 0 /\ writeEndCursor = 0 /\ oldestUnconsumedCursor = 0 /\ writers = 0
    BY SdsAssumption DEF Init
<1> QED
    BY <1>2, <1>3, <1>4, <1>5, <1>6 DEF TypeInv, TypeOK, ReaderType, WriterType

\* The cursors of the stream and the positions of its writer and readers keep their types:
\* in particular no read asks for a negative number of words, and a write is published
\* no further than it was announced.
THEOREM TypeCorrect == Spec => []TypeOK
<1>1. TypeInv => TypeOK
    BY DEF TypeInv
<1> QED
    BY <1>1, TypesInitially, TypesKept, PTL DEF Spec

---------------------------------------------------------------------------
(* Unread words are kept                                                   *)

Kept(x) == x.enabled /\ ~x.late =>
               oldestUnconsumedCursor =< x.cursor /\ writeEndCursor =< x.cursor + DataSize

\* The oldest position fell, or is no further than the enabled readers.
OldestAllowed ==
    oldestUnconsumedCursor' =< oldestUnconsumedCursor
    \/ \A r \in Readers : reader'[r].enabled => oldestUnconsumedCursor' =< reader'[r].cursor

\* A reader that moves within what is kept, with an oldest cursor that follows, leaves
\* the unread words of all readers in the buffer.
LEMMA OneReaderKeepsWords ==
    ASSUME TypeInv, TypeInv', UnconsumedKept, NEW r \in Readers, NEW x, x \in ReaderType,
           reader' = [reader EXCEPT ![r] = x], UNCHANGED writerVars,
           OldestAllowed, Keeping => Kept(x)
    PROVE  UnconsumedKept'
<1>1. /\ reader' \in [Readers -> ReaderType] /\ reader \in [Readers -> ReaderType]
      /\ oldestUnconsumedCursor \in Nat /\ oldestUnconsumedCursor' \in Nat
      /\ writeEndCursor' = writeEndCursor /\ writeEndCursor \in Nat /\ (Keeping' <=> Keeping)
    BY DEF TypeInv, TypeOK, writerVars, ReaderType, Keeping
<1> SUFFICES ASSUME Keeping, NEW q \in Readers, reader'[q].enabled, ~reader'[q].late
             PROVE  /\ oldestUnconsumedCursor' =< reader'[q].cursor
                    /\ writeEndCursor =< reader'[q].cursor + DataSize
    BY <1>1 DEF UnconsumedKept
<1>2. reader'[q] = IF q = r THEN x ELSE reader[q]
    BY <1>1
<1>3. Kept(reader'[q])
    BY <1>2 DEF Kept, UnconsumedKept
<1>4. reader'[q].cursor \in Nat
    BY <1>1 DEF ReaderType
<1>5. /\ oldestUnconsumedCursor =< reader'[q].cursor
      /\ writeEndCursor =< reader'[q].cursor + DataSize
    BY <1>3 DEF Kept
<1> QED
    BY <1>1, <1>4, <1>5 DEF OldestAllowed

\* The same for a step that recomputes the oldest unconsumed cursor.
LEMMA ConsumedKeepsWords ==
    ASSUME TypeInv, TypeInv', UnconsumedKept, NEW r \in Readers, NEW x, x \in ReaderType,
           Consumed(r, x), Keeping => Kept(x)
    PROVE  UnconsumedKept'
<1>1. reader' \in [Readers -> ReaderType] /\ oldestUnconsumedCursor \in Nat /\ writeStartCursor \in Nat
    BY DEF TypeInv, TypeOK, ReaderType
<1>2. oldestUnconsumedCursor' = oldestUnconsumedCursor
      \/ \A q \in Readers : reader'[q].enabled => oldestUnconsumedCursor' =< reader'[q].cursor
    BY <1>1, OldestBounds DEF Consumed
<1>3. OldestAllowed
    BY <1>1, <1>2 DEF OldestAllowed
<1> QED
    BY <1>3, OneReaderKeepsWords DEF Consumed

\* The same for a step that leaves the oldest unconsumed cursor alone.
LEMMA OnlyReaderKeepsWords ==
    ASSUME TypeInv, TypeInv', UnconsumedKept, NEW r \in Readers, NEW x, x \in ReaderType,
           OnlyReader(r, x), Keeping => Kept(x)
    PROVE  UnconsumedKept'
<1>1. OldestAllowed
    BY DEF OnlyReader, OldestAllowed, TypeInv, TypeOK
<1> QED
    BY <1>1, OneReaderKeepsWords DEF OnlyReader

\* x is reader r as far as its position is concerned.
Stays(r, x) == /\ x.enabled = reader[r].enabled /\ x.late = reader[r].late
               /\ x.cursor = reader[r].cursor

\* A step that leaves the position of its reader alone.
LEMMA StayingKeepsWords ==
    ASSUME TypeInv, TypeInv', UnconsumedKept, NEW r \in Readers, NEW x, OnlyReader(r, x), Stays(r, x)
    PROVE  UnconsumedKept'
<1>1. Keeping => Kept(x)
    BY DEF UnconsumedKept, Kept, Stays
<1>2. reader'[r] = x /\ reader'[r] \in ReaderType
    BY DEF OnlyReader, TypeInv, TypeOK, ReaderType
<1> QED
    BY <1>1, <1>2, OnlyReaderKeepsWords

\* The same for a seek, which may take the oldest cursor back.
LEMMA SeekKeepsWords ==
    ASSUME TypeInv, TypeInv', UnconsumedKept, NEW r \in Readers, NEW absolute \in Nat,
           SeekTo(r, absolute)
    PROVE  UnconsumedKept'
<1> DEFINE x == [reader[r] EXCEPT !.pc = "idle", !.cursor = absolute]
<1>1. reader[r] \in ReaderType /\ writeEndCursor \in Nat /\ oldestUnconsumedCursor \in Nat
      /\ writeStartCursor \in Nat /\ DataSize \in Nat
    BY SdsAssumption DEF TypeInv, TypeOK, ReaderType
<1>2. /\ x \in ReaderType /\ x.cursor = absolute
      /\ x.enabled = reader[r].enabled /\ x.late = reader[r].late
    BY <1>1 DEF ReaderType, ReaderPc
<1>3. writeEndCursor =< absolute + DataSize
    BY <1>1 DEF SeekTo, Overrun
<1>4. CASE absolute < reader[r].cursor
    <2>1. reader' = [reader EXCEPT ![r] = x] /\ UNCHANGED writerVars
          /\ oldestUnconsumedCursor' = updateOldestUnconsumedCursor(reader', 0)
        BY <1>4 DEF SeekTo, OldestAfterSeek
    <2> HIDE DEF x
    <2>2. reader' \in [Readers -> ReaderType]
        BY DEF TypeInv, TypeOK, ReaderType
    <2>3. oldestUnconsumedCursor' = 0
          \/ \A q \in Readers : reader'[q].enabled => oldestUnconsumedCursor' =< reader'[q].cursor
        BY <1>1, <2>1, <2>2, OldestBounds
    <2> SUFFICES ASSUME Keeping, NEW q \in Readers, reader'[q].enabled, ~reader'[q].late
                 PROVE  /\ oldestUnconsumedCursor' =< reader'[q].cursor
                        /\ writeEndCursor' =< reader'[q].cursor + DataSize
        BY <2>1 DEF UnconsumedKept, Keeping, writerVars
    <2>4. reader'[q].cursor \in Nat
        BY <2>2 DEF ReaderType
    <2>5. writeEndCursor' = writeEndCursor
        BY <2>1 DEF writerVars
    <2>6. CASE q = r
        <3>1. reader'[q] = x
            BY <2>1, <2>6 DEF TypeInv, TypeOK
        <3> QED BY <1>2, <1>3, <2>3, <2>4, <2>5, <3>1
    <2>7. CASE q # r
        <3>1. reader'[q] = reader[q]
            BY <2>1, <2>7 DEF TypeInv, TypeOK
        <3> QED BY <2>3, <2>4, <2>5, <3>1 DEF UnconsumedKept
    <2> QED BY <2>6, <2>7
<1>5. CASE ~(absolute < reader[r].cursor)
    <2>1. Consumed(r, x)
        BY <1>5 DEF SeekTo
    <2> HIDE DEF x
    <2>2. reader[r].cursor =< absolute /\ reader[r].cursor \in Nat
        BY <1>1, <1>5 DEF ReaderType
    <2>3. ASSUME Keeping, x.enabled, ~x.late PROVE oldestUnconsumedCursor =< absolute
        <3>1. oldestUnconsumedCursor =< reader[r].cursor
            BY <1>2, <2>3 DEF UnconsumedKept
        <3> QED BY <1>1, <2>2, <3>1
    <2>4. Keeping => Kept(x)
        BY <1>2, <1>3, <2>3 DEF Kept
    <2> QED BY <1>2, <2>1, <2>4, ConsumedKeepsWords
<1> QED
    BY <1>4, <1>5

\* A reader that decides how its read goes on does not move its cursor.
LEMMA DecisionsStay ==
    ASSUME TypeInv, NEW r \in Readers
    PROVE  Stays(r, Taking(r)) /\ Stays(r, SaysClosed(r)) /\ Stays(r, Decided(r))
           /\ Stays(r, Answering(reader[r], "idle"))
<1>1. reader[r] \in ReaderType
    BY DEF TypeInv, TypeOK, ReaderType
<1>2. Stays(r, Taking(r)) /\ Stays(r, SaysClosed(r)) /\ Stays(r, Answering(reader[r], "idle"))
    BY <1>1 DEF Stays, Taking, SaysClosed, Answering, ReaderType
<1>3. Stays(r, [reader[r] EXCEPT !.pc = "drowsy"])
    BY <1>1 DEF Stays, ReaderType
<1> QED
    BY <1>2, <1>3 DEF Decided

\* Every step of Reader keeps the unread words.
LEMMA ReaderStepsKeepWords ==
    ASSUME TypeInv, TypeInv', UnconsumedKept, NEW r \in Readers, ReaderSteps(r)
    PROVE  UnconsumedKept'
<1> USE SdsAssumption
<1>0. /\ reader[r] \in ReaderType /\ writeStartCursor \in Nat /\ Never \in Nat
      /\ writeEndCursor \in Nat /\ oldestUnconsumedCursor \in Nat /\ DataSize \in Nat
    BY DEF TypeInv, TypeOK, ReaderType, Never
<1>1. CASE createReader(r)
    <2> DEFINE x == [NoReader EXCEPT !.pc = "creating", !.cursor = writeStartCursor, !.closeIndex = Never]
    <2>1. x \in ReaderType /\ ~x.enabled
        BY <1>0 DEF NoReader, ReaderType, ReaderPc
    <2>2. OnlyReader(r, x)
        BY <1>1 DEF createReader
    <2> HIDE DEF x
    <2> QED BY <2>1, <2>2, OnlyReaderKeepsWords DEF Kept
<1>2. CASE enableReaderLocked(r)
    <2> DEFINE tooLate == reader[r].cursor < oldestUnconsumedCursor \/ Overrun(reader[r].cursor)
    <2>1. PICK pc \in {"idle", "seeking"} :
              LET x == [reader[r] EXCEPT !.pc = pc, !.enabled = TRUE, !.late = tooLate]
              IN IF pc = "idle" THEN Consumed(r, x) ELSE OnlyReader(r, x)
        BY <1>2 DEF enableReaderLocked
    <2> DEFINE x == [reader[r] EXCEPT !.pc = pc, !.enabled = TRUE, !.late = tooLate]
    <2>2. Consumed(r, x) \/ OnlyReader(r, x)
        BY <2>1
    <2>3. ~tooLate => oldestUnconsumedCursor =< reader[r].cursor
                      /\ writeEndCursor =< reader[r].cursor + DataSize
        BY <1>0 DEF Overrun, ReaderType
    <2>4. tooLate \in BOOLEAN
        OBVIOUS
    <2> HIDE DEF tooLate
    <2>5. x.late = tooLate /\ x.cursor = reader[r].cursor
        BY <1>0 DEF ReaderType
    <2> HIDE DEF x
    <2>6. reader'[r] = x /\ reader'[r] \in ReaderType
        BY <2>2 DEF Consumed, OnlyReader, TypeInv, TypeOK, ReaderType
    <2>7. Kept(x)
        BY <2>3, <2>5 DEF Kept
    <2> QED BY <2>2, <2>6, <2>7, ConsumedKeepsWords, OnlyReaderKeepsWords
<1>3. CASE seek(r)
    BY <1>3, SeekKeepsWords DEF seek
<1>4. CASE SeekToOldest(r)
    <2> DEFINE offset == IF writeStartCursor < DataSize THEN writeStartCursor
                         ELSE DataSize - (writeEndCursor - writeStartCursor)
    <2>1. offset >= 0 /\ SeekTo(r, writeStartCursor - offset)
        BY <1>4 DEF SeekToOldest
    <2>2. writeStartCursor - offset \in Nat
        BY <2>1 DEF TypeInv, TypeOK
    <2> HIDE DEF offset
    <2> QED BY <2>1, <2>2, SeekKeepsWords
<1>5. CASE close(r)
    <2>1. PICK absolute \in CloseIndexes : OnlyReader(r, [reader[r] EXCEPT !.closeIndex = absolute])
        BY <1>5 DEF close
    <2>2. Stays(r, [reader[r] EXCEPT !.closeIndex = absolute])
        BY <1>0 DEF Stays, ReaderType
    <2> QED BY <2>1, <2>2, StayingKeepsWords
<1>6. CASE destroyReader(r)
    <2>1. NoReader \in ReaderType /\ ~NoReader.enabled
        BY DEF NoReader, ReaderType, ReaderPc
    <2> QED BY <1>6, <2>1, ConsumedKeepsWords DEF destroyReader, Kept
<1>7. CASE ReadBegins(r)
    <2>1. PICK n \in 1..MaxWords : OnlyReader(r, [reader[r] EXCEPT !.pc = "checking", !.n = n])
        BY <1>7 DEF ReadBegins
    <2>2. Stays(r, [reader[r] EXCEPT !.pc = "checking", !.n = n])
        BY <1>0 DEF Stays, ReaderType
    <2> QED BY <2>1, <2>2, StayingKeepsWords
<1>8. CASE ReadChecks(r)
    <2>1. Stays(r, [reader[r] EXCEPT !.pc = "empty"])
        BY <1>0 DEF Stays, ReaderType
    <2> QED BY <1>8, <2>1, DecisionsStay, StayingKeepsWords DEF ReadChecks
<1>9. CASE ReadFindsNothing(r)
    <2>1. \/ OnlyReader(r, SaysClosed(r)) \/ OnlyReader(r, Answering(reader[r], "idle"))
          \/ OnlyReader(r, Decided(r))
        BY <1>9 DEF ReadFindsNothing
    <2> QED BY <2>1, DecisionsStay, StayingKeepsWords
<1>10. CASE ReadSleeps(r)
    <2>1. Stays(r, [reader[r] EXCEPT !.pc = "asleep"])
        BY <1>0 DEF Stays, ReaderType
    <2> QED BY <1>10, <2>1, StayingKeepsWords DEF ReadSleeps
<1>11. CASE ReadTimesOut(r)
    BY <1>11, DecisionsStay, StayingKeepsWords DEF ReadTimesOut
<1>12. CASE ReadWakes(r)
    BY <1>12, DecisionsStay, StayingKeepsWords DEF ReadWakes
<1>13. CASE ReadWord(r)
    <2> DEFINE c == reader[r].cursor + reader[r].i
               x == [reader[r] EXCEPT !.i = @ + 1, !.clean = @ /\ data[Slot(c)] = c]
    <2>1. OnlyReader(r, x)
        BY <1>13 DEF ReadWord
    <2>2. Stays(r, x)
        BY <1>0 DEF Stays, ReaderType
    <2> HIDE DEF x
    <2> QED BY <2>1, <2>2, StayingKeepsWords
<1>14. CASE ReadEnds(r)
    <2> DEFINE c == reader[r].cursor + reader[r].n
               said == IF Overrun(c) THEN "overrun" ELSE "ok"
               x == Answering([reader[r] EXCEPT !.cursor = c], said)
    <2>1. Consumed(r, x)
        BY <1>14 DEF ReadEnds
    <2>2. reader[r].cursor \in Nat /\ reader[r].n \in Nat /\ c \in Nat /\ c >= reader[r].cursor
        BY <1>0 DEF ReaderType
    <2> HIDE DEF said, c
    <2>3. x.enabled = reader[r].enabled /\ x.late = reader[r].late /\ x.cursor = c
        BY <1>0 DEF Answering, ReaderType
    <2> HIDE DEF x
    <2>4. reader'[r] = x /\ reader'[r] \in ReaderType
        BY <2>1 DEF Consumed, TypeInv, TypeOK, ReaderType
    <2>5. ASSUME Keeping, x.enabled, ~x.late
          PROVE  oldestUnconsumedCursor =< c /\ writeEndCursor =< c + DataSize
        <3>1. oldestUnconsumedCursor =< reader[r].cursor /\ writeEndCursor =< reader[r].cursor + DataSize
            BY <2>3, <2>5 DEF UnconsumedKept
        <3> QED BY <1>0, <2>2, <3>1
    <2>6. Keeping => Kept(x)
        BY <2>3, <2>5 DEF Kept
    <2> QED BY <2>1, <2>4, <2>6, ConsumedKeepsWords
<1>15. CASE ReadReturns(r)
    <2>1. Stays(r, [reader[r] EXCEPT !.pc = "idle", !.clean = TRUE])
        BY <1>0 DEF Stays, ReaderType
    <2> QED BY <1>15, <2>1, StayingKeepsWords DEF ReadReturns
<1> QED
    BY <1>1, <1>2, <1>3, <1>4, <1>5, <1>6, <1>7, <1>8, <1>9, <1>10, <1>11, <1>12, <1>13, <1>14,
       <1>15 DEF ReaderSteps

\* Every step of Writer keeps the unread words.
LEMMA WriterStepsKeepWords ==
    ASSUME TypeInv, TypeInv', UnconsumedKept, WriterSteps
    PROVE  UnconsumedKept'
<1> USE SdsAssumption
<1> SUFFICES ASSUME Keeping', NEW r \in Readers, reader'[r].enabled, ~reader'[r].late
             PROVE  /\ oldestUnconsumedCursor' =< reader'[r].cursor
                    /\ writeEndCursor' =< reader'[r].cursor + DataSize
    BY DEF UnconsumedKept
<1>0. /\ writeStartCursor \in Nat /\ writeEndCursor \in Nat /\ writeStartCursor =< writeEndCursor
      /\ oldestUnconsumedCursor \in Nat /\ DataSize \in Nat /\ reader[r] \in ReaderType
    BY DEF TypeInv, TypeOK, ReaderType
<1>1. oldestUnconsumedCursor' = oldestUnconsumedCursor /\ m_policy' = m_policy
    BY DEF WriterSteps, createWriter, WriteWord, WritePublishes, WriterCloses, WriterClosed,
           WriteBegins, cursorVars
<1>2. reader' = reader \/ reader' = Woken
    BY DEF WriterSteps, createWriter, WriteWord, WritePublishes, WriterCloses, WriterClosed, WriteBegins
<1>3. /\ reader'[r].cursor = reader[r].cursor /\ reader'[r].enabled = reader[r].enabled
      /\ reader'[r].late = reader[r].late
    <2>1. Woken[r] = [reader[r] EXCEPT !.pc = Woken[r].pc]
        BY WokenReaders
    <2>2. /\ Woken[r].cursor = reader[r].cursor /\ Woken[r].enabled = reader[r].enabled
          /\ Woken[r].late = reader[r].late
        BY <1>0, <2>1 DEF ReaderType
    <2> QED BY <1>2, <2>2
<1>4. Keeping /\ reader[r].enabled /\ ~reader[r].late
    BY <1>1, <1>3 DEF Keeping
<1>5. /\ oldestUnconsumedCursor =< reader[r].cursor
      /\ writeEndCursor =< reader[r].cursor + DataSize
      /\ reader[r].cursor \in Nat
    BY <1>0, <1>4 DEF UnconsumedKept, ReaderType
<1>6. CASE createWriter
    <2>1. writeEndCursor' = writeStartCursor
        BY <1>6 DEF createWriter, NewEnd
    <2> QED BY <1>0, <1>1, <1>3, <1>5, <2>1
<1>7. CASE \E words \in 1..MaxWords : WriteBegins(words)
    <2>1. PICK words \in 1..MaxWords : \E n \in Space(words) : writeEndCursor' = writeStartCursor + n
        BY <1>7 DEF WriteBegins
    <2>2. words \in Nat
        OBVIOUS
    <2>3. writeEndCursor' =< oldestUnconsumedCursor + DataSize
        BY <1>4, <2>1, <2>2, SpaceBounds
    <2>4. writeEndCursor' \in Nat
        BY DEF TypeInv, TypeOK
    <2> QED BY <1>0, <1>1, <1>3, <1>5, <2>3, <2>4
<1>8. CASE WriteWord \/ WritePublishes \/ WriterCloses \/ WriterClosed
    <2>1. writeEndCursor' = writeEndCursor
        BY <1>8 DEF WriteWord, WritePublishes, WriterCloses, WriterClosed, cursorVars
    <2> QED BY <1>1, <1>3, <1>5, <2>1
<1> QED
    BY <1>6, <1>7, <1>8 DEF WriterSteps

\* A BLOCKING or ALL_OR_NOTHING writer never begins to overwrite a word that an enabled
\* reader has still to read: Writer::write compares where it would end with the oldest
\* unconsumed cursor, and every seek, read, close and new reader keeps that cursor no
\* further than the slowest reader.
THEOREM UnreadWordsAreKept == Spec => []UnconsumedKept
<1>1. Init => UnconsumedKept
    <2> SUFFICES ASSUME Init, NEW r \in Readers PROVE ~reader[r].enabled
        BY DEF UnconsumedKept
    <2> QED BY DEF Init, NoReader
<1>2. TypeInv /\ TypeInv' /\ UnconsumedKept /\ [Next]_vars => UnconsumedKept'
    <2>1. ASSUME TypeInv, TypeInv', UnconsumedKept, Next PROVE UnconsumedKept'
        BY <2>1, WriterStepsKeepWords, ReaderStepsKeepWords DEF Next
    <2>2. ASSUME UnconsumedKept, UNCHANGED vars PROVE UnconsumedKept'
        BY <2>2 DEF vars, writerVars, UnconsumedKept, Keeping
    <2> QED BY <2>1, <2>2
<1> QED
    BY <1>1, <1>2, TypesInitially, TypesKept, PTL DEF Spec

---------------------------------------------------------------------------
(* Sleeping and closing                                                    *)

\* What is there for a reader at position c.
Left(c) == IF writeStartCursor >= c THEN writeStartCursor - c ELSE 0

\* A reader about to sleep has looked since the last write was published; one that holds the
\* lock and found nothing still finds nothing; only blocking readers wait.
Rests(r, x) ==
    /\ x.pc \in {"drowsy", "asleep"} => Left(x.cursor) = 0 /\ ~hasWriterBeenClosed
    /\ x.pc \in {"drowsy", "asleep", "awake"} => r \notin NonblockingReaders
    /\ x.pc = "empty" /\ r \notin NonblockingReaders => Left(x.cursor) = 0
    /\ x.pc = "closed" /\ r \notin NonblockingReaders => x.clean

Restful == Keeping => \A r \in Readers : Rests(r, reader[r])

\* A step of one reader disturbs no other one's rest.
LEMMA OneReaderRests ==
    ASSUME TypeInv, Restful, NEW r \in Readers, NEW x,
           reader' = [reader EXCEPT ![r] = x], UNCHANGED writerVars, Keeping => Rests(r, x)
    PROVE  Restful'
<1> SUFFICES ASSUME Keeping, NEW q \in Readers PROVE Rests(q, reader[q])'
    BY DEF Restful, Keeping, writerVars
<1>1. reader'[q] = IF q = r THEN x ELSE reader[q]
    BY DEF TypeInv, TypeOK
<1>2. Rests(q, reader'[q])
    BY <1>1 DEF Restful
<1>3. writeStartCursor' = writeStartCursor /\ hasWriterBeenClosed' = hasWriterBeenClosed
    BY DEF writerVars
<1> QED
    BY <1>2, <1>3 DEF Rests, Left

\* A reader that is neither asleep nor on its way there has nothing to show.
LEMMA BusyReaderRests ==
    ASSUME TypeInv, Restful, NEW r \in Readers, NEW x,
           OnlyReader(r, x) \/ Consumed(r, x),
           x.pc \notin {"drowsy", "asleep", "awake", "empty", "closed"}
    PROVE  Restful'
<1>1. Rests(r, x)
    BY DEF Rests
<1> QED
    BY <1>1, OneReaderRests DEF OnlyReader, Consumed

\* A blocking reader that decides to sleep has seen neither a word nor the end.
LEMMA DecidedRests ==
    ASSUME TypeInv, NEW r \in Readers, r \notin NonblockingReaders
    PROVE  Rests(r, Decided(r))
<1>1. reader[r] \in ReaderType /\ writeStartCursor \in Nat
    BY DEF TypeInv, TypeOK, ReaderType
<1>2. Available(r) = Left(reader[r].cursor) /\ Available(r) \in Nat
    BY <1>1 DEF Available, Left, ReaderType
<1>3. CASE Available(r) > 0
    <2>1. Decided(r) = Taking(r)
        BY <1>3 DEF Decided
    <2>2. Taking(r).pc = "copying"
        BY <1>1 DEF Taking, ReaderType
    <2> QED BY <2>1, <2>2 DEF Rests
<1>4. CASE ~(Available(r) > 0) /\ hasWriterBeenClosed
    <2>1. Decided(r) = SaysClosed(r) /\ Available(r) = 0
        BY <1>2, <1>4 DEF Decided
    <2>2. SaysClosed(r).pc = "closed" /\ (SaysClosed(r).clean <=> Available(r) = 0)
        BY <1>1 DEF SaysClosed, Answering, ReaderType
    <2> QED BY <2>1, <2>2 DEF Rests
<1>5. CASE ~(Available(r) > 0) /\ ~hasWriterBeenClosed
    <2>1. Decided(r) = [reader[r] EXCEPT !.pc = "drowsy"] /\ Available(r) = 0
        BY <1>2, <1>5 DEF Decided
    <2>2. Decided(r).pc = "drowsy" /\ Decided(r).cursor = reader[r].cursor
        BY <1>1, <2>1 DEF ReaderType
    <2> QED BY <1>2, <1>5, <2>1, <2>2 DEF Rests
<1> QED
    BY <1>3, <1>4, <1>5

\* Every step of Reader keeps the invariant of the sleepers.
LEMMA ReaderStepsRest ==
    ASSUME TypeInv, Restful, NEW r \in Readers, ReaderSteps(r)
    PROVE  Restful'
<1>0. reader[r] \in ReaderType /\ writeStartCursor \in Nat
    BY DEF TypeInv, TypeOK, ReaderType
<1>1. CASE createReader(r)
    <2>1. [NoReader EXCEPT !.pc = "creating", !.cursor = writeStartCursor, !.closeIndex = Never].pc = "creating"
        BY DEF NoReader
    <2> QED BY <1>1, <2>1, BusyReaderRests DEF createReader
<1>2. CASE enableReaderLocked(r)
    <2>1. PICK pc \in {"idle", "seeking"} :
              LET x == [reader[r] EXCEPT !.pc = pc, !.enabled = TRUE,
                           !.late = reader[r].cursor < oldestUnconsumedCursor \/ Overrun(reader[r].cursor)]
              IN IF pc = "idle" THEN Consumed(r, x) ELSE OnlyReader(r, x)
        BY <1>2 DEF enableReaderLocked
    <2> DEFINE x == [reader[r] EXCEPT !.pc = pc, !.enabled = TRUE,
                           !.late = reader[r].cursor < oldestUnconsumedCursor \/ Overrun(reader[r].cursor)]
    <2>2. (Consumed(r, x) \/ OnlyReader(r, x)) /\ x.pc = pc
        BY <1>0, <2>1 DEF ReaderType
    <2> HIDE DEF x
    <2> QED BY <2>2, BusyReaderRests
<1>3. CASE seek(r) \/ SeekToOldest(r)
    <2>1. PICK absolute : SeekTo(r, absolute)
        BY <1>3 DEF seek, SeekToOldest
    <2> DEFINE x == [reader[r] EXCEPT !.pc = "idle", !.cursor = absolute]
    <2>2. reader' = [reader EXCEPT ![r] = x] /\ UNCHANGED writerVars
        BY <2>1 DEF SeekTo, Consumed
    <2>3. x.pc = "idle"
        BY <1>0 DEF ReaderType
    <2> HIDE DEF x
    <2>4. Rests(r, x)
        BY <2>3 DEF Rests
    <2> QED BY <2>2, <2>4, OneReaderRests
<1>4. CASE close(r)
    <2>1. PICK absolute \in CloseIndexes : OnlyReader(r, [reader[r] EXCEPT !.closeIndex = absolute])
        BY <1>4 DEF close
    <2>2. [reader[r] EXCEPT !.closeIndex = absolute].pc = "idle"
        BY <1>0, <1>4 DEF close, ReaderType
    <2> QED BY <2>1, <2>2, BusyReaderRests
<1>5. CASE destroyReader(r)
    BY <1>5, BusyReaderRests DEF destroyReader, NoReader
<1>6. CASE ReadBegins(r)
    <2>1. PICK n \in 1..MaxWords : OnlyReader(r, [reader[r] EXCEPT !.pc = "checking", !.n = n])
        BY <1>6 DEF ReadBegins
    <2>2. [reader[r] EXCEPT !.pc = "checking", !.n = n].pc = "checking"
        BY <1>0 DEF ReaderType
    <2> QED BY <2>1, <2>2, BusyReaderRests
<1>7. CASE ReadChecks(r)
    <2>1. CASE Available(r) = 0
        <3> DEFINE x == [reader[r] EXCEPT !.pc = "empty"]
        <3>1. OnlyReader(r, x)
            BY <1>7, <2>1 DEF ReadChecks
        <3>2. x.pc = "empty" /\ x.cursor = reader[r].cursor
            BY <1>0 DEF ReaderType
        <3> HIDE DEF x
        <3>3. Rests(r, x)
            BY <2>1, <3>2 DEF Rests, Available, Left
        <3> QED BY <3>1, <3>3, OneReaderRests DEF OnlyReader
    <2>2. CASE Available(r) # 0
        <3>1. OnlyReader(r, Taking(r)) /\ Taking(r).pc = "copying"
            BY <1>0, <1>7, <2>2 DEF ReadChecks, Taking, ReaderType
        <3> QED BY <3>1, BusyReaderRests
    <2> QED BY <2>1, <2>2
<1>8. CASE ReadFindsNothing(r)
    <2>1. CASE OnlyReader(r, SaysClosed(r))
        <3>1. SaysClosed(r).pc = "closed" /\ (SaysClosed(r).clean <=> Available(r) = 0)
            BY <1>0 DEF SaysClosed, Answering, ReaderType
        <3>2. Keeping /\ r \notin NonblockingReaders => Available(r) = 0
            BY <1>8 DEF ReadFindsNothing, Restful, Rests, Available, Left
        <3>3. Keeping => Rests(r, SaysClosed(r))
            BY <3>1, <3>2 DEF Rests
        <3> QED BY <2>1, <3>3, OneReaderRests DEF OnlyReader
    <2>2. CASE OnlyReader(r, Answering(reader[r], "idle"))
        <3>1. Answering(reader[r], "idle").pc = "idle"
            BY <1>0 DEF Answering, ReaderType
        <3> QED BY <2>2, <3>1, BusyReaderRests
    <2>3. CASE OnlyReader(r, Decided(r)) /\ r \notin NonblockingReaders
        BY <2>3, DecidedRests, OneReaderRests DEF OnlyReader
    <2> QED BY <1>8, <2>1, <2>2, <2>3 DEF ReadFindsNothing
<1>9. CASE ReadSleeps(r)
    <2> DEFINE x == [reader[r] EXCEPT !.pc = "asleep"]
    <2>1. x.pc = "asleep" /\ x.cursor = reader[r].cursor
        BY <1>0 DEF ReaderType
    <2>2. OnlyReader(r, x) /\ reader[r].pc = "drowsy"
        BY <1>9 DEF ReadSleeps
    <2> HIDE DEF x
    <2>3. Keeping => Rests(r, x)
        BY <2>1, <2>2 DEF Restful, Rests
    <2> QED BY <2>2, <2>3, OneReaderRests DEF OnlyReader
<1>10. CASE ReadTimesOut(r)
    <2>1. Answering(reader[r], "idle").pc = "idle"
        BY <1>0 DEF Answering, ReaderType
    <2> QED BY <1>10, <2>1, BusyReaderRests DEF ReadTimesOut
<1>11. CASE ReadWakes(r)
    <2>1. Keeping => r \notin NonblockingReaders
        BY <1>11 DEF ReadWakes, Restful, Rests
    <2>2. Keeping => Rests(r, Decided(r))
        BY <2>1, DecidedRests
    <2> QED BY <1>11, <2>2, OneReaderRests DEF ReadWakes, OnlyReader
<1>12. CASE ReadWord(r)
    <2> DEFINE c == reader[r].cursor + reader[r].i
               x == [reader[r] EXCEPT !.i = @ + 1, !.clean = @ /\ data[Slot(c)] = c]
    <2>1. OnlyReader(r, x) /\ x.pc = "copying"
        BY <1>0, <1>12 DEF ReadWord, ReaderType
    <2> HIDE DEF x
    <2> QED BY <2>1, BusyReaderRests
<1>13. CASE ReadEnds(r)
    <2> DEFINE c == reader[r].cursor + reader[r].n
               said == IF Overrun(c) THEN "overrun" ELSE "ok"
               x == Answering([reader[r] EXCEPT !.cursor = c], said)
    <2>1. Consumed(r, x) /\ said \in {"overrun", "ok"}
        BY <1>13 DEF ReadEnds
    <2> HIDE DEF said, c
    <2>2. x.pc = said
        BY <1>0 DEF Answering, ReaderType
    <2> HIDE DEF x
    <2> QED BY <2>1, <2>2, BusyReaderRests
<1>14. CASE ReadReturns(r)
    <2>1. [reader[r] EXCEPT !.pc = "idle", !.clean = TRUE].pc = "idle"
        BY <1>0 DEF ReaderType
    <2> QED BY <1>14, <2>1, BusyReaderRests DEF ReadReturns
<1> QED
    BY <1>1, <1>2, <1>3, <1>4, <1>5, <1>6, <1>7, <1>8, <1>9, <1>10, <1>11, <1>12, <1>13, <1>14
    DEF ReaderSteps

\* Whoever changes what a sleeping reader waits for holds the lock and wakes it.
LEMMA WriterStepsRest ==
    ASSUME TypeInv, Restful, WriterSteps
    PROVE  Restful'
<1>1. CASE WritePublishes \/ WriterClosed
    <2> SUFFICES ASSUME Keeping, NEW r \in Readers PROVE Rests(r, reader[r])'
        BY <1>1 DEF WritePublishes, WriterClosed, Restful, Keeping
    <2>1. Unlocked /\ reader' = Woken
        BY <1>1 DEF WritePublishes, WriterClosed, MayPublish, Keeping
    <2>2. reader[r] \in ReaderType /\ Woken[r] = [reader[r] EXCEPT !.pc = Woken[r].pc]
          /\ Woken[r].pc = IF reader[r].pc = "asleep" THEN "awake" ELSE reader[r].pc
        BY WokenReaders DEF TypeInv, TypeOK, ReaderType
    <2>3. Woken[r].clean = reader[r].clean
        BY <2>2 DEF ReaderType
    <2>4. reader'[r].pc \notin {"drowsy", "asleep"} /\ (r \notin NonblockingReaders => reader'[r].pc # "empty")
        BY <2>1, <2>2 DEF Unlocked, Holding, Restful, Rests
    <2>5. Rests(r, reader[r])
        BY DEF Restful
    <2> QED BY <2>1, <2>2, <2>3, <2>4, <2>5 DEF Rests
<1>2. CASE createWriter \/ WriteWord \/ WriterCloses \/ \E n \in 1..MaxWords : WriteBegins(n)
    BY <1>2 DEF createWriter, WriteWord, WriterCloses, WriteBegins, cursorVars, Restful, Keeping, Rests, Left
<1> QED
    BY <1>1, <1>2 DEF WriterSteps

\* The invariant of the sleepers holds for ever.
LEMMA Resting == Spec => []Restful
<1>1. Init => Restful
    <2> SUFFICES ASSUME Init, NEW r \in Readers PROVE Rests(r, reader[r])
        BY DEF Restful
    <2> QED BY DEF Init, NoReader, Rests
<1>2. TypeInv /\ Restful /\ [Next]_vars => Restful'
    <2>1. ASSUME TypeInv, Restful, Next PROVE Restful'
        BY <2>1, WriterStepsRest, ReaderStepsRest DEF Next
    <2>2. ASSUME Restful, UNCHANGED vars PROVE Restful'
        BY <2>2 DEF vars, writerVars, Restful, Keeping, Rests, Left
    <2> QED BY <2>1, <2>2
<1> QED
    BY <1>1, <1>2, TypesInitially, TypesKept, PTL DEF Spec

\* With a writer that takes dataAvailableMutex no reader sleeps while there is a word for it
\* or after Writer::close: the look and the wait of Reader::read are one critical section, and
\* publishing and closing notify within theirs.
THEOREM NoWakeupIsLost == Spec => []NoLostWakeup
<1>1. Restful => NoLostWakeup
    BY DEF Restful, Rests, NoLostWakeup, Available, Left
<1> QED
    BY <1>1, Resting, PTL

\* A BLOCKING reader is told CLOSED only when it has read every word published: what it found
\* when it looked cannot change before Reader::read decides.
THEOREM ClosedComesLast == Spec => []ClosedMeansConsumed
<1>1. Restful => ClosedMeansConsumed
    BY DEF Restful, Rests, ClosedMeansConsumed
<1> QED
    BY <1>1, Resting, PTL

---------------------------------------------------------------------------
(* What is read is what was written                                        *)

\* A position is its quotient times the size of the buffer and its slot.
LEMMA SlotAndRound ==
    ASSUME NEW a \in Nat
    PROVE  /\ a \div DataSize \in Nat /\ Slot(a) \in 0..(DataSize - 1)
           /\ a = DataSize * (a \div DataSize) + Slot(a)
BY SdsAssumption, SMT DEF Slot

\* Another round is at least one buffer further.
LEMMA NextRound ==
    ASSUME NEW k \in Nat, NEW l \in Nat, k < l
    PROVE  DataSize * l >= DataSize * k + DataSize
<1> USE SdsAssumption
<1>1. PICK e \in Nat : l = k + 1 + e
    <2>1. l - k - 1 \in Nat
        OBVIOUS
    <2> QED BY <2>1
<1>2. DataSize * l = DataSize * k + DataSize + DataSize * e
    BY <1>1
<1>3. DataSize * e \in Nat /\ DataSize * k \in Nat
    OBVIOUS
<1> QED
    BY <1>2, <1>3

\* Positions less than a buffer apart have slots of their own.
LEMMA SlotsApart ==
    ASSUME NEW a \in Nat, NEW b \in Nat, a < b, b < a + DataSize
    PROVE  Slot(a) # Slot(b)
<1> USE SdsAssumption
<1> SUFFICES ASSUME Slot(a) = Slot(b) PROVE FALSE
    OBVIOUS
<1> DEFINE p == a \div DataSize
           q == b \div DataSize
           m == Slot(a)
<1>1. /\ p \in Nat /\ q \in Nat /\ m \in Nat
      /\ a = DataSize * p + m /\ b = DataSize * q + m
    <2>1. p \in Nat /\ Slot(a) \in 0..(DataSize - 1) /\ a = DataSize * p + Slot(a)
        BY SlotAndRound
    <2>2. q \in Nat /\ b = DataSize * q + Slot(b)
        BY SlotAndRound
    <2> HIDE DEF p, q
    <2> QED BY <2>1, <2>2
<1> HIDE DEF p, q, m
<1>2. DataSize * p \in Nat /\ DataSize * q \in Nat
    BY <1>1
<1>3. CASE p < q
    <2>1. DataSize * q >= DataSize * p + DataSize
        BY <1>1, <1>3, NextRound
    <2> QED BY <1>1, <1>2, <2>1
<1>4. CASE q < p
    <2>1. DataSize * p >= DataSize * q + DataSize
        BY <1>1, <1>4, NextRound
    <2> QED BY <1>1, <1>2, <2>1
<1>5. CASE p = q
    BY <1>1, <1>2, <1>5
<1> QED
    BY <1>1, <1>3, <1>4, <1>5

\* A write ends where its words end, and between two writes nothing is announced.
WriteFits ==
    /\ writeEndCursor = writeStartCursor + writer.n + writer.shift
    /\ writer.i =< writer.n
    /\ writer.pc # "copying" => writer.n = 0 /\ writer.shift = 0
    /\ ~oversized => writer.shift = 0

\* Every position copied so far, as far back as the write under way leaves it, has its word.
WordsInPlace ==
    ~oversized => \A c \in Nat :
        c < writeStartCursor + writer.i /\ writeEndCursor =< c + DataSize => data[Slot(c)] = c

\* Only published words are copied, by a reader that is enabled, and all of them were right
\* unless it came too late.
Copies(x) ==
    /\ x.pc \notin {"none", "creating"} => x.enabled
    /\ x.pc = "copying" => x.cursor + x.n =< writeStartCursor /\ x.i =< x.n
    /\ Keeping /\ ~oversized /\ x.pc \in {"copying", "ok"} => x.clean \/ x.late

ReadInv == WriteFits /\ WordsInPlace /\ \A r \in Readers : Copies(reader[r])

\* A step of a reader leaves the writer's part alone.
LEMMA OneReaderCopies ==
    ASSUME TypeInv, ReadInv, NEW r \in Readers, NEW x,
           reader' = [reader EXCEPT ![r] = x], UNCHANGED writerVars, Copies(x)
    PROVE  ReadInv'
<1>1. WriteFits' /\ WordsInPlace'
    BY DEF ReadInv, WriteFits, WordsInPlace, writerVars
<1>2. ASSUME NEW q \in Readers PROVE Copies(reader[q])'
    <2>1. reader'[q] = IF q = r THEN x ELSE reader[q]
        BY DEF TypeInv, TypeOK
    <2>2. Copies(reader'[q])
        BY <2>1 DEF ReadInv
    <2>3. writeStartCursor' = writeStartCursor /\ oversized' = oversized /\ m_policy' = m_policy
        BY DEF writerVars
    <2> QED BY <2>2, <2>3 DEF Copies, Keeping
<1> QED
    BY <1>1, <1>2 DEF ReadInv

\* So does a reader that neither copies nor answers with words.
LEMMA IdleReaderCopies ==
    ASSUME TypeInv, ReadInv, NEW r \in Readers, NEW x, OnlyReader(r, x) \/ Consumed(r, x),
           x.pc \notin {"copying", "ok"}, x.pc \in {"none", "creating"} \/ x.enabled
    PROVE  ReadInv'
<1>1. Copies(x)
    BY DEF Copies
<1> QED
    BY <1>1, OneReaderCopies DEF OnlyReader, Consumed

\* What a reader takes is published.
LEMMA TakingCopies ==
    ASSUME TypeInv, NEW r \in Readers, reader[r].pc \in Reading, reader[r].enabled, Available(r) # 0
    PROVE  Copies(Taking(r))
<1>1. reader[r] \in ReaderType /\ writeStartCursor \in Nat /\ reader[r].cursor < reader[r].closeIndex
    BY DEF TypeInv, TypeOK, ReaderType, BeforeClose
<1> DEFINE n == Smaller(Smaller(reader[r].n, Available(r)), reader[r].closeIndex - reader[r].cursor)
<1>2. /\ reader[r].cursor \in Nat /\ reader[r].n \in Nat
      /\ reader[r].closeIndex - reader[r].cursor \in Nat
    BY <1>1 DEF ReaderType
<1>3. Available(r) \in Nat /\ reader[r].cursor + Available(r) =< writeStartCursor
    BY <1>1, <1>2 DEF Available
<1>4. n \in Nat /\ n =< Available(r)
    <2>1. Smaller(reader[r].n, Available(r)) \in Nat /\ Smaller(reader[r].n, Available(r)) =< Available(r)
        BY <1>2, <1>3, SmallerType
    <2>2. n \in Nat /\ n =< Smaller(reader[r].n, Available(r))
        BY <1>2, <2>1, SmallerType
    <2> HIDE DEF n
    <2> QED BY <1>3, <2>1, <2>2
<1>5. Taking(r) = [reader[r] EXCEPT !.pc = "copying", !.i = 0, !.clean = TRUE, !.n = n]
    BY <1>1 DEF Taking, ReaderType
<1> HIDE DEF n
<1>6. /\ Taking(r).pc = "copying" /\ Taking(r).enabled /\ Taking(r).clean
      /\ Taking(r).cursor = reader[r].cursor /\ Taking(r).n = n /\ Taking(r).i = 0
    BY <1>1, <1>5 DEF ReaderType
<1>7. reader[r].cursor + n =< writeStartCursor
    BY <1>1, <1>2, <1>3, <1>4
<1> QED
    BY <1>4, <1>6, <1>7 DEF Copies

\* What the wait decides.
LEMMA DecidedCopies ==
    ASSUME TypeInv, NEW r \in Readers, reader[r].pc \in Reading, reader[r].enabled
    PROVE  Copies(Decided(r)) /\ Copies(SaysClosed(r)) /\ Copies(Answering(reader[r], "idle"))
<1>1. reader[r] \in ReaderType /\ Available(r) \in Nat
    BY DEF TypeInv, TypeOK, ReaderType, Available
<1>2. Copies(SaysClosed(r))
    <2>1. SaysClosed(r).pc = "closed" /\ SaysClosed(r).enabled
        BY <1>1 DEF SaysClosed, Answering, ReaderType
    <2> QED BY <2>1 DEF Copies
<1>3. Copies(Answering(reader[r], "idle"))
    <2>1. Answering(reader[r], "idle").pc = "idle" /\ Answering(reader[r], "idle").enabled
        BY <1>1 DEF Answering, ReaderType
    <2> QED BY <2>1 DEF Copies
<1>4. Copies([reader[r] EXCEPT !.pc = "drowsy"])
    <2>1. [reader[r] EXCEPT !.pc = "drowsy"].pc = "drowsy" /\ [reader[r] EXCEPT !.pc = "drowsy"].enabled
        BY <1>1 DEF ReaderType
    <2> QED BY <2>1 DEF Copies
<1>5. Available(r) > 0 => Copies(Taking(r))
    BY <1>1, TakingCopies
<1> QED
    BY <1>2, <1>3, <1>4, <1>5 DEF Decided

\* The word at a position the reader still has, and that is published, is the right one.
LEMMA WordIsRight ==
    ASSUME TypeInv, UnconsumedKept, ReadInv, NEW r \in Readers, reader[r].enabled, ~reader[r].late,
           Keeping, ~oversized, NEW c \in Nat, reader[r].cursor =< c, c < writeStartCursor
    PROVE  data[Slot(c)] = c
<1> USE SdsAssumption
<1>1. /\ writeStartCursor \in Nat /\ writeEndCursor \in Nat /\ reader[r].cursor \in Nat
      /\ writer.i \in Nat
    BY DEF TypeInv, TypeOK
<1>2. writeEndCursor =< reader[r].cursor + DataSize
    BY DEF UnconsumedKept
<1>3. c < writeStartCursor + writer.i /\ writeEndCursor =< c + DataSize
    BY <1>1, <1>2
<1> QED
    BY <1>3 DEF ReadInv, WordsInPlace

\* No step of a reader hands out a wrong word.
LEMMA ReaderStepsCopy ==
    ASSUME TypeInv, UnconsumedKept, ReadInv, NEW r \in Readers, ReaderSteps(r)
    PROVE  ReadInv'
<1>0. /\ reader[r] \in ReaderType /\ writeStartCursor \in Nat /\ Copies(reader[r])
    BY DEF TypeInv, TypeOK, ReaderType, ReadInv
<1>1. CASE createReader(r)
    <2> DEFINE x == [NoReader EXCEPT !.pc = "creating", !.cursor = writeStartCursor, !.closeIndex = Never]
    <2>1. x.pc = "creating" /\ OnlyReader(r, x)
        BY <1>1 DEF createReader, NoReader
    <2> HIDE DEF x
    <2> QED BY <2>1, IdleReaderCopies
<1>2. CASE enableReaderLocked(r)
    <2> DEFINE tooLate == reader[r].cursor < oldestUnconsumedCursor \/ Overrun(reader[r].cursor)
    <2>1. PICK pc \in {"idle", "seeking"} :
              LET x == [reader[r] EXCEPT !.pc = pc, !.enabled = TRUE, !.late = tooLate]
              IN IF pc = "idle" THEN Consumed(r, x) ELSE OnlyReader(r, x)
        BY <1>2 DEF enableReaderLocked
    <2> DEFINE x == [reader[r] EXCEPT !.pc = pc, !.enabled = TRUE, !.late = tooLate]
    <2>2. Consumed(r, x) \/ OnlyReader(r, x)
        BY <2>1
    <2> HIDE DEF tooLate
    <2>3. x.pc = pc /\ x.enabled
        BY <1>0 DEF ReaderType
    <2> HIDE DEF x
    <2> QED BY <2>2, <2>3, IdleReaderCopies
<1>3. CASE seek(r) \/ SeekToOldest(r)
    <2>1. PICK absolute : SeekTo(r, absolute)
        BY <1>3 DEF seek, SeekToOldest
    <2> DEFINE x == [reader[r] EXCEPT !.pc = "idle", !.cursor = absolute]
    <2>2. reader' = [reader EXCEPT ![r] = x] /\ UNCHANGED writerVars
        BY <2>1 DEF SeekTo, Consumed
    <2>3. x.pc = "idle" /\ x.enabled
        BY <1>0, <1>3 DEF ReaderType, Copies, seek, SeekToOldest
    <2> HIDE DEF x
    <2>4. Copies(x)
        BY <2>3 DEF Copies
    <2> QED BY <2>2, <2>4, OneReaderCopies
<1>4. CASE close(r)
    <2>1. PICK absolute \in CloseIndexes : OnlyReader(r, [reader[r] EXCEPT !.closeIndex = absolute])
        BY <1>4 DEF close
    <2> DEFINE x == [reader[r] EXCEPT !.closeIndex = absolute]
    <2>2. x.pc = "idle" /\ x.enabled /\ OnlyReader(r, x)
        BY <1>0, <1>4, <2>1 DEF close, ReaderType, Copies
    <2> HIDE DEF x
    <2> QED BY <2>2, IdleReaderCopies
<1>5. CASE destroyReader(r)
    BY <1>5, IdleReaderCopies DEF destroyReader, NoReader
<1>6. CASE ReadBegins(r)
    <2>1. PICK n \in 1..MaxWords : OnlyReader(r, [reader[r] EXCEPT !.pc = "checking", !.n = n])
        BY <1>6 DEF ReadBegins
    <2> DEFINE x == [reader[r] EXCEPT !.pc = "checking", !.n = n]
    <2>2. x.pc = "checking" /\ x.enabled /\ OnlyReader(r, x)
        BY <1>0, <1>6, <2>1 DEF ReadBegins, ReaderType, Copies
    <2> HIDE DEF x
    <2> QED BY <2>2, IdleReaderCopies
<1>7. CASE ReadChecks(r)
    <2>1. reader[r].enabled /\ reader[r].pc \in Reading
        BY <1>0, <1>7 DEF ReadChecks, Copies, Reading
    <2>2. CASE Available(r) = 0
        <3> DEFINE x == [reader[r] EXCEPT !.pc = "empty"]
        <3>1. OnlyReader(r, x) /\ x.pc = "empty" /\ x.enabled
            BY <1>0, <1>7, <2>1, <2>2 DEF ReadChecks, ReaderType
        <3> HIDE DEF x
        <3> QED BY <3>1, IdleReaderCopies
    <2>3. CASE Available(r) # 0
        <3>1. OnlyReader(r, Taking(r)) /\ Copies(Taking(r))
            BY <1>7, <2>1, <2>3, TakingCopies DEF ReadChecks
        <3> QED BY <3>1, OneReaderCopies DEF OnlyReader
    <2> QED BY <2>2, <2>3
<1>8. CASE ReadFindsNothing(r)
    <2>1. reader[r].enabled /\ reader[r].pc \in Reading
        BY <1>0, <1>8 DEF ReadFindsNothing, Copies, Reading
    <2>2. \/ OnlyReader(r, SaysClosed(r)) \/ OnlyReader(r, Answering(reader[r], "idle"))
          \/ OnlyReader(r, Decided(r))
        BY <1>8 DEF ReadFindsNothing
    <2> QED BY <2>1, <2>2, DecidedCopies, OneReaderCopies DEF OnlyReader
<1>9. CASE ReadSleeps(r)
    <2> DEFINE x == [reader[r] EXCEPT !.pc = "asleep"]
    <2>1. OnlyReader(r, x) /\ x.pc = "asleep" /\ x.enabled
        BY <1>0, <1>9 DEF ReadSleeps, ReaderType, Copies
    <2> HIDE DEF x
    <2> QED BY <2>1, IdleReaderCopies
<1>10. CASE ReadTimesOut(r)
    <2>1. reader[r].enabled /\ reader[r].pc \in Reading
        BY <1>0, <1>10 DEF ReadTimesOut, Copies, Reading
    <2> QED BY <1>10, <2>1, DecidedCopies, OneReaderCopies DEF ReadTimesOut, OnlyReader
<1>11. CASE ReadWakes(r)
    <2>1. reader[r].enabled /\ reader[r].pc \in Reading
        BY <1>0, <1>11 DEF ReadWakes, Copies, Reading
    <2> QED BY <1>11, <2>1, DecidedCopies, OneReaderCopies DEF ReadWakes, OnlyReader
<1>12. CASE ReadWord(r)
    <2> DEFINE c == reader[r].cursor + reader[r].i
               same == reader[r].clean /\ data[Slot(c)] = c
               x == [reader[r] EXCEPT !.i = @ + 1, !.clean = same]
    <2>1. /\ reader[r].pc = "copying" /\ reader[r].i < reader[r].n /\ OnlyReader(r, x)
        BY <1>12 DEF ReadWord
    <2>2. /\ reader[r].enabled /\ reader[r].cursor + reader[r].n =< writeStartCursor
          /\ reader[r].i \in Nat /\ reader[r].n \in Nat /\ reader[r].cursor \in Nat
        BY <1>0, <2>1 DEF Copies, ReaderType
    <2>3. c \in Nat /\ reader[r].cursor =< c /\ c < writeStartCursor
        BY <1>0, <2>1, <2>2
    <2>4. ASSUME Keeping, ~oversized, ~reader[r].late PROVE same
        <3> HIDE DEF c
        <3>1. data[Slot(c)] = c
            BY <2>2, <2>3, <2>4, WordIsRight
        <3>2. reader[r].clean
            BY <1>0, <2>1, <2>4 DEF Copies
        <3> QED BY <3>1, <3>2
    <2>5. same \in BOOLEAN
        OBVIOUS
    <2> HIDE DEF same
    <2>6. /\ x.pc = "copying" /\ x.enabled /\ x.late = reader[r].late /\ x.clean = same
          /\ x.cursor = reader[r].cursor /\ x.n = reader[r].n /\ x.i = reader[r].i + 1
        BY <1>0, <2>1, <2>2 DEF ReaderType
    <2> HIDE DEF x, c
    <2>7. x.i =< x.n
        BY <2>1, <2>2, <2>6
    <2>8. Copies(x)
        BY <2>2, <2>4, <2>6, <2>7 DEF Copies
    <2> QED BY <2>1, <2>8, OneReaderCopies DEF OnlyReader
<1>13. CASE ReadEnds(r)
    <2> DEFINE c == reader[r].cursor + reader[r].n
               said == IF Overrun(c) THEN "overrun" ELSE "ok"
               x == Answering([reader[r] EXCEPT !.cursor = c], said)
    <2>1. Consumed(r, x) /\ said \in {"overrun", "ok"} /\ reader[r].pc = "copying"
        BY <1>13 DEF ReadEnds
    <2> HIDE DEF said, c
    <2>2. /\ x.pc = said /\ x.enabled = reader[r].enabled /\ x.clean = reader[r].clean
          /\ x.late = reader[r].late
        BY <1>0 DEF Answering, ReaderType
    <2> HIDE DEF x
    <2>3. Copies(x)
        BY <1>0, <2>1, <2>2 DEF Copies
    <2> QED BY <2>1, <2>3, OneReaderCopies DEF Consumed
<1>14. CASE ReadReturns(r)
    <2> DEFINE x == [reader[r] EXCEPT !.pc = "idle", !.clean = TRUE]
    <2>1. OnlyReader(r, x) /\ x.pc = "idle" /\ x.enabled
        BY <1>0, <1>14 DEF ReadReturns, ReaderType, Copies
    <2> HIDE DEF x
    <2> QED BY <2>1, IdleReaderCopies
<1> QED
    BY <1>1, <1>2, <1>3, <1>4, <1>5, <1>6, <1>7, <1>8, <1>9, <1>10, <1>11, <1>12, <1>13, <1>14
    DEF ReaderSteps

\* Waking the readers and publishing more words leaves what they copy alone.
LEMMA WokenCopy ==
    ASSUME TypeInv, TypeInv', ReadInv, reader' = Woken, writeStartCursor =< writeStartCursor',
           UNCHANGED <<m_policy, oversized>>, NEW r \in Readers
    PROVE  Copies(reader[r])'
<1>1. /\ reader[r] \in ReaderType /\ Woken[r] = [reader[r] EXCEPT !.pc = Woken[r].pc]
      /\ Woken[r].pc = IF reader[r].pc = "asleep" THEN "awake" ELSE reader[r].pc
    BY WokenReaders DEF TypeInv, TypeOK, ReaderType
<1>2. /\ Woken[r].clean = reader[r].clean /\ Woken[r].late = reader[r].late
      /\ Woken[r].enabled = reader[r].enabled /\ Woken[r].cursor = reader[r].cursor
      /\ Woken[r].n = reader[r].n /\ Woken[r].i = reader[r].i
    BY <1>1 DEF ReaderType
<1>3. /\ writeStartCursor \in Nat /\ writeStartCursor' \in Nat
      /\ reader[r].cursor \in Nat /\ reader[r].n \in Nat
    BY <1>1 DEF TypeInv, TypeOK, ReaderType
<1>4. Copies(reader[r])
    BY DEF ReadInv
<1>5. reader[r].pc = "copying" => reader[r].cursor + reader[r].n =< writeStartCursor'
    BY <1>3, <1>4 DEF Copies
<1> QED
    BY <1>1, <1>2, <1>4, <1>5 DEF Copies, Keeping

\* The writer puts each word where no other that is still needed lies.
LEMMA WriterStepsCopy ==
    ASSUME TypeInv, TypeInv', ReadInv, WriterSteps
    PROVE  ReadInv'
<1> USE SdsAssumption
<1>0. /\ writer \in WriterType /\ writeStartCursor \in Nat /\ writeEndCursor \in Nat
      /\ writer.i \in Nat /\ writer.n \in Nat /\ writer.shift \in Nat
      /\ data \in [0..(DataSize - 1) -> Int] /\ DataSize \in Nat /\ WriteFits
      /\ writeStartCursor =< writeEndCursor
    BY DEF TypeInv, TypeOK, WriterType, ReadInv
<1>1. CASE createWriter \/ WriterCloses \/ WriterClosed
    <2>1. /\ writer.pc # "copying" /\ writer'.pc # "copying" /\ writer'.i = writer.i
          /\ writer'.n = writer.n /\ writer'.shift = writer.shift
        BY <1>0, <1>1 DEF createWriter, WriterCloses, WriterClosed, WriterType
    <2>2. /\ UNCHANGED <<writeStartCursor, data, oversized, m_policy>>
          /\ writeEndCursor' = writeStartCursor \/ writeEndCursor' = writeEndCursor
          /\ reader' = reader \/ reader' = Woken
        BY <1>1 DEF createWriter, WriterCloses, WriterClosed, cursorVars, NewEnd
    <2>3. writeEndCursor' = writeEndCursor
        BY <1>0, <2>1, <2>2 DEF WriteFits
    <2>4. WriteFits' /\ WordsInPlace'
        BY <2>1, <2>2, <2>3 DEF ReadInv, WriteFits, WordsInPlace
    <2>5. \A r \in Readers : Copies(reader[r])'
        BY <1>0, <2>2, WokenCopy DEF ReadInv, Copies, Keeping
    <2> QED BY <2>4, <2>5 DEF ReadInv
<1>2. CASE \E words \in 1..MaxWords : WriteBegins(words)
    <2>1. PICK words \in 1..MaxWords : WriteBegins(words)
        BY <1>2
    <2>2. PICK n \in Space(words) :
              /\ writeEndCursor' = writeStartCursor + n
              /\ writer' = [pc |-> "copying", i |-> 0, n |-> Smaller(n, DataSize),
                            shift |-> n - Smaller(n, DataSize)]
              /\ oversized' = (oversized \/ n > DataSize)
        BY <2>1 DEF WriteBegins
    <2>3. writer.pc = "idle" /\ UNCHANGED <<m_policy, writeStartCursor, data, reader>>
        BY <2>1 DEF WriteBegins
    <2>4. n \in Nat
        <3>1. words \in Nat
            OBVIOUS
        <3> QED BY <3>1, <2>2, SpaceBounds
    <2>5. WriteFits'
        <3>1. /\ writer'.pc = "copying" /\ writer'.i = 0 /\ writer'.n = Smaller(n, DataSize)
              /\ writer'.shift = n - Smaller(n, DataSize)
            BY <2>2
        <3>2. Smaller(n, DataSize) \in Nat
            BY <1>0, <2>4, SmallerType
        <3>3. ~oversized' => Smaller(n, DataSize) = n
            <4>1. ~oversized' => ~(n > DataSize)
                BY <2>2
            <4> QED BY <1>0, <2>4, <4>1 DEF Smaller
        <3> QED BY <1>0, <2>2, <2>3, <2>4, <3>1, <3>2, <3>3 DEF WriteFits
    <2>6. WordsInPlace'
        <3> SUFFICES ASSUME ~oversized', NEW c \in Nat, c < writeStartCursor' + writer'.i,
                            writeEndCursor' =< c + DataSize
                     PROVE  data[Slot(c)] = c
            BY <2>3 DEF WordsInPlace
        <3>1. ~oversized /\ writer'.i = 0 /\ writeStartCursor' = writeStartCursor
            <4>1. writer'.i = 0
                BY <2>2
            <4>2. oversized => oversized'
                BY <2>2
            <4> QED BY <2>3, <4>1, <4>2
        <3>2. writeEndCursor = writeStartCursor
            BY <1>0, <2>3 DEF WriteFits
        <3>3. c < writeStartCursor + writer.i /\ writeEndCursor =< c + DataSize
            BY <1>0, <2>2, <2>4, <3>1, <3>2
        <3> QED BY <3>1, <3>3 DEF ReadInv, WordsInPlace
    <2>7. \A r \in Readers : Copies(reader[r])'
        <3>1. oversized => oversized'
            BY <2>2
        <3> QED BY <2>3, <3>1 DEF ReadInv, Copies, Keeping
    <2> QED BY <2>5, <2>6, <2>7 DEF ReadInv
<1>3. CASE WriteWord
    <2> DEFINE p == writeStartCursor + writer.i
    <2>1. /\ writer.pc = "copying" /\ writer.i < writer.n /\ writer' = [writer EXCEPT !.i = writer.i + 1]
          /\ data' = [data EXCEPT ![Slot(p)] = writeStartCursor + writer.shift + writer.i]
          /\ UNCHANGED <<m_policy, writeStartCursor, writeEndCursor, oversized, reader>>
        BY <1>3 DEF WriteWord, cursorVars
    <2>2. /\ writer'.pc = "copying" /\ writer'.i = writer.i + 1 /\ writer'.n = writer.n
          /\ writer'.shift = writer.shift
        BY <1>0, <2>1 DEF WriterType
    <2>3. WriteFits'
        BY <1>0, <2>1, <2>2 DEF WriteFits
    <2>4. WordsInPlace'
        <3> SUFFICES ASSUME ~oversized, NEW c \in Nat, c < writeStartCursor + (writer.i + 1),
                            writeEndCursor =< c + DataSize
                     PROVE  data'[Slot(c)] = c
            BY <2>1, <2>2 DEF WordsInPlace
        <3>1. p \in Nat /\ c =< p /\ p < writeEndCursor /\ writeStartCursor + writer.shift + writer.i = p
            <4>1. writer.shift = 0 /\ writeEndCursor = writeStartCursor + writer.n + writer.shift
                BY <1>0 DEF WriteFits
            <4>2. writeStartCursor + writer.shift + writer.i = p
                BY <1>0, <4>1
            <4>3. p \in Nat /\ c =< p
                BY <1>0
            <4>4. p < writeEndCursor
                BY <1>0, <2>1, <4>1
            <4> QED BY <4>2, <4>3, <4>4
        <3>2. Slot(c) \in DOMAIN data /\ Slot(p) \in DOMAIN data
            BY <1>0, <3>1, SlotAndRound
        <3>3. CASE c = p
            BY <2>1, <3>1, <3>2, <3>3
        <3>4. CASE c # p
            <4>1. c < p /\ p < c + DataSize
                BY <1>0, <3>1, <3>4
            <4>2. Slot(c) # Slot(p)
                BY <3>1, <4>1, SlotsApart
            <4>3. data'[Slot(c)] = data[Slot(c)]
                BY <2>1, <3>2, <4>2
            <4>4. data[Slot(c)] = c
                BY <4>1 DEF ReadInv, WordsInPlace
            <4> QED BY <4>3, <4>4
        <3> QED BY <3>3, <3>4
    <2>5. \A r \in Readers : Copies(reader[r])'
        BY <2>1 DEF ReadInv, Copies, Keeping
    <2> QED BY <2>3, <2>4, <2>5 DEF ReadInv
<1>4. CASE WritePublishes
    <2>1. /\ writer.pc = "copying" /\ writer.i = writer.n /\ writeStartCursor' = writeEndCursor
          /\ writer' = [pc |-> "idle", i |-> 0, n |-> 0, shift |-> 0] /\ reader' = Woken
          /\ UNCHANGED <<m_policy, writeEndCursor, data, oversized>>
        BY <1>4 DEF WritePublishes, Copied
    <2>2. writer'.pc = "idle" /\ writer'.i = 0 /\ writer'.n = 0 /\ writer'.shift = 0
        BY <2>1
    <2>3. WriteFits'
        BY <1>0, <2>1, <2>2 DEF WriteFits
    <2>4. ~oversized => writeEndCursor = writeStartCursor + writer.i
        BY <1>0, <2>1 DEF WriteFits
    <2>5. WordsInPlace'
        BY <1>0, <2>1, <2>2, <2>4 DEF ReadInv, WordsInPlace
    <2>6. \A r \in Readers : Copies(reader[r])'
        BY <1>0, <2>1, WokenCopy
    <2> QED BY <2>3, <2>5, <2>6 DEF ReadInv
<1> QED
    BY <1>1, <1>2, <1>3, <1>4 DEF WriterSteps

\* With a BLOCKING or ALL_OR_NOTHING writer a read that succeeds returns the words written at
\* its positions, although Writer::write and Reader::read copy at the same time and without a
\* lock: the words in place reach back to the slowest reader, and a reader copies only what is
\* published.  Left out are readers that came too late and streams that were written more words
\* at once than the buffer holds.
THEOREM ReadsAreIntact == Spec => []ReadsIntact
<1>1. Init => ReadInv
    <2> SUFFICES ASSUME Init PROVE ReadInv
        OBVIOUS
    <2>1. WriteFits /\ WordsInPlace
        BY DEF Init, WriteFits, WordsInPlace
    <2>2. \A r \in Readers : Copies(reader[r])
        BY DEF Init, NoReader, Copies
    <2> QED BY <2>1, <2>2 DEF ReadInv
<1>2. TypeInv /\ TypeInv' /\ UnconsumedKept /\ ReadInv /\ [Next]_vars => ReadInv'
    <2>1. ASSUME TypeInv, TypeInv', UnconsumedKept, ReadInv, Next PROVE ReadInv'
        BY <2>1, WriterStepsCopy, ReaderStepsCopy DEF Next
    <2>2. ASSUME ReadInv, UNCHANGED vars PROVE ReadInv'
        BY <2>2 DEF vars, writerVars, ReadInv, WriteFits, WordsInPlace, Copies, Keeping
    <2> QED BY <2>1, <2>2
<1>3. ReadInv => ReadsIntact
    BY DEF ReadInv, Copies, ReadsIntact
<1> QED
    BY <1>1, <1>2, <1>3, TypesInitially, TypesKept, UnreadWordsAreKept, PTL DEF Spec
====
