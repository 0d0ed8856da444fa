-------------------------- MODULE CertifiedSenderProofs --------------------------
(***************************************************************************)
(* Proofs about CertifiedSender, for any messages, queue size and number   *)
(* of crashes, destructions and calls of clearData.                        *)
(***************************************************************************)
EXTENDS CertifiedSender, FiniteSetTheorems, SequenceTheorems, TLAPS

USE MessagesAssumption, AnswersAssumption, LimitsAssumption

-----------------------------------------------------------------------------
(* Sequences and row ids *)

\* push_back adds one element; a row with a larger id keeps the order.
LEMMA AppendElements ==
    ASSUME NEW S, NEW q \in Seq(S), NEW e \in S
    PROVE  /\ Append(q, e) \in Seq(S)
           /\ Elements(Append(q, e)) = Elements(q) \cup {e}
           /\ Append(q, e) # <<>>
           /\ q # <<>> => Head(Append(q, e)) = Head(q)
<1>1. /\ Append(q, e) \in Seq(S) /\ Append(q, e) # <<>>
      /\ Len(Append(q, e)) = Len(q) + 1
      /\ \A i \in 1..Len(q) : Append(q, e)[i] = q[i]
      /\ Append(q, e)[Len(q) + 1] = e
  BY AppendProperties
<1>2. DOMAIN q = 1..Len(q) /\ DOMAIN Append(q, e) = 1..(Len(q) + 1) /\ Len(q) \in Nat
  BY <1>1
<1>3. Elements(Append(q, e)) = Elements(q) \cup {e}
  <2>1. Elements(q) \subseteq Elements(Append(q, e))
    BY <1>1, <1>2 DEF Elements
  <2>2. e \in Elements(Append(q, e))
    BY <1>1, <1>2 DEF Elements
  <2>3. ASSUME NEW i \in DOMAIN Append(q, e) PROVE Append(q, e)[i] \in Elements(q) \cup {e}
    BY <1>1, <1>2 DEF Elements
  <2> QED BY <2>1, <2>2, <2>3 DEF Elements
<1>4. q # <<>> => Head(Append(q, e)) = Head(q)
  <2> SUFFICES ASSUME q # <<>> PROVE Head(Append(q, e)) = Head(q)
    OBVIOUS
  <2>1. Len(q) > 0
    BY EmptySeq
  <2> QED BY <1>1, <1>2, <2>1
<1> QED BY <1>1, <1>3, <1>4

\* A row with a new greatest id at the back of a sorted queue leaves it sorted.
LEMMA AppendInIdOrder ==
    ASSUME NEW q \in Seq(Row), NEW e \in Row, InIdOrder(q),
           \A r \in Elements(q) : r.id < e.id
    PROVE  InIdOrder(Append(q, e))
<1>1. /\ Len(Append(q, e)) = Len(q) + 1 /\ Append(q, e) \in Seq(Row)
      /\ \A i \in 1..Len(q) : Append(q, e)[i] = q[i]
      /\ Append(q, e)[Len(q) + 1] = e
  BY AppendProperties
<1>2. DOMAIN q = 1..Len(q) /\ DOMAIN Append(q, e) = 1..(Len(q) + 1) /\ Len(q) \in Nat
  BY <1>1
<1> SUFFICES ASSUME NEW i \in 1..(Len(q) + 1), NEW j \in 1..(Len(q) + 1), i < j
             PROVE  Append(q, e)[i].id < Append(q, e)[j].id
  BY <1>2 DEF InIdOrder
<1>3. i \in DOMAIN q /\ Append(q, e)[i] = q[i] /\ q[i] \in Elements(q)
  BY <1>1, <1>2 DEF Elements
<1>4. CASE j = Len(q) + 1
  BY <1>1, <1>3, <1>4
<1>5. CASE j \in 1..Len(q)
  BY <1>1, <1>2, <1>3, <1>5 DEF InIdOrder
<1> QED BY <1>2, <1>4, <1>5

\* pop_front drops the first element, which in a loaded queue has the least id.
LEMMA TailElements ==
    ASSUME NEW S, NEW q \in Seq(S), q # <<>>
    PROVE  /\ Tail(q) \in Seq(S) /\ Head(q) \in S
           /\ Elements(q) = Elements(Tail(q)) \cup {Head(q)}
<1>1. /\ Head(q) \in S /\ Tail(q) \in Seq(S) /\ Len(Tail(q)) = Len(q) - 1
      /\ \A i \in 1..Len(Tail(q)) : Tail(q)[i] = q[i + 1]
  BY HeadTailProperties
<1>2. /\ DOMAIN q = 1..Len(q) /\ Len(q) \in Nat /\ Len(q) > 0 /\ Head(q) = q[1]
      /\ DOMAIN Tail(q) = 1..(Len(q) - 1)
  BY <1>1, EmptySeq
<1>3. Elements(Tail(q)) \cup {Head(q)} \subseteq Elements(q)
  <2>1. ASSUME NEW i \in DOMAIN Tail(q) PROVE Tail(q)[i] \in Elements(q)
    BY <1>1, <1>2, i + 1 \in DOMAIN q DEF Elements
  <2> QED BY <1>2, <2>1 DEF Elements
<1>4. ASSUME NEW i \in DOMAIN q PROVE q[i] \in Elements(Tail(q)) \cup {Head(q)}
  <2>1. CASE i = 1
    BY <1>2, <2>1
  <2>2. CASE i # 1
    <3>1. i - 1 \in DOMAIN Tail(q) /\ Tail(q)[i - 1] = q[i]
      BY <1>1, <1>2, <2>2
    <3> QED BY <3>1 DEF Elements
  <2> QED BY <2>1, <2>2
<1> QED BY <1>1, <1>3, <1>4 DEF Elements

\* pop_front leaves the queue sorted, and what it took has the least id.
LEMMA TailInIdOrder ==
    ASSUME NEW q \in Seq(Row), q # <<>>, InIdOrder(q)
    PROVE  /\ InIdOrder(Tail(q))
           /\ \A r \in Elements(Tail(q)) : Head(q).id < r.id
<1>1. /\ Tail(q) \in Seq(Row) /\ Len(Tail(q)) = Len(q) - 1
      /\ \A i \in 1..Len(Tail(q)) : Tail(q)[i] = q[i + 1]
  BY HeadTailProperties
<1>2. /\ DOMAIN q = 1..Len(q) /\ Len(q) \in Nat /\ Len(q) > 0 /\ Head(q) = q[1]
      /\ DOMAIN Tail(q) = 1..(Len(q) - 1)
  BY <1>1, EmptySeq
<1>3. ASSUME NEW i \in DOMAIN Tail(q), NEW j \in DOMAIN Tail(q), i < j
      PROVE  Tail(q)[i].id < Tail(q)[j].id
  <2>1. i + 1 \in DOMAIN q /\ j + 1 \in DOMAIN q /\ i + 1 < j + 1
    BY <1>2, <1>3
  <2> QED BY <1>1, <1>2, <2>1 DEF InIdOrder
<1>4. ASSUME NEW i \in DOMAIN Tail(q) PROVE Head(q).id < Tail(q)[i].id
  <2>1. 1 \in DOMAIN q /\ i + 1 \in DOMAIN q /\ 1 < i + 1
    BY <1>2
  <2> QED BY <1>1, <1>2, <2>1 DEF InIdOrder
<1> QED BY <1>3, <1>4 DEF InIdOrder, Elements

\* pop_front and push_front of the first element change nothing.
LEMMA HeadAndTail ==
    ASSUME NEW q \in Seq(Row), q # <<>>
    PROVE  <<Head(q)>> \o Tail(q) = q
<1>1. /\ Tail(q) \in Seq(Row) /\ Len(Tail(q)) = Len(q) - 1 /\ Head(q) \in Row
      /\ \A i \in 1..Len(Tail(q)) : Tail(q)[i] = q[i + 1]
  BY HeadTailProperties
<1>2. Len(q) \in Nat /\ Len(q) > 0 /\ Head(q) = q[1]
  BY EmptySeq
<1>3. <<Head(q)>> \in Seq(Row) /\ Len(<<Head(q)>>) = 1 /\ <<Head(q)>>[1] = Head(q)
  BY <1>1
<1>4. /\ <<Head(q)>> \o Tail(q) \in Seq(Row)
      /\ Len(<<Head(q)>> \o Tail(q)) = 1 + Len(Tail(q))
      /\ \A i \in 1..(1 + Len(Tail(q))) : (<<Head(q)>> \o Tail(q))[i] =
             IF i =< 1 THEN <<Head(q)>>[i] ELSE Tail(q)[i - 1]
  BY <1>1, <1>3, ConcatProperties
<1>5. ASSUME NEW i \in 1..Len(q) PROVE (<<Head(q)>> \o Tail(q))[i] = q[i]
  <2>1. CASE i = 1
    BY <1>1, <1>2, <1>3, <1>4, <2>1
  <2>2. CASE i # 1
    BY <1>1, <1>2, <1>4, <2>2
  <2> QED BY <2>1, <2>2
<1> QED BY <1>1, <1>2, <1>4, <1>5, SeqEqual

Ids(rows) == {0} \cup {r.id : r \in rows}

\* Every set of ids that occur has a greatest element.  (This states that the
\* table is finite in the form that nextId needs.)
Maxes(rows) ==
    \A T \in SUBSET Ids(rows) : T # {} => \E x \in T : \A y \in T : y =< x

\* store gives an id that is greater than all in the table.
LEMMA NextIdIsNew ==
    ASSUME m_storage \subseteq Row, Maxes(m_storage)
    PROVE  nextId \in Nat \ {0} /\ \A r \in m_storage : r.id < nextId
<1>1. Ids(m_storage) \subseteq Nat
  BY DEF Ids, Row
<1>2. PICK x \in Ids(m_storage) : \A y \in Ids(m_storage) : y =< x
  BY DEF Maxes, Ids
<1>3. /\ Max(Ids(m_storage)) \in Ids(m_storage)
      /\ \A y \in Ids(m_storage) : Max(Ids(m_storage)) >= y
  BY <1>1, <1>2 DEF Max
<1>4. nextId = Max(Ids(m_storage)) + 1
  BY DEF nextId, Ids
<1>5. \A r \in m_storage : r.id \in Ids(m_storage)
  BY DEF Ids
<1> QED BY <1>1, <1>3, <1>4, <1>5

\* Erasing rows leaves every set of ids with a greatest one.
LEMMA MaxesSubset ==
    ASSUME NEW rows, Maxes(rows), NEW sub \in SUBSET rows
    PROVE  Maxes(sub)
BY DEF Maxes, Ids

\* Storing a row leaves every set of ids with a greatest one.
LEMMA MaxesAdd ==
    ASSUME NEW rows \in SUBSET Row, Maxes(rows), NEW r \in Row
    PROVE  Maxes(rows \cup {r})
<1> SUFFICES ASSUME NEW T \in SUBSET Ids(rows \cup {r}), T # {}
             PROVE  \E x \in T : \A y \in T : y =< x
  BY DEF Maxes
<1>1. T \subseteq Nat /\ r.id \in Nat
  BY DEF Ids, Row
<1>2. T \ {r.id} \in SUBSET Ids(rows)
  BY DEF Ids
<1>3. CASE T \ {r.id} = {}
  BY <1>1, <1>3
<1>4. CASE T \ {r.id} # {}
  <2>1. PICK x \in T \ {r.id} : \A y \in T \ {r.id} : y =< x
    BY <1>2, <1>4 DEF Maxes
  <2>2. CASE r.id \notin T
    BY <2>1, <2>2
  <2>3. CASE r.id \in T /\ r.id =< x
    BY <1>1, <2>1, <2>3
  <2>4. CASE r.id \in T /\ x < r.id
    <3>1. \A y \in T : y =< r.id
      BY <1>1, <2>1, <2>4
    <3> QED BY <2>4, <3>1
  <2> QED BY <1>1, <2>1, <2>2, <2>3, <2>4
<1> QED BY <1>3, <1>4

-----------------------------------------------------------------------------
(* Types *)

\* The rows have different ids, of which there is always a greatest.
Keys ==
    /\ Maxes(m_storage)
    /\ \A r, s \in m_storage : r.id = s.id => r = s

\* The row that store inserts is well formed.
LEMMA StoredRowType ==
    ASSUME TypeOK, Keys, NEW m \in Messages
    PROVE  StoredRow(m) \in Row /\ StoredRow(m).id = nextId /\ StoredRow(m).message = m
<1>1. nextId \in Nat \ {0}
  BY NextIdIsNew DEF TypeOK, Keys
<1> QED BY <1>1 DEF StoredRow, Row

\* Every step keeps the ids unique and the greatest one in place.
LEMMA KeysNext == TypeOK /\ Keys /\ [Next]_vars => Keys'
<1> SUFFICES ASSUME TypeOK, Keys, [Next]_vars PROVE Keys'
  OBVIOUS
<1>1. ASSUME NEW m \in Messages, m_storage' = m_storage \cup {StoredRow(m)}
      PROVE  Keys'
  <2>1. StoredRow(m) \in Row /\ StoredRow(m).id = nextId
    BY StoredRowType
  <2>2. nextId \in Nat /\ \A r \in m_storage : r.id < nextId /\ r.id \in Nat
    BY NextIdIsNew DEF TypeOK, Keys, Row
  <2>3. Maxes(m_storage \cup {StoredRow(m)})
    BY <2>1, MaxesAdd DEF TypeOK, Keys
  <2>4. \A r, s \in m_storage \cup {StoredRow(m)} : r.id = s.id => r = s
    BY <2>1, <2>2 DEF Keys
  <2> QED BY <1>1, <2>3, <2>4 DEF Keys
<1>2. ASSUME m_storage' \subseteq m_storage PROVE Keys'
  <2>1. Maxes(m_storage')
    BY <1>2, MaxesSubset DEF Keys
  <2> QED BY <1>2, <2>1 DEF Keys
<1>3. CASE \E m \in Messages : executeSendJSONMessage(m)
  BY <1>1, <1>3 DEF executeSendJSONMessage
<1>4. CASE Crash
  BY <1>1, <1>2, <1>4 DEF Crash
<1>5. CASE clearData
  BY <1>2, <1>5 DEF clearData
<1>6. CASE Worker
  BY <1>2, <1>6 DEF Worker, WaitForMessage, TakeMessage, SendMessage, waitForCompletion,
        RetryLater, BackoffOver, EraseMessage, PopsEmptyQueue, WorkerExits, EraseCurrent,
        Erased
<1>7. CASE UNCHANGED m_storage
  BY <1>2, <1>7
<1> QED BY <1>3, <1>4, <1>5, <1>6, <1>7 DEF Next, vars, create, executeSendJSONMessageFails,
        SpuriousWakeup, sendCompleted, exceptionReceived, onConnectionStatusChanged,
        destroy, destroyJoins

\* TypeOK of the members that a step replaces.
LEMMA TypesNext == TypeOK /\ Keys /\ [Next]_vars => TypeOK'
<1> SUFFICES ASSUME TypeOK, Keys, [Next]_vars PROVE TypeOK'
  OBVIOUS
<1> USE DEF UnderWay
<1>0. <<>> \in Seq(Row)
  OBVIOUS
<1>1. CASE create
  <2>1. Cardinality(m_storage) \in Nat
    BY FS_CardinalityType DEF TypeOK
  <2>2. PICK n \in 0..Cardinality(m_storage) : m_messagesToSend' \in [1..n -> m_storage]
    BY <1>1 DEF create, load
  <2>3. m_messagesToSend' \in Seq(Row) /\ unloaded' \subseteq Row
    BY <1>1, <2>1, <2>2 DEF create, TypeOK
  <2> QED BY <1>1, <2>3 DEF create, TypeOK, requestVars, boundVars
<1>2. CASE \E m \in Messages : executeSendJSONMessage(m)
  <2>1. PICK m \in Messages : executeSendJSONMessage(m)
    BY <1>2
  <2>2. StoredRow(m) \in Row
    BY StoredRowType
  <2>3. IsFiniteSet(m_storage \cup {StoredRow(m)})
    BY FS_AddElement DEF TypeOK
  <2>4. Append(m_messagesToSend, StoredRow(m)) \in Seq(Row) /\ Append(order, m) \in Seq(Messages)
    BY <2>2, AppendProperties DEF TypeOK
  <2> QED BY <2>1, <2>2, <2>3, <2>4 DEF executeSendJSONMessage, Pushed, Notify, TypeOK,
            requestVars, boundVars
<1>3. CASE \E m \in Messages : executeSendJSONMessageFails(m)
  BY <1>3 DEF executeSendJSONMessageFails, TypeOK, objectVars, requestVars, boundVars
<1>4. CASE clearData
  <2>1. IsFiniteSet({}) /\ <<>> \in Seq(Row)
    BY FS_EmptySet
  <2>2. {r.message : r \in m_storage} \subseteq Messages
    BY DEF TypeOK, Row
  <2>3. disturbed' \in BOOLEAN
    BY <1>4 DEF clearData, TypeOK
  <2>4. clears' \in Nat
    BY <1>4 DEF clearData, TypeOK
  <2>5. m_storage' \subseteq Row /\ IsFiniteSet(m_storage') /\ cleared' \subseteq Messages
    BY <1>4, <2>1, <2>2 DEF clearData, TypeOK
  <2>6. /\ m_messagesToSend' = <<>>
        /\ UNCHANGED <<m_isConnected, m_isShuttingDown, requestVars, workerPc, stops,
                       offered, order, answered, unloaded>>
    BY <1>4 DEF clearData, QueueCleared
  <2> QED BY <2>1, <2>3, <2>4, <2>5, <2>6 DEF TypeOK, requestVars
<1>5. CASE WaitForMessage \/ TakeMessage \/ SendMessage \/ waitForCompletion
           \/ BackoffOver \/ WorkerExits
  <2>1. CASE TakeMessage
    <3>1. m_messagesToSend # <<>> /\ Head(m_messagesToSend) \in Row
      BY <2>1, HeadTailProperties DEF TakeMessage, mayProceed, TypeOK
    <3> QED BY <2>1, <3>1 DEF TakeMessage, TypeOK, Row, objectVars, boundVars, histVars, NoStatus
  <2>2. CASE SendMessage
    BY <2>2 DEF SendMessage, TypeOK, objectVars, requestVars, boundVars, histVars
  <2>3. CASE WaitForMessage
    BY <2>3 DEF WaitForMessage, TypeOK, objectVars, boundVars, histVars
  <2>4. CASE waitForCompletion
    BY <2>4 DEF waitForCompletion, TypeOK, objectVars, requestVars, boundVars, histVars
  <2>5. CASE BackoffOver
    BY <2>5 DEF BackoffOver, TypeOK, objectVars, requestVars, boundVars, histVars
  <2>6. CASE WorkerExits
    BY <2>6 DEF WorkerExits, TypeOK, objectVars, boundVars, histVars
  <2> QED BY <1>5, <2>1, <2>2, <2>3, <2>4, <2>5, <2>6
<1>6. CASE RetryLater
  <2>1. Tail(m_messagesToSend) \in Seq(Row) /\ m_currentMessage \in Row
    BY <1>6, HeadTailProperties DEF RetryLater, TypeOK
  <2>2. <<m_currentMessage>> \o Tail(m_messagesToSend) \in Seq(Row)
    BY <2>1, ConcatProperties
  <2> QED BY <1>6, <2>2 DEF RetryLater, Requeued, TypeOK, requestVars, boundVars, histVars
<1>7. CASE EraseMessage \/ PopsEmptyQueue
  <2>1. m_storage' \subseteq m_storage
    BY <1>7 DEF EraseMessage, PopsEmptyQueue, EraseCurrent, Erased
  <2>2. IsFiniteSet(m_storage')
    BY <2>1, FS_Subset DEF TypeOK
  <2>3. m_messagesToSend # <<>> => Tail(m_messagesToSend) \in Seq(Row)
    BY HeadTailProperties DEF TypeOK
  <2> QED BY <1>7, <2>1, <2>2, <2>3 DEF EraseMessage, PopsEmptyQueue, TypeOK, objectVars,
            requestVars, boundVars, histVars
<1>8. CASE SpuriousWakeup
  BY <1>8 DEF SpuriousWakeup, TypeOK, objectVars, requestVars, boundVars, histVars
<1>9. CASE (\E status \in Answers : sendCompleted(status)) \/ exceptionReceived
  <2>1. workerPc = "waiting" /\ m_currentMessage.message \in Messages
    BY <1>9 DEF sendCompleted, exceptionReceived, TypeOK, Row
  <2>2. /\ m_sendMessageStatus' \in Retried \cup Final
        /\ answered' \in {answered, answered \cup {m_currentMessage.message}}
    BY <1>9 DEF sendCompleted, exceptionReceived, Final
  <2>3. /\ UNCHANGED <<m_storage, objectVars, m_currentMessage, m_isRequestShuttingDown,
                       workerPc, boundVars, offered, order, cleared, unloaded, disturbed>>
    BY <1>9 DEF sendCompleted, exceptionReceived
  <2> QED BY <2>1, <2>2, <2>3 DEF TypeOK, objectVars, boundVars
<1>10. CASE \E connected \in BOOLEAN : onConnectionStatusChanged(connected)
  BY <1>10 DEF onConnectionStatusChanged, Notify, TypeOK, requestVars, boundVars, histVars
<1>11. CASE destroy
  BY <1>11 DEF destroy, Notify, TypeOK, histVars
<1>12. CASE destroyJoins
  BY <1>0, <1>12 DEF destroyJoins, Down, TypeOK, boundVars, NoStatus
<1>13. CASE Crash
  <2>1. ASSUME NEW m \in Messages
        PROVE  /\ StoredRow(m) \in Row /\ IsFiniteSet(m_storage \cup {StoredRow(m)})
               /\ Append(order, m) \in Seq(Messages)
    BY StoredRowType, FS_AddElement, AppendProperties DEF TypeOK
  <2>2. /\ m_storage' \subseteq Row /\ IsFiniteSet(m_storage')
        /\ offered' \subseteq Messages /\ order' \in Seq(Messages)
    BY <1>13, <2>1 DEF Crash, TypeOK
  <2>3. Down /\ stops' = stops + 1 /\ UNCHANGED <<clears, answered, cleared, disturbed>>
    BY <1>13 DEF Crash
  <2>4. stops' \in Nat
    BY <2>3 DEF TypeOK
  <2>5. UNCHANGED <<clears, answered, cleared, disturbed>>
    BY <2>3
  <2> QED BY <1>0, <2>2, <2>3, <2>4, <2>5 DEF Down, TypeOK, NoStatus
<1>14. CASE UNCHANGED vars
  BY <1>14 DEF vars, TypeOK, objectVars, requestVars, boundVars, histVars
<1> QED BY <1>1, <1>2, <1>3, <1>4, <1>5, <1>6, <1>7, <1>8, <1>9, <1>10, <1>11, <1>12, <1>13,
        <1>14 DEF Next, Worker

\* A sender starts with an empty table and an empty queue.
LEMMA TypesInit == Init => TypeOK /\ Keys
<1> SUFFICES ASSUME Init PROVE TypeOK /\ Keys
  OBVIOUS
<1>1. IsFiniteSet(m_storage) /\ m_storage = {}
  BY FS_EmptySet DEF Init
<1>2. Maxes(m_storage)
  <2>1. Ids(m_storage) = {0}
    BY <1>1 DEF Ids
  <2> QED BY <2>1 DEF Maxes
<1>3. <<>> \in Seq(Row) /\ <<>> \in Seq(Messages)
  OBVIOUS
<1> QED BY <1>1, <1>2, <1>3 DEF Init, TypeOK, Keys, UnderWay, NoStatus

\* Type correctness for any instance: the row ids stay natural numbers that are not
\* zero, and a worker that is sending has a current message.
THEOREM SenderTypeCorrect == Spec => []TypeOK
<1>1. TypeOK /\ Keys /\ [Next]_vars => (TypeOK /\ Keys)'
  BY KeysNext, TypesNext
<1> QED BY <1>1, TypesInit, PTL DEF Spec

-----------------------------------------------------------------------------
(* Histories and answers *)

\* Whatever is stored, queued, under way or cleared was accepted, and what was accepted
\* was offered: so no message can come a second time.
Accepted ==
    /\ Elements(order) \subseteq offered
    /\ Stored \cup cleared \subseteq Elements(order)
    /\ \A r \in Elements(m_messagesToSend) : r.message \in Elements(order)
    /\ UnderWay => m_currentMessage.message \in Elements(order)

\* The worker erases a message only when AVS has answered it.
AnswerKept ==
    /\ workerPc = "sending" => m_sendMessageStatus = NoStatus
    /\ workerPc = "waiting" /\ m_sendMessageStatus \in Final =>
         m_currentMessage.message \in answered
    /\ workerPc = "erasing" => m_currentMessage.message \in answered

\* What load queues are rows of the table, in the order of their ids.
LEMMA LoadedRows ==
    ASSUME NEW q \in load
    PROVE  Elements(q) \subseteq m_storage /\ InIdOrder(q)
<1>1. PICK n \in 0..Cardinality(m_storage) : q \in [1..n -> m_storage]
  BY DEF load
<1> QED BY <1>1 DEF load, Elements

\* Only sendJSONMessage brings a message in, and each message once.
LEMMA AcceptedNext == TypeOK /\ Keys /\ Accepted /\ [Next]_vars => Accepted'
<1> SUFFICES ASSUME TypeOK, Keys, Accepted, [Next]_vars PROVE Accepted'
  OBVIOUS
<1> USE DEF UnderWay
<1>0. Elements(<<>>) = {}
  BY DEF Elements
<1>1. CASE create
  <2>1. Elements(m_messagesToSend') \subseteq m_storage
    BY <1>1, LoadedRows DEF create
  <2> QED BY <1>1, <2>1 DEF create, Accepted, Stored, requestVars
<1>2. CASE \E m \in Messages : executeSendJSONMessage(m)
  <2>1. PICK m \in Messages : executeSendJSONMessage(m)
    BY <1>2
  <2>2. StoredRow(m) \in Row /\ StoredRow(m).message = m
    BY StoredRowType
  <2>3. /\ Elements(m_messagesToSend') = Elements(m_messagesToSend) \cup {StoredRow(m)}
        /\ Elements(order') = Elements(order) \cup {m}
    BY <2>1, <2>2, AppendElements DEF executeSendJSONMessage, Pushed, TypeOK
  <2>4. Stored' = Stored \cup {m}
    BY <2>1, <2>2 DEF executeSendJSONMessage, Stored
  <2> QED BY <2>1, <2>2, <2>3, <2>4 DEF executeSendJSONMessage, Notify, Accepted, requestVars
<1>3. CASE \E m \in Messages : executeSendJSONMessageFails(m)
  BY <1>3 DEF executeSendJSONMessageFails, Accepted, Stored, objectVars, requestVars
<1>4. CASE clearData
  <2>1. Stored' \cup cleared' \subseteq Stored \cup cleared
    BY <1>4 DEF clearData, Stored
  <2> QED BY <1>0, <1>4, <2>1 DEF clearData, QueueCleared, Accepted, requestVars
<1>5. CASE TakeMessage
  <2>1. Head(m_messagesToSend) \in Elements(m_messagesToSend)
    BY <1>5, TailElements DEF TakeMessage, mayProceed, TypeOK
  <2> QED BY <1>5, <2>1 DEF TakeMessage, Accepted, Stored, objectVars, histVars
<1>6. CASE WaitForMessage \/ SendMessage \/ waitForCompletion \/ BackoffOver \/ WorkerExits
  BY <1>6 DEF WaitForMessage, SendMessage, waitForCompletion, BackoffOver, WorkerExits,
        Accepted, Stored, objectVars, requestVars, histVars
<1>7. CASE RetryLater
  <2>1. Elements(m_messagesToSend') \subseteq Elements(m_messagesToSend) \cup {m_currentMessage}
    <3>1. /\ Tail(m_messagesToSend) \in Seq(Row) /\ m_currentMessage \in Row
          /\ Elements(Tail(m_messagesToSend)) \subseteq Elements(m_messagesToSend)
      BY <1>7, TailElements DEF RetryLater, TypeOK
    <3>2. /\ <<m_currentMessage>> \in Seq(Row) /\ Len(<<m_currentMessage>>) = 1
          /\ <<m_currentMessage>>[1] = m_currentMessage
      BY <3>1
    <3> DEFINE t == Tail(m_messagesToSend)
               q == <<m_currentMessage>> \o t
    <3>3. /\ q \in Seq(Row) /\ Len(q) = 1 + Len(t) /\ Len(t) \in Nat
          /\ \A i \in 1..(1 + Len(t)) : q[i] =
                 IF i =< 1 THEN <<m_currentMessage>>[i] ELSE t[i - 1]
      BY <3>1, <3>2, ConcatProperties
    <3>4. ASSUME NEW i \in DOMAIN q PROVE q[i] \in Elements(t) \cup {m_currentMessage}
      <4>1. CASE i = 1
        BY <3>2, <3>3, <4>1
      <4>2. CASE i # 1
        BY <3>1, <3>3, <4>2, i - 1 \in DOMAIN t DEF Elements
      <4> QED BY <4>1, <4>2
    <3> QED BY <1>7, <3>1, <3>4 DEF RetryLater, Requeued, Elements
  <2> QED BY <1>7, <2>1 DEF RetryLater, Accepted, Stored, requestVars, histVars
<1>8. CASE EraseMessage
  <2>1. Stored' \subseteq Stored
    BY <1>8 DEF EraseMessage, EraseCurrent, Erased, Stored
  <2>2. Elements(m_messagesToSend') \subseteq Elements(m_messagesToSend)
    BY <1>8, TailElements DEF EraseMessage, TypeOK
  <2> QED BY <1>8, <2>1, <2>2 DEF EraseMessage, Accepted, histVars
<1>9. CASE PopsEmptyQueue
  <2>1. Stored' \subseteq Stored
    BY <1>9 DEF PopsEmptyQueue, EraseCurrent, Erased, Stored
  <2> QED BY <1>9, <2>1 DEF PopsEmptyQueue, Accepted, objectVars, histVars
<1>10. CASE (\E status \in Answers : sendCompleted(status)) \/ exceptionReceived
            \/ SpuriousWakeup
            \/ (\E connected \in BOOLEAN : onConnectionStatusChanged(connected)) \/ destroy
  BY <1>10 DEF sendCompleted, exceptionReceived, SpuriousWakeup, onConnectionStatusChanged,
        destroy, Notify, Accepted, Stored, objectVars, requestVars, histVars
<1>11. CASE destroyJoins
  BY <1>0, <1>11 DEF destroyJoins, Down, Accepted, Stored
<1>12. CASE Crash
  <2>1. Down /\ UNCHANGED cleared
    BY <1>12 DEF Crash
  <2>2. CASE UNCHANGED <<m_storage, offered, order>>
    BY <1>0, <2>1, <2>2 DEF Down, Accepted, Stored
  <2>3. ASSUME NEW m \in Messages, m_storage' = m_storage \cup {StoredRow(m)},
               offered' = offered \cup {m}, order' = Append(order, m)
        PROVE  Accepted'
    <3>1. StoredRow(m).message = m
      BY StoredRowType
    <3>2. Elements(order') = Elements(order) \cup {m} /\ Stored' = Stored \cup {m}
      BY <2>3, <3>1, AppendElements DEF TypeOK, Stored
    <3> QED BY <1>0, <2>1, <2>3, <3>2 DEF Down, Accepted
  <2> QED BY <1>12, <2>2, <2>3 DEF Crash
<1>13. CASE UNCHANGED vars
  BY <1>13 DEF vars, Accepted, Stored, objectVars, requestVars, histVars
<1> QED BY <1>1, <1>2, <1>3, <1>4, <1>5, <1>6, <1>7, <1>8, <1>9, <1>10, <1>11, <1>12, <1>13
        DEF Next, Worker

\* The worker keeps the answer it waits for until it has erased the row.
LEMMA AnswerKeptNext == TypeOK /\ AnswerKept /\ [Next]_vars => AnswerKept'
<1> SUFFICES ASSUME TypeOK, AnswerKept, [Next]_vars PROVE AnswerKept'
  OBVIOUS
<1>1. CASE waitForCompletion
  <2>1. UNCHANGED <<m_sendMessageStatus, m_currentMessage, answered>> /\ workerPc = "waiting"
    BY <1>1 DEF waitForCompletion, requestVars, histVars
  <2>2. workerPc' = "erasing" => m_sendMessageStatus \in Final
    BY <1>1 DEF waitForCompletion, shouldRetryTransmission, CompletionStatus, Completed,
          Retried, Final, NoStatus, TypeOK
  <2> QED BY <1>1, <2>1, <2>2 DEF waitForCompletion, AnswerKept
<1>2. CASE TakeMessage
  BY <1>2 DEF TakeMessage, AnswerKept
<1>3. CASE SendMessage
  <2>1. NoStatus \notin Final
    BY DEF NoStatus, Final
  <2> QED BY <1>3, <2>1 DEF SendMessage, AnswerKept, requestVars
<1>4. CASE \E status \in Answers : sendCompleted(status)
  BY <1>4 DEF sendCompleted, AnswerKept
<1>5. CASE exceptionReceived
  BY <1>5 DEF exceptionReceived, AnswerKept
<1>6. CASE create \/ destroyJoins \/ Crash
  BY <1>6 DEF create, destroyJoins, Crash, Down, AnswerKept
<1>7. CASE \/ WaitForMessage \/ RetryLater \/ BackoffOver \/ EraseMessage \/ PopsEmptyQueue
           \/ WorkerExits \/ SpuriousWakeup
  BY <1>7 DEF WaitForMessage, RetryLater, BackoffOver, EraseMessage, PopsEmptyQueue,
        WorkerExits, SpuriousWakeup, AnswerKept
<1>8. CASE \/ \E m \in Messages : executeSendJSONMessage(m) \/ executeSendJSONMessageFails(m)
           \/ clearData \/ destroy
           \/ \E connected \in BOOLEAN : onConnectionStatusChanged(connected)
           \/ UNCHANGED vars
  <2>1. UNCHANGED <<m_sendMessageStatus, m_currentMessage, answered>>
    BY <1>8 DEF executeSendJSONMessage, executeSendJSONMessageFails, clearData, destroy,
          onConnectionStatusChanged, vars, requestVars, histVars
  <2>2. workerPc' = workerPc \/ workerPc' = "woken"
    BY <1>8 DEF executeSendJSONMessage, executeSendJSONMessageFails, clearData, destroy,
          onConnectionStatusChanged, vars, Notify
  <2> QED BY <2>1, <2>2 DEF AnswerKept
<1> QED BY <1>1, <1>2, <1>3, <1>4, <1>5, <1>6, <1>7, <1>8 DEF Next, Worker

-----------------------------------------------------------------------------
(* Queue and table, as long as no clearData is disturbed *)

\* A disturbed clearData is remembered.
LEMMA DisturbedStays == [Next]_vars /\ disturbed => disturbed'
BY DEF Next, Worker, vars, histVars, create, executeSendJSONMessage,
       executeSendJSONMessageFails, clearData, WaitForMessage, TakeMessage, SendMessage,
       waitForCompletion, RetryLater, BackoffOver, EraseMessage, PopsEmptyQueue,
       WorkerExits, SpuriousWakeup, sendCompleted, exceptionReceived,
       onConnectionStatusChanged, destroy, destroyJoins, Crash

\* PopsWhatItSent and QueueBackedByStorage need each other: what is popped is the
\* row that is erased because the queue is sorted and backed by the table.
LEMMA BackedNext ==
    /\ TypeOK /\ Keys /\ AnswerKept /\ PopsWhatItSent /\ QueueBackedByStorage
    /\ [Next]_vars
    => PopsWhatItSent' /\ QueueBackedByStorage'
<1> SUFFICES ASSUME TypeOK, Keys, AnswerKept, PopsWhatItSent, QueueBackedByStorage,
                    [Next]_vars, ~disturbed'
             PROVE  PopsWhatItSent' /\ QueueBackedByStorage'
  BY DEF PopsWhatItSent, QueueBackedByStorage
<1> USE DEF UnderWay
<1>1. ~disturbed
  BY DisturbedStays
<1>2. /\ workerPc # "undefined"
      /\ UnderWay => m_messagesToSend # <<>> /\ Head(m_messagesToSend) = m_currentMessage
  BY <1>1 DEF PopsWhatItSent
<1>3. workerPc # "down" =>
        /\ Elements(m_messagesToSend) \subseteq m_storage
        /\ \A r \in m_storage \ Elements(m_messagesToSend) :
             r.message \in answered \/ r \in unloaded
        /\ InIdOrder(m_messagesToSend)
  BY <1>1 DEF QueueBackedByStorage
<1>4. CASE create
  <2>1. Elements(m_messagesToSend') \subseteq m_storage /\ InIdOrder(m_messagesToSend')
    BY <1>4, LoadedRows DEF create
  <2> QED BY <1>4, <2>1 DEF create, PopsWhatItSent, QueueBackedByStorage
<1>5. CASE \E m \in Messages : executeSendJSONMessage(m)
  <2>1. PICK m \in Messages : executeSendJSONMessage(m)
    BY <1>5
  <2>2. StoredRow(m) \in Row /\ StoredRow(m).id = nextId
    BY StoredRowType
  <2>3. /\ Elements(m_messagesToSend') = Elements(m_messagesToSend) \cup {StoredRow(m)}
        /\ m_messagesToSend' # <<>>
        /\ m_messagesToSend # <<>> => Head(m_messagesToSend') = Head(m_messagesToSend)
    BY <2>1, <2>2, AppendElements DEF executeSendJSONMessage, Pushed, TypeOK
  <2>4. \A r \in Elements(m_messagesToSend) : r.id < StoredRow(m).id
    BY <1>3, <2>1, <2>2, NextIdIsNew DEF executeSendJSONMessage, TypeOK, Keys
  <2>5. InIdOrder(m_messagesToSend')
    BY <1>3, <2>1, <2>2, <2>4, AppendInIdOrder DEF executeSendJSONMessage, Pushed, TypeOK
  <2>6. UnderWay' => UnderWay
    BY <2>1 DEF executeSendJSONMessage, Notify
  <2>7. PopsWhatItSent'
    BY <1>2, <2>1, <2>3, <2>6 DEF executeSendJSONMessage, Notify, PopsWhatItSent, requestVars
  <2>8. QueueBackedByStorage'
    BY <1>3, <2>1, <2>3, <2>5 DEF executeSendJSONMessage, QueueBackedByStorage
  <2> QED BY <2>7, <2>8
<1>6. CASE clearData
  <2>1. ~UnderWay /\ m_storage' = {} /\ m_messagesToSend' = <<>> /\ UNCHANGED workerPc
    BY <1>6 DEF clearData, QueueCleared
  <2>2. Elements(m_messagesToSend') = {} /\ InIdOrder(m_messagesToSend')
    BY <2>1 DEF Elements, InIdOrder
  <2> QED BY <1>2, <2>1, <2>2 DEF PopsWhatItSent, QueueBackedByStorage
<1>7. CASE TakeMessage
  BY <1>3, <1>7 DEF TakeMessage, mayProceed, PopsWhatItSent, QueueBackedByStorage, objectVars,
        histVars
<1>8. CASE RetryLater
  <2>1. UNCHANGED m_messagesToSend
    BY <1>2, <1>8, HeadAndTail DEF RetryLater, Requeued, TypeOK
  <2> QED BY <1>3, <1>8, <2>1 DEF RetryLater, PopsWhatItSent, QueueBackedByStorage, histVars
<1>9. CASE EraseMessage
  <2>1. /\ m_messagesToSend # <<>> /\ Head(m_messagesToSend) = m_currentMessage
        /\ m_messagesToSend' = Tail(m_messagesToSend)
        /\ workerPc' = "woken" /\ workerPc = "erasing" /\ UNCHANGED <<answered, unloaded>>
    BY <1>2, <1>9 DEF EraseMessage, histVars
  <2>2. /\ Elements(m_messagesToSend) = Elements(m_messagesToSend') \cup {m_currentMessage}
        /\ InIdOrder(m_messagesToSend')
        /\ \A r \in Elements(m_messagesToSend') : m_currentMessage.id < r.id
    BY <1>3, <2>1, TailElements, TailInIdOrder DEF TypeOK
  <2>3. m_currentMessage \in m_storage /\ m_currentMessage.message \in answered
    BY <1>3, <2>1, <2>2 DEF AnswerKept
  <2>4. \A r \in m_storage : r.id \in Nat
    BY DEF TypeOK, Row
  <2>5. Elements(m_messagesToSend') \subseteq m_storage'
    BY <1>3, <1>9, <2>1, <2>2, <2>3, <2>4 DEF EraseMessage, EraseCurrent, Erased
  <2>6. \A r \in m_storage' \ Elements(m_messagesToSend') :
          r.message \in answered \/ r \in unloaded
    BY <1>3, <1>9, <2>1, <2>2, <2>3 DEF EraseMessage, EraseCurrent, Erased
  <2> QED BY <2>1, <2>2, <2>5, <2>6 DEF PopsWhatItSent, QueueBackedByStorage
<1>10. CASE PopsEmptyQueue
  BY <1>2, <1>10 DEF PopsEmptyQueue
<1>11. CASE SendMessage \/ waitForCompletion
  BY <1>2, <1>3, <1>11 DEF SendMessage, waitForCompletion, PopsWhatItSent,
        QueueBackedByStorage, objectVars, requestVars, histVars
<1>12. CASE WaitForMessage \/ BackoffOver \/ WorkerExits \/ SpuriousWakeup
  BY <1>3, <1>12 DEF WaitForMessage, BackoffOver, WorkerExits, SpuriousWakeup,
        PopsWhatItSent, QueueBackedByStorage, objectVars, histVars
<1>13. CASE (\E status \in Answers : sendCompleted(status)) \/ exceptionReceived
  <2>1. UNCHANGED <<m_storage, m_messagesToSend, m_currentMessage, workerPc, unloaded>>
    BY <1>13 DEF sendCompleted, exceptionReceived, objectVars
  <2>2. answered \subseteq answered'
    BY <1>13 DEF sendCompleted, exceptionReceived
  <2> QED BY <1>2, <1>3, <2>1, <2>2 DEF PopsWhatItSent, QueueBackedByStorage
<1>14. CASE destroyJoins \/ Crash
  BY <1>14 DEF destroyJoins, Crash, Down, PopsWhatItSent, QueueBackedByStorage
<1>15. CASE \/ \E m \in Messages : executeSendJSONMessageFails(m)
            \/ \E connected \in BOOLEAN : onConnectionStatusChanged(connected)
            \/ destroy \/ UNCHANGED vars
  <2>1. UNCHANGED <<m_storage, m_messagesToSend, m_currentMessage, answered, unloaded>>
    BY <1>15 DEF executeSendJSONMessageFails, onConnectionStatusChanged, destroy, vars,
          objectVars, requestVars, histVars
  <2>2. workerPc' = workerPc \/ (workerPc = "sleeping" /\ workerPc' = "woken")
    BY <1>15 DEF executeSendJSONMessageFails, onConnectionStatusChanged, destroy, Notify, vars
  <2> QED BY <1>2, <1>3, <2>1, <2>2 DEF PopsWhatItSent, QueueBackedByStorage
<1> QED BY <1>4, <1>5, <1>6, <1>7, <1>8, <1>9, <1>10, <1>11, <1>12, <1>13, <1>14, <1>15
        DEF Next, Worker

\* The row a new message gets comes after all others; other steps only take rows
\* away.  Answers and deletions are not forgotten.
LEMMA HistoryMoves ==
    ASSUME [Next]_vars
    PROVE  /\ \/ m_storage' \subseteq m_storage /\ order' = order
              \/ \E m \in Messages \ offered :
                   /\ m_storage' = m_storage \cup {StoredRow(m)}
                   /\ order' = Append(order, m)
                   /\ UNCHANGED <<answered, cleared>>
           /\ answered \subseteq answered' /\ cleared \subseteq cleared'
<1>1. CASE \E m \in Messages : executeSendJSONMessage(m)
  BY <1>1 DEF executeSendJSONMessage
<1>2. CASE Crash
  BY <1>2 DEF Crash
<1>3. CASE clearData
  BY <1>3 DEF clearData
<1>4. CASE Worker
  BY <1>4 DEF Worker, WaitForMessage, TakeMessage, SendMessage, waitForCompletion,
        RetryLater, BackoffOver, EraseMessage, PopsEmptyQueue, WorkerExits, EraseCurrent,
        Erased, histVars
<1>5. CASE (\E status \in Answers : sendCompleted(status)) \/ exceptionReceived
  BY <1>5 DEF sendCompleted, exceptionReceived
<1>6. CASE \/ create \/ SpuriousWakeup \/ destroy \/ destroyJoins \/ UNCHANGED vars
           \/ \E m \in Messages : executeSendJSONMessageFails(m)
           \/ \E connected \in BOOLEAN : onConnectionStatusChanged(connected)
  BY <1>6 DEF create, SpuriousWakeup, destroy, destroyJoins, vars, histVars,
        executeSendJSONMessageFails, onConnectionStatusChanged
<1> QED BY <1>1, <1>2, <1>3, <1>4, <1>5, <1>6 DEF Next

\* A row that leaves the table was answered or cleared.
LEMMA RowsLeave ==
    ASSUME TypeOK, Keys, AnswerKept, PopsWhatItSent, QueueBackedByStorage, [Next]_vars,
           ~disturbed'
    PROVE  \A r \in m_storage \ m_storage' : r.message \in answered' \cup cleared'
<1>1. ~disturbed
  BY DisturbedStays
<1>2. CASE clearData
  BY <1>2 DEF clearData
<1>3. CASE EraseMessage
  <2>1. /\ m_messagesToSend # <<>> /\ Head(m_messagesToSend) = m_currentMessage
        /\ m_currentMessage.message \in answered' /\ workerPc # "down"
    BY <1>1, <1>3 DEF EraseMessage, PopsWhatItSent, AnswerKept, UnderWay, histVars
  <2>2. m_currentMessage \in Elements(m_messagesToSend)
    BY <2>1, TailElements DEF TypeOK
  <2>3. m_currentMessage \in m_storage
    BY <1>1, <2>1, <2>2 DEF QueueBackedByStorage
  <2>4. \A r \in m_storage \ m_storage' : r.id = m_currentMessage.id
    BY <1>3 DEF EraseMessage, EraseCurrent, Erased
  <2> QED BY <2>1, <2>3, <2>4 DEF Keys
<1>4. CASE PopsEmptyQueue
  BY <1>1, <1>4 DEF PopsEmptyQueue, PopsWhatItSent, UnderWay
<1>5. CASE m_storage \subseteq m_storage'
  BY <1>5
<1> QED BY <1>2, <1>3, <1>4, <1>5 DEF Next, Worker, vars, create, executeSendJSONMessage,
        executeSendJSONMessageFails, WaitForMessage, TakeMessage, SendMessage,
        waitForCompletion, RetryLater, BackoffOver, WorkerExits, SpuriousWakeup,
        sendCompleted, exceptionReceived, onConnectionStatusChanged, destroy, destroyJoins,
        Crash

\* A step loses an accepted message only through a clearData that disturbs a send.
LEMMA NothingLostNext ==
    ASSUME TypeOK, Keys, AnswerKept, PopsWhatItSent, QueueBackedByStorage,
           NothingLostUndisturbed, [Next]_vars
    PROVE  NothingLostUndisturbed'
<1> SUFFICES ASSUME ~disturbed', NEW m \in Elements(order')
             PROVE  m \in Stored' \cup answered' \cup cleared'
  BY DEF NothingLostUndisturbed, NothingLost
<1>1. \A n \in Elements(order) : n \in Stored \cup answered \cup cleared
  BY DisturbedStays DEF NothingLostUndisturbed, NothingLost
<1>2. Stored \subseteq Stored' \cup answered' \cup cleared'
  BY RowsLeave DEF Stored
<1>3. CASE m \in Elements(order)
  BY <1>1, <1>2, <1>3, HistoryMoves
<1>4. CASE m \notin Elements(order)
  <2>1. PICK n \in Messages \ offered : /\ m_storage' = m_storage \cup {StoredRow(n)}
                                        /\ order' = Append(order, n)
    BY <1>4, HistoryMoves
  <2>2. m = n
    BY <1>4, <2>1, AppendElements DEF TypeOK
  <2>3. StoredRow(n).message = n
    BY StoredRowType
  <2> QED BY <2>1, <2>2, <2>3 DEF Stored
<1> QED BY <1>3, <1>4

\* What clearData deleted is not in the table.
ClearedGone == ~disturbed => cleared \cap Stored = {}

\* What an undisturbed clearData removed does not come back to the table.
LEMMA ClearedGoneNext ==
    ASSUME TypeOK, Keys, Accepted, ClearedGone, [Next]_vars
    PROVE  ClearedGone'
<1> SUFFICES ASSUME ~disturbed' PROVE cleared' \cap Stored' = {}
  BY DEF ClearedGone
<1>1. cleared \cap Stored = {}
  BY DisturbedStays DEF ClearedGone
<1>2. CASE clearData
  BY <1>2 DEF clearData, Stored
<1>3. CASE cleared' = cleared
  <2>1. CASE m_storage' \subseteq m_storage
    BY <1>1, <1>3, <2>1 DEF Stored
  <2>2. ASSUME NEW m \in Messages \ offered, m_storage' = m_storage \cup {StoredRow(m)}
        PROVE  cleared' \cap Stored' = {}
    <3>1. StoredRow(m).message = m
      BY StoredRowType
    <3>2. m \notin cleared
      BY DEF Accepted
    <3> QED BY <1>1, <1>3, <2>2, <3>1, <3>2 DEF Stored
  <2> QED BY <2>1, <2>2, HistoryMoves
<1> QED BY <1>2, <1>3 DEF Next, Worker, vars, histVars, create, executeSendJSONMessage,
        executeSendJSONMessageFails, WaitForMessage, TakeMessage, SendMessage,
        waitForCompletion, RetryLater, BackoffOver, EraseMessage, PopsEmptyQueue,
        WorkerExits, SpuriousWakeup, sendCompleted, exceptionReceived,
        onConnectionStatusChanged, destroy, destroyJoins, Crash

-----------------------------------------------------------------------------
(* Order *)

\* Ids grow with the time at which the messages were accepted.
RowOrder ==
    \A i, j \in DOMAIN order : i < j =>
        \A r, s \in m_storage : r.message = order[i] /\ s.message = order[j] => r.id < s.id

\* The order of the ids stays that of the acceptances.
LEMMA RowOrderNext ==
    ASSUME TypeOK, Keys, Accepted, RowOrder, [Next]_vars
    PROVE  RowOrder'
<1>1. CASE m_storage' \subseteq m_storage /\ order' = order
  BY <1>1 DEF RowOrder
<1>2. ASSUME NEW m \in Messages \ offered, m_storage' = m_storage \cup {StoredRow(m)},
             order' = Append(order, m)
      PROVE  RowOrder'
  <2>1. /\ Len(order') = Len(order) + 1 /\ order' \in Seq(Messages)
        /\ \A i \in 1..Len(order) : order'[i] = order[i]
        /\ order'[Len(order) + 1] = m
    BY <1>2, AppendProperties DEF TypeOK
  <2>2. DOMAIN order = 1..Len(order) /\ Len(order) \in Nat /\ DOMAIN order' = 1..(Len(order) + 1)
    BY <2>1 DEF TypeOK
  <2>3. StoredRow(m).message = m /\ StoredRow(m).id = nextId
    BY StoredRowType
  <2>4. \A r \in m_storage : r.id < nextId /\ r.message # m
    BY NextIdIsNew DEF TypeOK, Keys, Accepted, Stored
  <2>5. \A i \in DOMAIN order : order[i] # m
    BY DEF Accepted, Elements
  <2> SUFFICES ASSUME NEW i \in DOMAIN order', NEW j \in DOMAIN order', i < j,
                      NEW r \in m_storage', NEW s \in m_storage',
                      r.message = order'[i], s.message = order'[j]
               PROVE  r.id < s.id
    BY DEF RowOrder
  <2>6. i \in DOMAIN order /\ order'[i] = order[i] /\ r \in m_storage
    BY <1>2, <2>1, <2>2, <2>3, <2>5
  <2>7. CASE j = Len(order) + 1
    <3>1. s = StoredRow(m)
      BY <1>2, <2>1, <2>4, <2>7
    <3> QED BY <2>3, <2>4, <2>6, <3>1
  <2>8. CASE j \in DOMAIN order
    <3>1. order'[j] = order[j] /\ s \in m_storage
      BY <1>2, <2>1, <2>2, <2>3, <2>5, <2>8
    <3> QED BY <2>6, <2>8, <3>1 DEF RowOrder
  <2> QED BY <2>2, <2>7, <2>8
<1> QED BY <1>1, <1>2, HistoryMoves

\* What is under way is the first of a sorted queue, so whatever was stored before
\* it is not queued any more: it was answered, or load left it out.
LEMMA OrderFollows ==
    ASSUME TypeOK, RowOrder, PopsWhatItSent, QueueBackedByStorage, NothingLostUndisturbed
    PROVE  SentInOrder
<1> SUFFICES ASSUME ~disturbed, UnderWay, NEW i \in DOMAIN order, NEW j \in DOMAIN order,
                    i < j, order[j] = m_currentMessage.message
             PROVE  order[i] \in answered \cup cleared \cup PassedOver
  BY DEF SentInOrder
<1>1. /\ m_messagesToSend # <<>> /\ Head(m_messagesToSend) = m_currentMessage
      /\ Elements(m_messagesToSend) \subseteq m_storage
      /\ \A r \in m_storage \ Elements(m_messagesToSend) :
           r.message \in answered \/ r \in unloaded
      /\ InIdOrder(m_messagesToSend)
  BY DEF PopsWhatItSent, QueueBackedByStorage, UnderWay
<1>2. /\ m_currentMessage \in m_storage
      /\ \A r \in Elements(m_messagesToSend) : m_currentMessage.id =< r.id
  <2>1. /\ Elements(m_messagesToSend) = Elements(Tail(m_messagesToSend)) \cup {m_currentMessage}
        /\ \A r \in Elements(Tail(m_messagesToSend)) : m_currentMessage.id < r.id
    BY <1>1, TailElements, TailInIdOrder DEF TypeOK
  <2>2. \A r \in m_storage : r.id \in Nat
    BY DEF TypeOK, Row
  <2> QED BY <1>1, <2>1, <2>2
<1>3. order[i] \in Stored \cup answered \cup cleared
  BY DEF NothingLostUndisturbed, NothingLost, Elements
<1>4. ASSUME NEW r \in m_storage, r.message = order[i]
      PROVE  r.message \in answered \cup PassedOver
  <2>1. r.id < m_currentMessage.id
    BY <1>2, <1>4 DEF RowOrder
  <2>2. r.id \in Nat /\ m_currentMessage.id \in Nat
    BY <1>2 DEF TypeOK, Row
  <2>3. r \notin Elements(m_messagesToSend)
    BY <1>2, <2>1, <2>2
  <2> QED BY <1>1, <2>3 DEF PassedOver
<1> QED BY <1>3, <1>4 DEF Stored

-----------------------------------------------------------------------------
(* Theorems *)

SenderInv ==
    /\ TypeOK /\ Keys /\ Accepted /\ AnswerKept /\ PopsWhatItSent /\ QueueBackedByStorage
    /\ NothingLostUndisturbed /\ ClearedGone /\ RowOrder

\* The invariant holds at the start.
LEMMA SenderInit == Init => SenderInv
<1> SUFFICES ASSUME Init PROVE SenderInv
  OBVIOUS
<1>1. Elements(<<>>) = {} /\ order = <<>> /\ m_messagesToSend = <<>> /\ m_storage = {}
  BY DEF Init, Elements
<1>2. workerPc = "down" /\ cleared = {}
  BY DEF Init
<1>3. Accepted /\ AnswerKept /\ PopsWhatItSent /\ QueueBackedByStorage
  BY <1>1, <1>2 DEF Accepted, AnswerKept, PopsWhatItSent, QueueBackedByStorage, UnderWay, Stored
<1>4. NothingLostUndisturbed /\ ClearedGone /\ RowOrder
  BY <1>1, <1>2 DEF NothingLostUndisturbed, NothingLost, ClearedGone, RowOrder
<1> QED BY <1>3, <1>4, TypesInit DEF SenderInv

\* The invariant holds for ever.
LEMMA SenderAlways == Spec => []SenderInv
<1>1. SenderInv /\ [Next]_vars => SenderInv'
  BY KeysNext, TypesNext, AcceptedNext, AnswerKeptNext, BackedNext, NothingLostNext,
     ClearedGoneNext, RowOrderNext DEF SenderInv
<1> QED BY <1>1, SenderInit, PTL DEF Spec

\* Delivery survives crashes: every message that sendJSONMessage accepted is in the
\* table until AVS has answered it or clearData has deleted it.
THEOREM DeliverySafety == Spec => []NothingLostUndisturbed
BY SenderAlways, PTL DEF SenderInv

\* Messages are sent in the order of their acceptance, across restarts and retries,
\* but for rows that a read error kept load from queueing.
THEOREM SendOrderSafety == Spec => []SentInOrder
<1>1. SenderInv => SentInOrder
  BY OrderFollows DEF SenderInv
<1> QED BY <1>1, SenderAlways, PTL

\* pop_front, after the answer as well as before a retry, drops what was sent.
THEOREM PopSafety == Spec => []PopsWhatItSent
BY SenderAlways, PTL DEF SenderInv

\* The queue holds stored rows in the order of their ids, and every stored row but
\* the ones whose erase failed and the ones a read error kept load from queueing.
THEOREM StorageSafety == Spec => []QueueBackedByStorage
BY SenderAlways, PTL DEF SenderInv

\* What clearData deleted is neither stored nor queued again.
THEOREM ClearSafety == Spec => []ClearedUndisturbed
<1>1. SenderInv => ClearedUndisturbed
  <2> SUFFICES ASSUME SenderInv, ~disturbed PROVE ClearedStaysCleared
    BY DEF ClearedUndisturbed
  <2>1. cleared \cap Stored = {}
    BY DEF SenderInv, ClearedGone
  <2>2. \A r \in Elements(m_messagesToSend) : r \in m_storage
    <3>1. CASE workerPc = "down"
      BY <3>1 DEF SenderInv, TypeOK, Elements
    <3>2. CASE workerPc # "down"
      BY <3>2 DEF SenderInv, QueueBackedByStorage
    <3> QED BY <3>1, <3>2
  <2> QED BY <2>1, <2>2 DEF ClearedStaysCleared, Stored
<1> QED BY <1>1, SenderAlways, PTL
=============================================================================
