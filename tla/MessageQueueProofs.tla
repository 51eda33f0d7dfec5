------------------------- MODULE MessageQueueProofs -------------------------
(***************************************************************************)
(* The queue's guarantees for every capacity, every set of readers and any *)
(* number of writes.  The inductive invariant ties the lock state to the   *)
(* write position and says which slots hold which message; from it follow  *)
(* type correctness, the window, and the refinement of MessageLog.         *)
(***************************************************************************)
EXTENDS MessageQueue, TLAPS

\* Outside a write the queue holds exactly what was written; inside one, one
\* message more is stored than is visible.  No reader is ahead of the queue.
Positions ==
  /\ midWrite => loaded = back
  /\ written = IF midWrite THEN back + 1 ELSE back
  /\ \A r \in Readers : next[r] <= back

\* The message of a write in progress is in the slot that back_ points at.
Stored == midWrite => messages[Slot(back)] = back + 1

\* An answer of GetNumMessagesSkipped that is still to be used is what lay
\* between the reader and the window when it was asked for.
Told ==
  \A r \in Readers : askedAt[r] # NotAsked =>
    /\ pc[r] # "unborn"
    /\ next[r] <= askedAt[r] /\ askedAt[r] <= back
    /\ reported[r] = IF askedAt[r] - Size > next[r]
                     THEN askedAt[r] - Size - next[r] ELSE 0

IInv == TypeOK /\ Positions /\ Stored /\ Told /\ WindowIntact

-----------------------------------------------------------------------------
\* A position falls into a slot of the buffer.
LEMMA SlotType == \A p \in Nat : Slot(p) \in Slots
  BY SizeAssumption DEF Slot, Slots

\* Two positions less than Size apart never share a slot.
LEMMA SlotsDistinct ==
  ASSUME NEW p \in Nat, NEW q \in Nat, p < q, q < p + Size
  PROVE  Slot(p) # Slot(q)
<1> DEFINE qp == p \div Size
           qq == q \div Size
<1>1. /\ qp \in Nat /\ qq \in Nat
      /\ p = Size * qp + (p % Size) /\ q = Size * qq + (q % Size)
  BY SizeAssumption
<1>2. SUFFICES ASSUME p % Size = q % Size PROVE FALSE
  BY DEF Slot
<1>3. q - p = Size * (qq - qp)
  BY <1>1, <1>2, SizeAssumption
<1>4. CASE qq - qp <= 0
  <2> HIDE DEF qp, qq
  <2>1. Size * (qq - qp) <= 0
    BY <1>1, <1>4, SizeAssumption
  <2> QED BY <2>1, <1>3
<1>5. CASE qq - qp >= 1
  <2> HIDE DEF qp, qq
  <2>1. Size * (qq - qp) >= Size
    BY <1>1, <1>5, SizeAssumption
  <2> QED BY <2>1, <1>3, SizeAssumption
<1>6. QED BY <1>1, <1>4, <1>5

-----------------------------------------------------------------------------
\* front() is a position at or before back_.
LEMMA FrontType == back \in Nat => Front \in Nat /\ Front <= back
  BY SizeAssumption DEF Front

\* An empty queue satisfies the invariant.
LEMMA InitIInv == Init => IInv
<1> SUFFICES ASSUME Init PROVE IInv
  OBVIOUS
<1>1. TypeOK
  <2>1. messages \in [Slots -> Message] /\ askedAt \in [Readers -> Nat \cup {NotAsked}]
    BY DEF Init, Message
  <2>2. next \in [Readers -> Nat] /\ delivered \in [Readers -> Nat] /\ reported \in [Readers -> Int]
    BY DEF Init
  <2>3. pc \in [Readers -> {"unborn", "idle", "sampled"}]
    BY DEF Init
  <2>4. /\ back \in Nat /\ loaded \in Nat /\ midWrite \in BOOLEAN
        /\ written \in Nat /\ resets \in Nat
    BY DEF Init
  <2> QED BY <2>1, <2>2, <2>3, <2>4, Zenon DEF TypeOK
<1>2. Positions /\ Stored /\ Told
  BY DEF Init, Positions, Stored, Told, NotAsked
<1>3. WindowIntact
  BY SizeAssumption DEF Init, WindowIntact, Front
<1> QED BY <1>1, <1>2, <1>3 DEF IInv

\* Storing a message disturbs only the slot of the message that left the window.
LEMMA StoreIInv == IInv /\ StoreMessage => IInv'
<1> SUFFICES ASSUME IInv, StoreMessage PROVE IInv'
  OBVIOUS
<1> USE DEF IInv
<1>1. /\ back \in Nat /\ written = back /\ back' = back /\ midWrite' = TRUE
      /\ loaded' = back /\ written' = written + 1 /\ UNCHANGED readerVars
      /\ messages' = [messages EXCEPT ![Slot(back)] = back + 1]
  BY DEF StoreMessage, TypeOK, Positions
<1>2. TypeOK'
  BY <1>1, SlotType DEF TypeOK, Message, StoreMessage, readerVars, askVars
<1>3. Positions' /\ Told'
  BY <1>1 DEF Positions, Told, readerVars, askVars
<1>4. WindowIntact'
  <2> SUFFICES ASSUME NEW p \in Front .. back - 1, p + Size # back
               PROVE  messages'[Slot(p)] = p + 1
    BY <1>1 DEF WindowIntact, Front
  <2>1. p \in Nat /\ p < back /\ back < p + Size
    BY <1>1, FrontType, SizeAssumption DEF Front
  <2>2. Slot(p) # Slot(back) /\ Slot(p) \in Slots
    BY <2>1, <1>1, SlotsDistinct, SlotType
  <2>3. messages[Slot(p)] = p + 1
    BY <1>1, <2>1 DEF WindowIntact, StoreMessage
  <2> QED BY <1>1, <2>2, <2>3 DEF TypeOK
<1>5. Stored'
  BY <1>1, SlotType DEF Stored, TypeOK
<1> QED BY <1>2, <1>3, <1>4, <1>5

\* Advancing back_ makes the stored message the newest of the window.
LEMMA AdvanceIInv == IInv /\ AdvanceBack => IInv'
<1> SUFFICES ASSUME IInv, AdvanceBack PROVE IInv'
  OBVIOUS
<1> USE DEF IInv
<1>1. /\ back \in Nat /\ back' = back + 1 /\ midWrite = TRUE /\ midWrite' = FALSE
      /\ written = back + 1 /\ written' = written /\ messages' = messages
      /\ UNCHANGED readerVars
  BY DEF AdvanceBack, TypeOK, Positions
<1>2. TypeOK'
  BY <1>1 DEF TypeOK, AdvanceBack, readerVars, askVars
<1>3. Positions' /\ Told'
  BY <1>1 DEF Positions, Told, TypeOK, NotAsked, readerVars, askVars
<1>4. WindowIntact'
  <2> SUFFICES ASSUME NEW p \in Front' .. back
               PROVE  messages[Slot(p)] = p + 1
    BY <1>1 DEF WindowIntact
  <2>1. CASE p = back
    BY <2>1, <1>1 DEF Stored
  <2>2. CASE p < back
    <3>1. p \in Front .. back - 1 /\ p + Size # back
      BY <2>2, <1>1, SizeAssumption DEF Front
    <3> QED BY <3>1 DEF WindowIntact
  <2> QED BY <2>1, <2>2, <1>1, SizeAssumption DEF Front
<1>5. Stored'
  BY <1>1 DEF Stored
<1> QED BY <1>2, <1>3, <1>4, <1>5

\* A reader's step leaves the ring alone, and what it is given is a message.
LEMMA ReaderIInv ==
  ASSUME IInv, NEW r \in Readers,
         MakeReader(r) \/ AskSkipped(r) \/ ReadMessage(r) \/ SampleBack(r) \/ TakeLast(r)
  PROVE  IInv'
<1> USE DEF IInv
<1>1. /\ back \in Nat /\ Front \in Nat /\ Front <= back
      /\ next[r] \in Nat /\ next[r] <= back /\ UNCHANGED queueVars
  BY FrontType DEF TypeOK, Positions, MakeReader, AskSkipped, ReadMessage, NothingNew,
                   TakeMessage, SampleBack, TakeLast
<1>2. Stored' /\ WindowIntact'
  BY <1>1 DEF queueVars, Stored, WindowIntact, Front
<1>3. TypeOK' /\ Positions' /\ Told'
  <2> USE DEF queueVars, askVars, NotAsked
  <2>1. CASE MakeReader(r)
    BY <2>1, <1>1 DEF MakeReader, TypeOK, Positions, Told
  <2>2. CASE AskSkipped(r)
    <3>1. /\ CoerceIndex(next[r]) - next[r] \in Int
          /\ CoerceIndex(next[r]) - next[r] = IF back - Size > next[r]
                                             THEN back - Size - next[r] ELSE 0
      BY <1>1, SizeAssumption DEF CoerceIndex, Front
    <3> HIDE DEF NotAsked
    <3>2. TypeOK' /\ Positions'
      BY <2>2, <1>1, <3>1 DEF AskSkipped, TypeOK, Positions
    <3>3. Told'
      BY <2>2, <1>1, <3>1 DEF AskSkipped, TypeOK, Told
    <3> QED BY <3>2, <3>3
  <2>3. CASE NothingNew(r)
    BY <2>3, <1>1 DEF NothingNew, ForgetAnswer, TypeOK, Positions, Told
  <2>4. CASE TakeMessage(r)
    <3>1. Position(r) \in Front .. back - 1
      BY <2>4, <1>1, SizeAssumption DEF TakeMessage, Position, Front
    <3>2. messages[Slot(Position(r))] = Position(r) + 1
      BY <3>1, <2>4 DEF TakeMessage, WindowIntact
    <3>3. TypeOK' /\ Positions'
      BY <3>1, <3>2, <2>4, <1>1 DEF TakeMessage, ForgetAnswer, TypeOK, Positions
    <3>4. Told'
      BY <2>4, <1>1 DEF TakeMessage, ForgetAnswer, TypeOK, Told
    <3> QED BY <3>3, <3>4
  <2>5. CASE SampleBack(r)
    BY <2>5, <1>1 DEF SampleBack, ForgetAnswer, TypeOK, Positions, Told
  <2>6. CASE TakeLast(r)
    <3>1. back # 0 => messages[Slot(back - 1)] = back
      BY <2>6, <1>1, SizeAssumption DEF TakeLast, WindowIntact, Front
    <3>2. TypeOK' /\ Positions'
      BY <3>1, <2>6, <1>1 DEF TakeLast, TypeOK, Positions
    <3>3. Told'
      BY <2>6, <1>1 DEF TakeLast, TypeOK, Told
    <3> QED BY <3>2, <3>3
  <2> QED BY <2>1, <2>2, <2>3, <2>4, <2>5, <2>6 DEF ReadMessage
<1> QED BY <1>2, <1>3

\* Every step of writers and readers keeps it.
LEMMA NextIInv == IInv /\ [Next]_vars => IInv'
<1> SUFFICES ASSUME IInv, [Next]_vars PROVE IInv'
  OBVIOUS
<1>1. CASE Write
  BY <1>1, StoreIInv, AdvanceIInv DEF Write
<1>2. ASSUME NEW r \in Drainers, Drain(r) PROVE IInv'
  BY <1>2, ReaderIInv DEF Drain, Readers
<1>3. ASSUME NEW r \in Samplers, Sample(r) PROVE IInv'
  BY <1>3, ReaderIInv DEF Sample, Readers
<1>4. CASE UNCHANGED vars
  BY <1>4 DEF vars, queueVars, readerVars, askVars, IInv, TypeOK, Positions, Stored, Told,
                WindowIntact, Front
<1> QED BY <1>1, <1>2, <1>3, <1>4 DEF Next

\* The inductive invariant: positions are ordered, the slots hold what was written,
\* a reader's answer is that of the moment it asked, and nobody has been given a message from the future.
THEOREM Invariance == Spec => []IInv
  BY InitIInv, NextIInv, PTL DEF Spec

\* Type correctness; in particular no reader is ever given the content of a slot
\* that nobody has written.
THEOREM TypeCorrect == Spec => []TypeOK
  BY Invariance, PTL DEF IInv

\* The ring buffer always holds the last Size messages in their slots.
THEOREM Window == Spec => []WindowIntact
  BY Invariance, PTL DEF IInv

-----------------------------------------------------------------------------
(* Refinement of MessageLog.                                                *)

\* An empty queue is an empty log.
LEMMA InitLog == Init => Log!Init
  BY DEF Init, Log!Init, Readers, Log!Readers

\* Every step of the queue is a step of the log, or invisible to it.
LEMMA StepLog == IInv /\ [Next]_vars => [Log!Next]_(Log!logVars)
<1> SUFFICES ASSUME IInv, [Next]_vars PROVE [Log!Next]_(Log!logVars)
  OBVIOUS
<1> USE DEF IInv, Log!logVars
<1>0. /\ back \in Nat /\ Front \in Nat /\ Front <= back /\ Log!Dropped = Front
      /\ Log!Readers = Readers
  BY FrontType DEF TypeOK, Front, Log!Dropped, Readers, Log!Readers
<1>1. CASE StoreMessage
  BY <1>1 DEF StoreMessage, readerVars
<1>2. CASE AdvanceBack
  BY <1>2 DEF AdvanceBack, Positions, readerVars, Log!Next, Log!Write
<1>3. ASSUME NEW r \in Readers, MakeReader(r) PROVE Log!Next
  BY <1>3, <1>0 DEF MakeReader, queueVars, Log!Next, Log!Join
<1>4. ASSUME NEW r \in Readers, NothingNew(r) PROVE UNCHANGED Log!logVars
  BY <1>4, <1>0 DEF NothingNew, queueVars, Positions, TypeOK
<1>5. ASSUME NEW r \in Drainers, TakeMessage(r) PROVE Log!Next
  <2>1. r \in Readers /\ next[r] \in Nat
    BY DEF Readers, TypeOK
  <2>2. Position(r) \in Front .. back - 1
    BY <1>5, <1>0, <2>1, SizeAssumption DEF TakeMessage, Position, Front
  <2>3. messages[Slot(Position(r))] = Position(r) + 1
    BY <2>2, <1>5 DEF TakeMessage, WindowIntact
  <2>4. Log!Read(r)
    BY <2>3, <1>5, <1>0 DEF TakeMessage, queueVars, Position, Log!Read
  <2> QED BY <2>4 DEF Log!Next
<1>6. ASSUME NEW r \in Samplers, SampleBack(r) PROVE Log!Next
  BY <1>6 DEF SampleBack, queueVars, Log!Next, Log!PassOver
<1>7. ASSUME NEW r \in Samplers, TakeLast(r) PROVE [Log!Next]_(Log!logVars)
  <2>1. back # 0 => messages[Slot(back - 1)] = back
    BY <1>7, <1>0, SizeAssumption DEF TakeLast, WindowIntact, Front
  <2>2. CASE back = 0
    BY <2>2, <1>7 DEF TakeLast, queueVars
  <2>3. CASE back # 0
    <3>1. delivered' = [delivered EXCEPT ![r] = back]
      BY <2>1, <2>3, <1>7 DEF TakeLast
    <3>2. UNCHANGED <<back, next>>
      BY <1>7 DEF TakeLast, queueVars
    <3>3. back > 0
      BY <2>3, <1>0
    <3>4. Log!Latest(r)
      BY <3>1, <3>2, <3>3 DEF Log!Latest
    <3> QED BY <3>4 DEF Log!Next
  <2> QED BY <2>2, <2>3
<1>8. ASSUME NEW r \in Drainers, AskSkipped(r) PROVE UNCHANGED Log!logVars
  BY <1>8 DEF AskSkipped, queueVars
<1>9. CASE UNCHANGED vars
  BY <1>9 DEF vars, queueVars, readerVars
<1> QED
  BY <1>1, <1>2, <1>3, <1>4, <1>5, <1>6, <1>7, <1>8, <1>9
     DEF Next, Write, Drain, Sample, ReadMessage, Readers

\* The queue implements the message log, for every capacity and set of readers.
THEOREM Refinement == Spec => ImplementsLog
<1>1. Init /\ [][Next]_vars /\ []IInv => Log!Spec
  BY InitLog, StepLog, PTL DEF Log!Spec
<1> QED BY <1>1, Invariance, PTL DEF Spec, ImplementsLog

-----------------------------------------------------------------------------
\* However late the read comes after the answer, it passes over what it was told
\* and over no more besides than was written in between.
LEMMA TakeReports ==
  ASSUME IInv, NEW r \in Drainers, TakeMessage(r), askedAt[r] # NotAsked
  PROVE  LET passed == delivered'[r] - 1 - next[r] IN
           /\ 0 <= reported[r] /\ reported[r] <= passed
           /\ passed <= reported[r] + (back - askedAt[r])
<1>1. /\ r \in Readers /\ back \in Nat /\ next[r] \in Nat /\ next[r] < back
      /\ Front \in Nat /\ Front <= back /\ askedAt[r] \in Nat
  BY FrontType DEF IInv, TypeOK, Readers, TakeMessage
<1>2. Position(r) \in Front .. back - 1
  BY <1>1, SizeAssumption DEF Position, Front
<1>3. messages[Slot(Position(r))] = Position(r) + 1
  BY <1>2 DEF IInv, TakeMessage, WindowIntact
<1>4. delivered'[r] = Position(r) + 1
  BY <1>1, <1>3 DEF IInv, TypeOK, TakeMessage
<1>5. /\ next[r] <= askedAt[r] /\ askedAt[r] <= back
      /\ reported[r] = IF askedAt[r] - Size > next[r]
                       THEN askedAt[r] - Size - next[r] ELSE 0
  BY <1>1 DEF IInv, Told
<1>6. delivered'[r] - 1 - next[r] = IF back - Size > next[r] THEN back - Size - next[r] ELSE 0
  BY <1>1, <1>4, SizeAssumption DEF Position, Front
<1> QED BY <1>1, <1>5, <1>6, SizeAssumption

\* What GetNumMessagesSkipped reports bounds from below what the next read passes
\* over, and from above but for the messages written in between, for every
\* capacity, any number of writes and however far the reader is behind.
THEOREM SkipReport == Spec => SkipReportBounds
<1>1. IInv /\ [Next]_vars =>
        [\A r \in Drainers :
           TakeMessage(r) /\ askedAt[r] # NotAsked =>
             LET passed == delivered'[r] - 1 - next[r] IN
               /\ 0 <= reported[r] /\ reported[r] <= passed
               /\ passed <= reported[r] + (back - askedAt[r])]_vars
  BY TakeReports
<1> QED BY <1>1, Invariance, PTL DEF Spec, SkipReportBounds
=============================================================================
