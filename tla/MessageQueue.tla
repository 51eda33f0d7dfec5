---------------------------- MODULE MessageQueue ----------------------------
(***************************************************************************)
(* muan/queues: the ring buffer through which the robot's threads exchange *)
(* goals, statuses, inputs and outputs, and its QueueReaders.              *)
(*                                                                         *)
(* queue_lock_ serialises WriteMessage, NextMessage and the queue's own    *)
(* ReadLastMessage.  The reader's ReadLastMessage, MakeReader and Reset    *)
(* touch back_ without it, so a write is two steps (store the message,     *)
(* advance back_) and the reader's ReadLastMessage is two steps (sample    *)
(* back_, then the locked read): other threads run in between.  So they    *)
(* may between GetNumMessagesSkipped, which takes the lock for itself, and *)
(* the read that its caller goes on to.                                    *)
(*                                                                         *)
(* A message is represented by the number of the write that produced it,   *)
(* so order, loss and duplication are visible.                             *)
(***************************************************************************)
EXTENDS Integers

CONSTANTS Size,       \* capacity of the ring buffer (size_)
          Drainers,   \* readers whose owner calls ReadMessage in a loop
          Samplers,   \* readers whose owner calls ReadLastMessage
          MaxWrites,  \* bound on the number of writes
          MaxResets   \* bound on the number of Resets (the tests call it, the robot does not)

ASSUME SizeAssumption == Size \in Nat \ {0}
ASSUME BoundAssumption == MaxWrites \in Nat /\ MaxResets \in Nat

Readers == Drainers \cup Samplers

VARIABLES
  messages,   \* messages_: the slots
  back,       \* back_: absolute position of the next write
  midWrite,   \* a writer holds queue_lock_ and has stored its message, not yet advanced back_
  loaded,     \* the value of back_ that this writer has used
  next,       \* next_message_ of every reader
  pc,         \* "unborn" | "idle" | "sampled" (inside the reader's ReadLastMessage)
  written,    \* history: number of messages written, the newest message's number
  delivered,  \* history: number of the message each reader was last given (0: none)
  reported,   \* what GetNumMessagesSkipped told the reader before its next read
  askedAt,    \* history: back_ when it was told that, NotAsked after a read
  resets      \* history: number of Resets

queueVars == <<messages, back, midWrite, loaded, written>>
askVars == <<reported, askedAt>>
readerVars == <<next, pc, delivered, askVars>>
vars == <<queueVars, readerVars, resets>>

Slots == 0 .. Size - 1
Slot(position) == position % Size

\* What a slot holds before its first write: a default-constructed message.
Unwritten == -1

NotAsked == -1

\* Mutant: front() keeps one message more than the buffer has slots.
FrontTooOld == IF back > Size THEN back - Size - 1 ELSE 0

\* front(back): position of the oldest message still kept.
Front == IF back > Size THEN back - Size ELSE 0

Init ==
  /\ messages = [s \in Slots |-> Unwritten]
  /\ back = 0 /\ midWrite = FALSE /\ loaded = 0
  /\ next = [r \in Readers |-> 0]
  /\ pc = [r \in Readers |-> "unborn"]
  /\ written = 0 /\ resets = 0
  /\ delivered = [r \in Readers |-> 0]
  /\ reported = [r \in Readers |-> 0]
  /\ askedAt = [r \in Readers |-> NotAsked]

-----------------------------------------------------------------------------
(* The writers.  Which thread writes does not matter: the lock makes them   *)
(* one at a time.                                                           *)

StoreMessage ==
  /\ ~midWrite
  /\ written < MaxWrites
  /\ messages' = [messages EXCEPT ![Slot(back)] = written + 1]
  /\ written' = written + 1
  /\ midWrite' = TRUE
  /\ loaded' = back
  /\ UNCHANGED <<back, readerVars, resets>>

\* back_++ races with an unlocked Reset: it increments the value it finds, or
\* the one already loaded.
AdvanceBack ==
  /\ midWrite
  /\ \E b \in {back, loaded} : back' = b + 1
  /\ midWrite' = FALSE
  /\ UNCHANGED <<messages, loaded, written, readerVars, resets>>

Reset ==
  /\ resets < MaxResets
  /\ back' = 0
  /\ resets' = resets + 1
  /\ UNCHANGED <<messages, midWrite, loaded, written, readerVars>>

-----------------------------------------------------------------------------
(* The readers.                                                             *)

MakeReader(r) ==
  /\ pc[r] = "unborn"
  /\ next' = [next EXCEPT ![r] = Front]
  /\ pc' = [pc EXCEPT ![r] = "idle"]
  /\ UNCHANGED <<queueVars, delivered, askVars, resets>>

\* Mutant: only the end of the queue bounds the index.
CoerceToBackOnly(n) == IF n >= back THEN back ELSE n

\* coerce_valid_message_index, by itself under the lock.
CoerceIndex(n) == LET m == IF n >= back THEN back ELSE n
                  IN  IF m < Front THEN Front ELSE m

\* GetNumMessagesSkipped: the lock is given back before the caller reads.
AskSkipped(r) ==
  /\ ~midWrite
  /\ pc[r] = "idle"
  /\ reported' = [reported EXCEPT ![r] = CoerceIndex(next[r]) - next[r]]
  /\ askedAt' = [askedAt EXCEPT ![r] = back]
  /\ UNCHANGED <<queueVars, next, pc, delivered, resets>>

\* Any read uses the answer up.
ForgetAnswer(r) ==
  /\ reported' = [reported EXCEPT ![r] = 0]
  /\ askedAt' = [askedAt EXCEPT ![r] = NotAsked]

\* NextMessage with the reader at or past the end: it is moved to the end.
NothingNew(r) ==
  /\ ~midWrite
  /\ pc[r] = "idle"
  /\ next[r] >= back
  /\ next' = [next EXCEPT ![r] = back]
  /\ ForgetAnswer(r)
  /\ UNCHANGED <<queueVars, pc, delivered, resets>>

\* The position NextMessage reads: messages that were overwritten are skipped.
Position(r) == IF next[r] < Front THEN Front ELSE next[r]

\* Mutant: NextMessage without queue_lock_.
TakeUnlocked(r) ==
  /\ pc[r] = "idle" /\ next[r] < back
  /\ delivered' = [delivered EXCEPT ![r] = messages[Slot(Position(r))]]
  /\ next' = [next EXCEPT ![r] = Position(r) + 1]
  /\ ForgetAnswer(r)
  /\ UNCHANGED <<queueVars, pc, resets>>

\* Mutant: the position is not advanced.
TakeWithoutAdvance(r) ==
  /\ ~midWrite /\ pc[r] = "idle" /\ next[r] < back
  /\ delivered' = [delivered EXCEPT ![r] = messages[Slot(Position(r))]]
  /\ next' = [next EXCEPT ![r] = Position(r)]
  /\ ForgetAnswer(r)
  /\ UNCHANGED <<queueVars, pc, resets>>

TakeMessage(r) ==
  /\ ~midWrite
  /\ pc[r] = "idle"
  /\ next[r] < back
  /\ delivered' = [delivered EXCEPT ![r] = messages[Slot(Position(r))]]
  /\ next' = [next EXCEPT ![r] = Position(r) + 1]
  /\ ForgetAnswer(r)
  /\ UNCHANGED <<queueVars, pc, resets>>

ReadMessage(r) == NothingNew(r) \/ TakeMessage(r)

\* QueueReader::ReadLastMessage, first half: back_ is read without the lock.
SampleBack(r) ==
  /\ pc[r] = "idle"
  /\ next' = [next EXCEPT ![r] = back]
  /\ pc' = [pc EXCEPT ![r] = "sampled"]
  /\ ForgetAnswer(r)
  /\ UNCHANGED <<queueVars, delivered, resets>>

\* Second half, under the lock: false only if nothing was ever written.
TakeLast(r) ==
  /\ ~midWrite
  /\ pc[r] = "sampled"
  /\ pc' = [pc EXCEPT ![r] = "idle"]
  /\ delivered' = IF back = 0
                  THEN delivered
                  ELSE [delivered EXCEPT ![r] = messages[Slot(back - 1)]]
  /\ UNCHANGED <<queueVars, next, askVars, resets>>

-----------------------------------------------------------------------------
Write == StoreMessage \/ AdvanceBack
Drain(r) == MakeReader(r) \/ AskSkipped(r) \/ ReadMessage(r)
Sample(r) == MakeReader(r) \/ SampleBack(r) \/ TakeLast(r)

Next == \/ Write
        \/ \E r \in Drainers : Drain(r)
        \/ \E r \in Samplers : Sample(r)

\* The robot's threads.  A reader's owner runs in a periodic loop, and a writer
\* that holds the lock gives it back; nobody has to write or to create a reader.
Fairness ==
  /\ WF_vars(AdvanceBack)
  /\ \A r \in Drainers : WF_vars(ReadMessage(r))
  /\ \A r \in Samplers : WF_vars(SampleBack(r)) /\ WF_vars(TakeLast(r))

Spec == Init /\ [][Next]_vars /\ Fairness

\* With the unlocked Reset the tests call.
ResetSpec == Init /\ [][Next \/ Reset]_vars

-----------------------------------------------------------------------------
(* Properties.                                                              *)

Message == Nat \cup {Unwritten}

\* Type invariant.  A reader's history never shows the content of a slot that
\* nobody has written: front() and back_ keep reads inside the written part.
TypeOK ==
  /\ messages \in [Slots -> Message]
  /\ back \in Nat /\ loaded \in Nat
  /\ midWrite \in BOOLEAN
  /\ next \in [Readers -> Nat]
  /\ pc \in [Readers -> {"unborn", "idle", "sampled"}]
  /\ written \in Nat /\ resets \in Nat
  /\ delivered \in [Readers -> Nat]
  /\ reported \in [Readers -> Int]
  /\ askedAt \in [Readers -> Nat \cup {NotAsked}]

\* The slots between front() and back_ hold the last Size messages, in order.
\* While a write is in progress the oldest of them is already overwritten:
\* only the lock keeps readers from it.
WindowIntact ==
  \A p \in Front .. back - 1 :
    ~(midWrite /\ p + Size = back) => messages[Slot(p)] = p + 1

\* Refinement: with its lock and its ring buffer the queue is the message log,
\* seen by every reader through a window of the last Size messages: no message
\* is corrupted, reordered or repeated, and none is skipped that is still kept.
Log == INSTANCE MessageLog WITH log <- back, cursor <- next
ImplementsLog == Log!Spec

\* What GetNumMessagesSkipped says is a lower bound of what the read that
\* follows passes over, never a number wrapped around below zero, and it falls
\* short by no more than the messages written between the two: with none
\* written it is exact.
SkipReportBounds ==
  [][\A r \in Drainers :
       TakeMessage(r) /\ askedAt[r] # NotAsked =>
         LET passed == delivered'[r] - 1 - next[r] IN
           /\ 0 <= reported[r] /\ reported[r] <= passed
           /\ passed <= reported[r] + (back - askedAt[r])]_vars

\* A reader that runs its loop gets to every message or to a later one, however
\* far behind it falls and whenever it was created.
EveryReaderCatchesUp ==
  \A r \in Readers : \A n \in 1 .. MaxWrites :
    (back >= n /\ pc[r] # "unborn") ~> delivered[r] >= n

\* message_queue.h on the reader's ReadLastMessage: "Also marks all previous
\* messages as read", so no later ReadMessage returns one of them or repeats it.
LastMarksPreviousRead ==
  [][\A r \in Readers : TakeMessage(r) => delivered'[r] > delivered[r]]_vars
=============================================================================
