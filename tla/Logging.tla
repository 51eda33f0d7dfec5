-------------------------------- MODULE Logging --------------------------------
(***************************************************************************)
(* muan/queues/queue_manager, muan/logging and the data page of            *)
(* muan/webdash: threads fetch queues, which registers them with the       *)
(* logger and the dashboard; the logger's thread writes what their writers *)
(* sent to the files of a directory that is new at every start.            *)
(*                                                                         *)
(* The power of a robot is cut at any time: what was not flushed is on the *)
(* disk or is lost.  An append to the list of logs is taken to be atomic,  *)
(* and one that an update does not see is seen by the next.                *)
(*                                                                         *)
(* A line of a queue's file is what it is of: a header, or the row of a    *)
(* message with the index in front.  ProtoText has their texts.            *)
(***************************************************************************)
EXTENDS Integers, SequencesExt

CONSTANTS
  Queues,    \* the queues that are held, each of a message type of its own
  Sent,      \* the messages that its writers send, in order
  Texts,     \* how many lines of text are logged (a bound)
  Size,      \* how many messages a queue keeps
  Media,     \* where logs can be put, in order of preference; the last is always there
  Boots      \* how often the robot is switched on (a bound)

ASSUME LoggingAssumption == "text" \notin Queues /\ {Size, Boots} \subseteq Nat \ {0}

VARIABLES
  logs,        \* queue_logs_: the queues there are, in the order of their creation
  written,     \* how many messages each queue was sent
  said,        \* how many lines of text were logged
  update,      \* the logger's Update: [at, upTo, index], the log it is at and how many it has
  next,        \* next_message_ of the logger's readers
  headerDue,   \* write_header of the logs
  nextText,    \* the logger's position among the lines of text
  buffer,      \* lines written and not flushed, by file
  directory,   \* base_path_
  disk,        \* the lines on the disk, by directory and file
  boots        \* how often the robot was switched on

queueVars == <<written, said>>
readerVars == <<update, next, headerDue, nextText>>
diskVars == <<directory, disk, boots>>
loggingVars == <<logs, queueVars, readerVars, buffer, diskVars>>

Files == Queues \cup {"text"}
NoLines == [f \in Files |-> <<>>]
Idle == [at |-> 0, upTo |-> 0, index |-> -1]

FirstPresent(present) ==
  LET There(i) == Media[i] \in present \cup {Last(Media)}
  IN  Media[CHOOSE i \in DOMAIN Media : There(i) /\ \A j \in 1 .. i - 1 : ~There(j)]

\* Mutant: the directory of an earlier start is used again.
SameDirectory(present, taken) == <<FirstPresent(present), 0>>

\* DetermineBasePath: the first number that is free on the first medium there is.
FreshDirectory(present, taken) ==
  LET Free(n) == <<FirstPresent(present), n>> \notin taken
  IN  <<FirstPresent(present),
        CHOOSE n \in 0 .. Boots : Free(n) /\ \A k \in 0 .. n - 1 : ~Free(k)>>

Sticks == SUBSET ToSet(SubSeq(Media, 1, Len(Media) - 1))

\* The first start is without a stick.
LoggingInit ==
  /\ logs = <<>>
  /\ written = [q \in Queues |-> 0] /\ said = 0
  /\ update = Idle /\ nextText = 0
  /\ next = [q \in Queues |-> 0] /\ headerDue = [q \in Queues |-> TRUE]
  /\ buffer = NoLines
  /\ directory = FreshDirectory({}, {})
  /\ disk = [d \in {directory} |-> NoLines] /\ boots = 1

-----------------------------------------------------------------------------
\* QueueManager::Fetch of a queue that there is not yet: it is made, and the dashboard and
\* the logger each get a reader of it.  The lock makes this one step for threads that want
\* the same queue, and a fetch of a queue that there is changes nothing.
Fetch(q) ==
  /\ q \notin ToSet(logs)
  /\ logs' = Append(logs, q)
  /\ UNCHANGED <<queueVars, readerVars, buffer, diskVars>>

-----------------------------------------------------------------------------
(* Whoever has a queue writes to it, and every thread logs text.            *)

WriteMessage(q) ==
  /\ q \in ToSet(logs) /\ written[q] < Len(Sent[q])
  /\ written' = [written EXCEPT ![q] = @ + 1]
  /\ UNCHANGED <<logs, said, readerVars, buffer, diskVars>>

LogText ==
  /\ said < Texts /\ said' = said + 1
  /\ UNCHANGED <<logs, written, readerVars, buffer, diskVars>>

-----------------------------------------------------------------------------
(* Logger::Update.  It goes over the logs that were there at its beginning. *)

BeginUpdate ==
  /\ update.at = 0 /\ update' = [at |-> 1, upTo |-> Len(logs), index |-> -1]
  /\ UNCHANGED <<logs, queueVars, next, headerDue, nextText, buffer, diskVars>>

Oldest(q) == IF written[q] > Size THEN written[q] - Size ELSE 0
Coerced(q) == IF next[q] < Oldest(q) THEN Oldest(q) ELSE next[q]

InQueues == update.at \in 1 .. update.upTo
Log == logs[update.at]

\* GetMessageAsCSV asks for the index of the next message, and reads it in another step.
GetNextMessageIndex ==
  /\ InQueues /\ update.index = -1 /\ update' = [update EXCEPT !.index = Coerced(Log)]

AskIndex ==
  /\ GetNextMessageIndex
  /\ UNCHANGED <<logs, queueVars, next, headerDue, nextText, buffer, diskVars>>

Header == [kind |-> "header"]
Row(position, index) == [kind |-> "row", at |-> position, index |-> index]

LogMessage ==
  /\ InQueues /\ update.index # -1 /\ next[Log] < written[Log]
  /\ next' = [next EXCEPT ![Log] = Coerced(Log) + 1]
  /\ LET row == Row(Coerced(Log), update.index) IN
     buffer' = [buffer EXCEPT ![Log] = @ \o (IF headerDue[Log] THEN <<Header, row>> ELSE <<row>>)]
  /\ headerDue' = [headerDue EXCEPT ![Log] = FALSE]
  /\ update' = [update EXCEPT !.index = -1]
  /\ UNCHANGED <<logs, queueVars, nextText, diskVars>>

NothingNew ==
  /\ InQueues /\ update.index # -1 /\ next[Log] >= written[Log]
  /\ update' = [update EXCEPT !.at = @ + 1, !.index = -1]
  /\ UNCHANGED <<logs, queueVars, next, headerDue, nextText, buffer, diskVars>>

AfterQueues == update.at > update.upTo

LogLine ==
  /\ AfterQueues /\ nextText < said
  /\ nextText' = nextText + 1
  /\ buffer' = [buffer EXCEPT !["text"] = Append(@, [kind |-> "text", at |-> nextText])]
  /\ UNCHANGED <<logs, queueVars, update, next, headerDue, diskVars>>

\* What the disk has when the first n(f) lines of a file's buffer have come to it.
Flushed(n) == [disk EXCEPT ![directory] = [f \in Files |-> @[f] \o SubSeq(buffer[f], 1, n[f])]]

\* Mutant: files are flushed in an update that had text to write.
FlushAfterText ==
  IF buffer["text"] = <<>> THEN UNCHANGED <<disk, buffer>>
  ELSE disk' = Flushed([f \in Files |-> Len(buffer[f])]) /\ buffer' = NoLines

FlushAllFiles == disk' = Flushed([f \in Files |-> Len(buffer[f])]) /\ buffer' = NoLines

EndUpdate ==
  /\ AfterQueues /\ nextText >= said
  /\ FlushAllFiles /\ update' = Idle
  /\ UNCHANGED <<logs, queueVars, next, headerDue, nextText, directory, boots>>

LoggerUpdate == BeginUpdate \/ AskIndex \/ LogMessage \/ NothingNew \/ LogLine \/ EndUpdate

-----------------------------------------------------------------------------
\* The power is cut and comes back; a stick may have been put in or taken out.
PowerCycle ==
  /\ boots < Boots /\ boots' = boots + 1
  /\ \E kept \in SUBSET Files, present \in Sticks :
       /\ directory' = FreshDirectory(present, DOMAIN disk)
       /\ LET flushed == Flushed([f \in Files |-> IF f \in kept THEN Len(buffer[f]) ELSE 0])
          IN  disk' = [d \in DOMAIN disk \cup {directory'} |->
                         IF d \in DOMAIN disk THEN flushed[d] ELSE NoLines]
  /\ logs' = <<>>
  /\ written' = [q \in Queues |-> 0] /\ said' = 0
  /\ update' = Idle /\ nextText' = 0
  /\ next' = [q \in Queues |-> 0] /\ headerDue' = [q \in Queues |-> TRUE]
  /\ buffer' = NoLines

LoggingNext ==
  \/ \E q \in Queues : Fetch(q) \/ WriteMessage(q)
  \/ LogText \/ LoggerUpdate \/ PowerCycle

\* The logger's thread goes on.
LoggingFairness == WF_loggingVars(LoggerUpdate)

LoggingSpec == LoggingInit /\ [][LoggingNext]_loggingVars /\ LoggingFairness

-----------------------------------------------------------------------------
(* Properties.                                                              *)

\* A file of a queue is a table: a header first and once, then rows in the order of their
\* messages, each of them once.  The index in a row is later than the message before it,
\* and no later than its own.
IsTable(lines) ==
  \A i \in 1 .. Len(lines) :
    /\ (lines[i].kind = "header") <=> (i = 1)
    /\ i > 1 => lines[i].index <= lines[i].at
    /\ i > 2 => lines[i].index > lines[i - 1].at

\* Every file of a queue in every directory is one, whatever was lost in between.
FilesAreTables == \A d \in DOMAIN disk, q \in Queues : IsTable(disk[d][q])

\* The robot stays on and everything was sent; the rows of what was sent last are on the disk.
AllSent == boots = Boots /\ \A q \in Queues : written[q] = Len(Sent[q])
RowsOnDisk(q) == {line \in ToSet(disk[directory][q]) : line.kind = "row"}
LastOnDisk ==
  \A q \in {k \in Queues : Sent[k] # <<>>} : \E row \in RowsOnDisk(q) : row.at = Len(Sent[q]) - 1
=============================================================================
