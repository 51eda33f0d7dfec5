----------------------------- MODULE MessageLog -----------------------------
(***************************************************************************)
(* What a muan::queues::MessageQueue promises the threads that share it,   *)
(* without its ring buffer and its lock: an ever growing log of messages   *)
(* that every reader follows on its own, of which only the last Size       *)
(* messages are kept.  Message number n is the n-th message written, so a  *)
(* log is the number of messages in it.  MessageQueue.tla implements it.   *)
(***************************************************************************)
EXTENDS Integers

CONSTANTS Size,      \* how many of the newest messages are kept
          Drainers,  \* readers that call ReadMessage
          Samplers   \* readers that call ReadLastMessage

Readers == Drainers \cup Samplers

VARIABLES log,        \* number of messages written so far
          cursor,     \* per reader, how many messages it has read or passed over
          delivered   \* per reader, the number of the message it was last given (0: none)

logVars == <<log, cursor, delivered>>

\* The number of messages no longer kept.
Dropped == IF log > Size THEN log - Size ELSE 0

Init == /\ log = 0
        /\ cursor = [r \in Readers |-> 0]
        /\ delivered = [r \in Readers |-> 0]

Write == /\ log' = log + 1
         /\ UNCHANGED <<cursor, delivered>>

\* A new reader starts at the oldest message kept.
Join(r) == /\ cursor' = [cursor EXCEPT ![r] = Dropped]
           /\ UNCHANGED <<log, delivered>>

\* A reader is given its next message; it passes over only what was dropped.
Read(r) == /\ cursor[r] < log
           /\ LET n == IF cursor[r] < Dropped THEN Dropped ELSE cursor[r] IN
                /\ delivered' = [delivered EXCEPT ![r] = n + 1]
                /\ cursor' = [cursor EXCEPT ![r] = n + 1]
           /\ UNCHANGED log

\* Reading the last message first gives up everything written before ...
PassOver(r) == /\ cursor' = [cursor EXCEPT ![r] = log]
               /\ UNCHANGED <<log, delivered>>

\* ... and then yields the newest message, which may be one already seen.
Latest(r) == /\ log > 0
             /\ delivered' = [delivered EXCEPT ![r] = log]
             /\ UNCHANGED <<log, cursor>>

Next == \/ Write
        \/ \E r \in Readers : Join(r)
        \/ \E r \in Drainers : Read(r)
        \/ \E r \in Samplers : PassOver(r) \/ Latest(r)

Spec == Init /\ [][Next]_logVars
=============================================================================
