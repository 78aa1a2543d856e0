------------------------------ MODULE ErrorLog ------------------------------
(***************************************************************************)
(* logErrorCount (log.c): of the errors of one type only some are shown,   *)
(* so that a fault that repeats itself does not fill the log.              *)
(***************************************************************************)
EXTENDS Integers

CONSTANTS
  MESSAGE_COUNT_LIMIT,
  NUM_ERROR_TYPES,
  Errors,           \* the error numbers callers pass
  MaxErrors         \* bound: errors of each type

LogAssumption ==
  /\ MESSAGE_COUNT_LIMIT \in Nat /\ MESSAGE_COUNT_LIMIT > 2
  /\ NUM_ERROR_TYPES \in Nat /\ Errors \subseteq Nat /\ MaxErrors \in Nat

VARIABLES
  message_count,
  happened, shown   \* history: errors of each type, and those in the log

vars == <<message_count, happened, shown>>

Types == 0..(NUM_ERROR_TYPES - 1)
None == [t \in Errors |-> 0]
Init == /\ message_count = [t \in Types |-> 0] /\ happened = None /\ shown = None

BugShows(e) == message_count[e] >= MESSAGE_COUNT_LIMIT
Shows(e) == message_count[e] = 0 \/ message_count[e] >= MESSAGE_COUNT_LIMIT
\* The count is set to 1 when the message is shown, and goes up in any case.
CountAfter(e) == (IF Shows(e) THEN 1 ELSE message_count[e]) + 1

logErrorCount(e) ==
  /\ happened[e] < MaxErrors
  /\ happened' = [happened EXCEPT ![e] = @ + 1]
  /\ IF e < NUM_ERROR_TYPES
     THEN /\ message_count' = [message_count EXCEPT ![e] = CountAfter(e)]
          /\ shown' = [shown EXCEPT ![e] = IF Shows(e) THEN @ + 1 ELSE @]
     ELSE UNCHANGED <<message_count, shown>>

Next == \E e \in Errors : logErrorCount(e)
Spec == Init /\ [][Next]_vars
-----------------------------------------------------------------------------
\* A fault is heard of and does not fill the log, whatever errors of other types
\* come between (log.c 145-146): the first error of a type is shown, no
\* MESSAGE_COUNT_LIMIT of them in a row are silent, and those that are shown are
\* half of that apart or more.  That they are that far apart is not so: see
\* LimitBetween.  An error of no type is never shown.
Throttled ==
  \A e \in Errors :
     IF e \in Types
     THEN /\ happened[e] <= MESSAGE_COUNT_LIMIT * shown[e]
          /\ MESSAGE_COUNT_LIMIT * (shown[e] - 1) <= 2 * happened[e]
     ELSE shown[e] = 0

\* log.h 4: MESSAGE_COUNT_LIMIT errors of a type come before another one is shown.
\* The code shows one after MESSAGE_COUNT_LIMIT - 1, as the count starts at 1 with
\* the error that is shown.
LimitBetween ==
  \A e \in Errors : shown[e] <= 1 + (happened[e] \div MESSAGE_COUNT_LIMIT)
=============================================================================
