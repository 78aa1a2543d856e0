------------------------------ MODULE FlowFile ------------------------------
(***************************************************************************)
(* The files the export thread writes flows to (flujos/src/export.c): a    *)
(* new one is opened when the clock of the packets enters another period   *)
(* of FLOW_FILE_DUR seconds of local time.  The export thread reads        *)
(* last_packet_timestamp, which the process thread and main write, twice   *)
(* in an iteration and without a lock.                                     *)
(*                                                                         *)
(* last_packet_timestamp is modelled by its second; current_second is a    *)
(* 64-bit unsigned and prev_second a 32-bit signed number in the code.     *)
(***************************************************************************)
EXTENDS Integers

CONSTANTS
  FLOW_FILE_DUR,   \* seconds in a period
  Offset,          \* offset_tz, seconds east of Greenwich
  Word64, Word32,  \* the moduli of uint64_t and of int32_t
  LastSecond,      \* the second of last_packet_timestamp = UINT64_MAX
  Start,           \* the wall-clock second at which the export thread starts
  Clock            \* the seconds packets may be stamped with

\* tm_gmtoff is kept in an int32_t.
PeriodAssumption ==
  /\ FLOW_FILE_DUR \in Nat \ {0}
  /\ Offset \in -(Word32 \div 2) .. Word32 \div 2 - 1
\* UINT64_MAX/US_IN_SEC is 18446744073709: far below 2^64, and 4154504685 modulo 2^32, so that
\* prev_second takes it, and what is some hours away from it, for a negative number.
WidthAssumption ==
  /\ Word32 \in Nat \ {0} /\ Word32 % 2 = 0 /\ Word64 \in Nat /\ Word64 % Word32 = 0
  /\ LastSecond \in Nat /\ LastSecond + Offset \in Word32 .. Word64 - Word32
  /\ (LastSecond + Offset) % Word32 >= Word32 \div 2
\* Packets come after the start, and before prev_second overflows in 2038.
ClockAssumption ==
  /\ Start \in Nat \ {0} /\ Start + Offset \in 0 .. Word32 \div 2 - 1
  /\ Clock \subseteq Nat /\ \A s \in Clock : s >= Start /\ s + Offset < Word32 \div 2

VARIABLES
  second,           \* last_packet_timestamp/US_IN_SEC; 0: no packet yet
  stop_et,
  file,             \* the period of local time that names the open file
  prev_second, current_second,
  pc,               \* where the export thread is
  main,             \* "run", "reset" after reset_flow_table, "stopped"
  shown,            \* periods the clock has shown (history)
  printed           \* the clock when the last record was written, 0 if the clock
                    \* has gone back since (history)

vars == <<second, stop_et, file, prev_second, current_second, pc, main, shown, printed>>

AsUint64(x) == x % Word64
AsInt32(x) == IF x % Word32 < Word32 \div 2 THEN x % Word32 ELSE (x % Word32) - Word32

\* C's division of a signed number.
Quotient(x, d) == IF x >= 0 THEN x \div d ELSE -((-x) \div d)

Period(s) == (s + Offset) \div FLOW_FILE_DUR

Init ==
  /\ second = 0 /\ stop_et = FALSE
  /\ file = Period(Start)
  /\ prev_second = 0 /\ current_second = 0
  /\ pc = "loop"
  /\ main = "run"
  /\ shown = {Period(Start)} /\ printed = 0
-----------------------------------------------------------------------------
(***************************************************************************)
(* The process thread and main.                                            *)
(***************************************************************************)
\* process_packet stamps the clock, which may go back.
process_packet(s) ==
  /\ main = "run"
  /\ second' = s
  /\ shown' = shown \cup {Period(s)}
  /\ printed' = IF s < second THEN 0 ELSE printed
  /\ UNCHANGED <<stop_et, file, prev_second, current_second, pc, main>>

\* capturaSenial, the process thread joined: reset_flow_table, then stop_et.
reset_flow_table ==
  /\ main = "run"
  /\ main' = "reset"
  /\ second' = LastSecond
  /\ UNCHANGED <<stop_et, file, prev_second, current_second, pc, shown, printed>>

Stop ==
  /\ main = "reset"
  /\ main' = "stopped"
  /\ stop_et' = TRUE
  /\ UNCHANGED <<second, file, prev_second, current_second, pc, shown, printed>>
-----------------------------------------------------------------------------
(***************************************************************************)
(* The export thread.                                                      *)
(***************************************************************************)
WhileTest ==
  /\ pc = "loop"
  /\ pc' = IF stop_et THEN "drain" ELSE "list"
  /\ UNCHANGED <<second, stop_et, file, prev_second, current_second, main, shown, printed>>

\* A flow waits in the expired list: its record goes to the open file.
export_data ==
  /\ pc = "list"
  /\ second # 0
  /\ printed' = second
  /\ pc' = "stamp"
  /\ UNCHANGED <<second, stop_et, file, prev_second, current_second, main, shown>>

NothingExpired ==
  /\ pc = "list"
  /\ pc' = "stamp"
  /\ UNCHANGED <<second, stop_et, file, prev_second, current_second, main, shown, printed>>

ReadClock ==
  /\ pc = "stamp"
  /\ current_second' = AsUint64(second + Offset)
  /\ pc' = "test"
  /\ UNCHANGED <<second, stop_et, file, prev_second, main, shown, printed>>

\* The second reading.  Its comparison with INFINITY is one with a floating-point
\* number no timestamp equals: only the one with 0 can fail.
LaterSecond == second # 0 /\ current_second > AsUint64(prev_second)
BugSamePeriodToo ==
  current_second \div FLOW_FILE_DUR >= AsUint64(Quotient(prev_second, FLOW_FILE_DUR))
NewPeriod ==
  current_second \div FLOW_FILE_DUR > AsUint64(Quotient(prev_second, FLOW_FILE_DUR))

SamePeriod ==
  /\ pc = "test"
  /\ ~ (LaterSecond /\ NewPeriod)
  /\ prev_second' = IF LaterSecond THEN AsInt32(current_second) ELSE prev_second
  /\ pc' = "loop"
  /\ UNCHANGED <<second, stop_et, file, current_second, main, shown, printed>>

NextFile == file' = current_second \div FLOW_FILE_DUR

Noted == prev_second' = AsInt32(current_second)

Rotate ==
  /\ pc = "test"
  /\ LaterSecond /\ NewPeriod
  /\ NextFile
  /\ Noted
  /\ pc' = "loop"
  /\ UNCHANGED <<second, stop_et, current_second, main, shown, printed>>

\* fopen fails: exit(-1) ends the process, whatever the other threads are doing.
RotateFails ==
  /\ pc = "test"
  /\ LaterSecond /\ NewPeriod
  /\ pc' = "exit"
  /\ main' = "exit"
  /\ UNCHANGED <<second, stop_et, file, prev_second, current_second, shown, printed>>

\* What is still in the expired list goes to the file that is open; it is closed.
Drain ==
  /\ pc = "drain"
  /\ pc' = "done"
  /\ printed' = second
  /\ UNCHANGED <<second, stop_et, file, prev_second, current_second, main, shown>>

Export == WhileTest \/ export_data \/ NothingExpired \/ ReadClock \/ SamePeriod \/ Rotate \/ Drain

Next == (\E s \in Clock : process_packet(s)) \/ reset_flow_table \/ Stop \/ Export \/ RotateFails

Spec == Init /\ [][Next]_vars

\* The export thread runs until it is told to stop.
FairSpec == Spec /\ WF_vars(Export)
-----------------------------------------------------------------------------
TypeOK ==
  /\ second \in Clock \cup {0, LastSecond} /\ stop_et \in BOOLEAN
  /\ file \in Nat /\ shown \subseteq Nat /\ printed \in Clock \cup {0, LastSecond}
  /\ prev_second \in -(Word32 \div 2) .. Word32 \div 2 - 1
  /\ current_second \in 0 .. Word64 - 1
  /\ pc \in {"loop", "list", "stamp", "test", "drain", "done", "exit"}
  /\ main \in {"run", "reset", "stopped", "exit"}

\* A record is never written more than one iteration behind the clock: the file open
\* when one is written is at least as late as the period in which the record before
\* it was written, unless the clock has gone back since, because exportThread looks
\* at the clock after every record.
AtMostOneLate == pc = "list" /\ printed # 0 => file >= Period(printed)

\* What the first reading makes of a clock that no packet has set: the second reading lets
\* it pass if a first packet comes between the two.
Unset == AsUint64(Offset)

\* The files of flows only move forward: exportThread never goes back to a file it has
\* closed, whichever of its two readings of the clock it acts on, unless no packet had come
\* at the first.
GoesForward == file' >= file \/ current_second = Unset

\* Each period gets its file at most once: a rotation always changes the file, except
\* the first one after a packet, which may open the wall clock's file again (a
\* packet between the two readings of exportThread leaves Offset in prev_second).
OpensAnother == Rotate /\ prev_second \notin {0, Offset} => file' # file

\* A file is opened only for a period that packets, or the wall clock, have shown, unless
\* the first packet came between the two readings or main has reset the clock.
NamedByClock ==
  \/ file \in shown
  \/ file = Unset \div FLOW_FILE_DUR /\ second # 0
  \/ second = LastSecond

\* While the clock stays in one second and no one stops the monitor, the export
\* thread ends up in the file of that second, or in a later one if the clock has
\* gone back.
Behind(s) == second = s /\ main = "run" /\ file < Period(s)
FollowsClock == \A s \in Clock : []<>~ Behind(s)

\* A file is opened only for a period the clock of the packets has shown: what the
\* test of last_packet_timestamp in exportThread is there for.
OnlyShownPeriods == file \in shown
=============================================================================
