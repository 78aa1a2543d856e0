--------------------------- MODULE MCFlowMonitor ---------------------------
(***************************************************************************)
(* Small instances of FlowMonitor.  A second has two ticks and a flow      *)
(* expires after one second: a flow last seen at the start of a second is  *)
(* expired at the end of the next, after the cleanup of that second has    *)
(* spared it, which is what makes insertFlow meet an expired flow.         *)
(***************************************************************************)
EXTENDS FlowMonitor

CONSTANTS
  a, b, x, y,
  MaxTick      \* bound on the clock

MCBuckets == {x, y}
SameBucket == [k \in Keys |-> x]
TwoBuckets == (a :> x) @@ (b :> y)

FirstTick == UsInSec
MaxStep == 4                    \* longest silence between two packets
MCClock == FirstTick .. MaxTick

\* A clock that never goes back; and one that may show anything at any time.
Forward == [now \in MCClock \cup {0, Infinity} |->
              {t \in MCClock : IF now = 0 THEN t <= FirstTick + 1
                                          ELSE now <= t /\ t <= now + MaxStep}]
\* Whatever a clock that never goes back shows is what Orderly asks for.
ASSUME ForwardIsOrderly == Step = Forward => Orderly

Wild == [now \in MCClock \cup {0, Infinity} |-> MCClock]
=============================================================================
