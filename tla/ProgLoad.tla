------------------------------ MODULE ProgLoad ------------------------------
(***************************************************************************)
(* bpf_program__load, load_program and bpf_load_program_xattr: the         *)
(* instances of a program given to the verifier, again with the records    *)
(* it does not understand cut short, again with a log, again with a larger *)
(* log, and once more as a kprobe to find out whether its type was wrong.  *)
(***************************************************************************)
EXTENDS Integers, Sequences, FiniteSets

CONSTANTS
  Nr,           \* instances.nr, 1 when no preprocessor is set
  Prep,         \* whether a preprocessor is set
  LogLevels,    \* values of prog->log_level
  KProbes,      \* whether prog->type is BPF_PROG_TYPE_KPROBE: values
  FirstLog,     \* BPF_LOG_BUF_SIZE
  LogLimit,     \* largest log that the kernel takes
  Needs,        \* log sizes that a verification may need
  RecSize,      \* size of the func_info and line_info records of the object
  KRecSizes,    \* sizes the kernel may know
  NoMemory      \* whether malloc may fail

ProgLoadAssumption ==
  /\ {Nr, FirstLog, RecSize} \subseteq Nat \ {0} /\ LogLimit \in Nat /\ Needs \subseteq Nat
  /\ LogLevels \subseteq Nat /\ KRecSizes \subseteq Nat /\ KProbes \cup {Prep, NoMemory} \subseteq BOOLEAN
  /\ ~ Prep => Nr = 1

VARIABLES
  step, i,      \* where the call is, and the instance it is at
  insns,        \* prog->insns is there
  fds,          \* prog->instances.fds
  open,         \* descriptors of the process
  prog,         \* prog->log_level, and whether prog->type is BPF_PROG_TYPE_KPROBE
  log_size, log_buf,    \* log_buf: "none", "garbage", "empty" or "written"
  attr,         \* what the kernel is given: type, log level and whether records are cut
  told,         \* the record sizes in attr, where the kernel leaves a hint
  errno, ret,
  kernel        \* its view of this instance: whether it has BPF_MAXINSNS instructions or more,
                \* verdict, log it needs, sizes and tails of records

vars == <<step, i, insns, fds, open, prog, log_size, log_buf, attr, told, errno, ret, kernel>>

Kinds == {"func", "line"}
Verdicts == {"ok", "reject", "denied", "type", "large"}
Views ==
  {v \in [big : BOOLEAN, verdict : Verdicts, need : Needs, rec : [Kinds -> KRecSizes], tail : SUBSET Kinds] :
     v.verdict = "large" => v.big}
NoView == [big |-> FALSE, verdict |-> "ok", need |-> 0, rec |-> [k \in Kinds |-> RecSize], tail |-> {}]
NoAttr == [type |-> "own", level |-> 0, cut |-> {}]
SameSizes == [k \in Kinds |-> RecSize]

Init ==
  /\ step = "idle" /\ i = 1 /\ insns = TRUE /\ open = {}
  /\ fds = [n \in 1 .. Nr |-> -1]
  /\ prog \in [log_level : LogLevels, kprobe : KProbes] /\ log_size = FirstLog /\ log_buf = "none"
  /\ attr = NoAttr /\ told = SameSizes /\ errno = "0" /\ ret = "0"
  /\ kernel = NoView

Fresh == CHOOSE d \in 1 .. Nr + 2 : d \notin open

\* bpf_program__load.  Once loaded the instructions are gone; a preprocessor, which might
\* give others, is not asked twice.
Load ==
  /\ step = "idle" /\ (Prep => insns)
  /\ step' = "instance" /\ i' = 1 /\ ret' = "0"
  /\ UNCHANGED <<insns, fds, open, prog, log_size, log_buf, attr, told, errno, kernel>>

\* The preprocessor fails, leaves this instance out, or gives instructions.
Instance ==
  /\ step = "instance" /\ i <= Nr
  /\ \/ /\ Prep /\ step' = "out" /\ ret' = "prep"
        /\ UNCHANGED <<i, fds>>
     \/ /\ Prep /\ fds' = [fds EXCEPT ![i] = -1]
        /\ i' = i + 1 /\ UNCHANGED <<step, ret>>
     \/ /\ ~ Prep /\ ~ insns
        /\ step' = "out" /\ ret' = "EINVAL" /\ UNCHANGED <<i, fds>>
     \/ /\ Prep \/ insns
        /\ step' = "alloc" /\ UNCHANGED <<i, fds, ret>>
  /\ IF step' = "alloc" THEN kernel' \in Views ELSE kernel' = NoView
  /\ log_size' = FirstLog
  /\ UNCHANGED <<insns, open, prog, log_buf, attr, told, errno>>

Out ==
  /\ step = "out" \/ (step = "instance" /\ i > Nr)
  /\ step' = "idle" /\ i' = 1 /\ insns' = FALSE
  /\ log_buf' = "none" /\ attr' = NoAttr /\ told' = SameSizes /\ kernel' = NoView
  /\ UNCHANGED <<fds, open, prog, log_size, errno, ret>>
-----------------------------------------------------------------------------
\* load_program: the log buffer.
Alloc ==
  /\ step = "alloc"
  /\ \/ log_buf' = "garbage" /\ UNCHANGED errno
     \/ NoMemory /\ log_buf' = "none" /\ errno' = "ENOMEM"
  /\ step' = "xattr"
  /\ UNCHANGED <<i, insns, fds, open, prog, log_size, attr, told, ret, kernel>>

\* bpf_load_program_xattr: a size without a buffer, or a level without one, is refused.
Xattr ==
  /\ step = "xattr"
  /\ IF log_buf = "none" /\ (attr.type = "own" \/ prog.log_level > 0)
     THEN step' = "failed" /\ UNCHANGED <<attr, told>>
     ELSE /\ step' = "try" /\ told' = SameSizes
          /\ attr' = [attr EXCEPT !.level = prog.log_level, !.cut = {}]
  /\ UNCHANGED <<i, insns, fds, open, prog, log_size, log_buf, errno, ret, kernel>>

\* The kernel's answer.  EAGAIN is asked again at once.  A program that is too large for this
\* kernel is refused with the error of unknown records, before the verifier has a log.
Unknown == {k \in Kinds : kernel.rec[k] < RecSize /\ k \in kernel.tail \ attr.cut}
FirstOf(S) == IF "func" \in S THEN "func" ELSE "line"
Logs == attr.level > 0
Answer ==
  IF kernel.verdict = "large" THEN "E2BIG"
  ELSE IF Logs /\ log_size > LogLimit THEN "EINVAL"
  ELSE IF kernel.verdict = "denied" THEN "EPERM"
  ELSE IF kernel.verdict = "type" /\ attr.type = "own" THEN "EINVAL"
  ELSE IF Unknown # {} THEN "E2BIG"
  ELSE IF Logs /\ log_size < kernel.need THEN "ENOSPC"
  ELSE IF kernel.verdict = "reject" THEN "EACCES"
  ELSE "fd"
Hints == Answer = "E2BIG" /\ kernel.verdict # "large"
Writes == Logs /\ (Hints \/ Answer \in {"ENOSPC", "EACCES"})

\* The hint of E2BIG is taken once for each kind; what the kernel does not know is zeroed.
Hint(sizes, k) == k \notin attr.cut /\ sizes[k] < RecSize

BugOneKind(sizes) == IF attr.cut = {} THEN {k \in Kinds : Hint(sizes, k)} ELSE {}
Corrects(sizes) == {k \in Kinds : Hint(sizes, k)}

Again == [attr EXCEPT !.level = 1]

RetryWithLog ==
  /\ step' = "try" /\ attr' = Again /\ log_buf' = "empty"

Try ==
  /\ step = "try"
  /\ LET sizes == IF Hints THEN [told EXCEPT ![FirstOf(Unknown)] = kernel.rec[FirstOf(Unknown)]] ELSE told
         logged == IF Writes THEN "written" ELSE log_buf IN
     \/ /\ Answer = "fd"
        /\ step' = "loaded" /\ open' = open \cup {Fresh}
        /\ UNCHANGED <<attr, told, log_buf, errno>>
     \/ /\ Hints /\ Corrects(sizes) # {}
        /\ attr' = [attr EXCEPT !.cut = @ \cup {FirstOf(Corrects(sizes))}]
        /\ told' = [sizes EXCEPT ![FirstOf(Corrects(sizes))] = RecSize]
        /\ log_buf' = logged /\ errno' = Answer /\ UNCHANGED <<step, open>>
     \/ /\ Hints /\ Corrects(sizes) # {} /\ NoMemory      \* alloc_zero_tailing_info fails
        /\ step' = "failed" /\ log_buf' = logged /\ errno' = "ENOMEM" /\ UNCHANGED <<attr, told, open>>
     \/ /\ Answer # "fd" /\ (Hints => Corrects(sizes) = {})
        /\ IF attr.level > 0 \/ log_buf = "none"
           THEN step' = "failed" /\ log_buf' = logged /\ UNCHANGED attr
           ELSE RetryWithLog
        /\ errno' = Answer /\ UNCHANGED <<told, open>>
  /\ UNCHANGED <<i, insns, fds, prog, log_size, ret, kernel>>
-----------------------------------------------------------------------------
\* Back in load_program.
LoadedFd == CHOOSE d \in open : \A n \in 1 .. Nr : fds[n] # d

\* A program that loads as a kprobe only has the wrong type.
ProbeLoaded ==
  /\ step' = "out" /\ ret' = "PROGTYPE" /\ open' = open \ {LoadedFd} /\ UNCHANGED <<fds, i>>

Loaded ==
  /\ step = "loaded"
  /\ IF attr.type = "own"
     THEN /\ fds' = [fds EXCEPT ![i] = LoadedFd]
          /\ i' = i + 1 /\ step' = "instance" /\ UNCHANGED <<open, ret>>
     ELSE ProbeLoaded
  /\ attr' = NoAttr /\ log_buf' = "none"
  /\ UNCHANGED <<insns, prog, log_size, told, errno, kernel>>

Larger == 2 * log_size

\* An error with no log to show: PROG2BIG for a program of BPF_MAXINSNS instructions or more,
\* whatever the error was; the error itself for a kprobe; else a trial as a kprobe, without a log.
FailedSilently ==
  /\ IF kernel.big THEN step' = "out" /\ ret' = "PROG2BIG"
     ELSE ret' = errno /\ step' = IF prog.kprobe THEN "out" ELSE "xattr"
  /\ attr' = IF step' = "out" THEN attr ELSE [NoAttr EXCEPT !.type = "kprobe"]
  /\ log_buf' = "none" /\ UNCHANGED log_size

Failed ==
  /\ step = "failed"
  /\ IF attr.type = "kprobe"
     THEN step' = "out" /\ log_buf' = "none" /\ attr' = NoAttr /\ UNCHANGED <<ret, log_size>>
     ELSE IF errno = "ENOSPC"
     THEN step' = "alloc" /\ log_size' = Larger /\ log_buf' = "none" /\ attr' = NoAttr /\ UNCHANGED ret
     ELSE \/ log_buf \in {"written", "garbage"}                       \* log_buf[0] != '\0'
             /\ step' = "out" /\ ret' = "VERIFY" /\ UNCHANGED <<log_size, attr, log_buf>>
          \/ log_buf # "written" /\ FailedSilently
  /\ UNCHANGED <<i, insns, fds, open, prog, told, errno, kernel>>
-----------------------------------------------------------------------------
Call == Instance \/ Out \/ Alloc \/ Xattr \/ Try \/ Loaded \/ Failed
Next == Load \/ Call
Spec == Init /\ [][Next]_vars /\ WF_vars(Call)
-----------------------------------------------------------------------------
TypeOK ==
  /\ step \in {"idle", "instance", "alloc", "xattr", "try", "loaded", "failed", "out"}
  /\ i \in 1 .. Nr + 1 /\ open \subseteq 1 .. Nr + 2 /\ log_size \in 1 .. 2 * LogLimit
  /\ log_buf \in {"none", "garbage", "empty", "written"} /\ attr.cut \subseteq Kinds

\* The process holds the descriptors that instances.fds tells and no other: none is lost to
\* a second load, an instance that fails, or the trial as a kprobe.
FdsHeld == step = "idle" => open = {fds[n] : n \in {m \in 1 .. Nr : fds[m] # -1}}

Ends(call) == step # "out" /\ call = "out"

\* A program that the verifier accepts is loaded, also by a kernel that knows shorter
\* records than the object has, and also when a log is asked for.
FailsForReason ==
  Ends(step') /\ ret' \notin {"prep"} /\ insns => kernel.verdict # "ok" \/ kernel.need > LogLimit
AcceptedIsLoaded == [][FailsForReason]_vars

\* What the caller is told is what happened: VERIFY that the verifier refused the program,
\* PROGTYPE that its type is wrong, PROG2BIG that it is too large, otherwise the kernel's own
\* error.  As far as the code goes: PROG2BIG is also told of any error without a log when the
\* program is big; a kprobe, and a program whose log level is set, is not tried as a kprobe and
\* gets EINVAL for its type; and with a log level set what malloc gave may pass for a log.
\* While there is memory: an allocation that fails has errors of its own (WithoutLog).
Why ==
  CASE kernel.verdict = "reject" -> "VERIFY"
    [] kernel.verdict \in {"type", "denied", "large"} /\ kernel.big -> "PROG2BIG"
    [] kernel.verdict = "type" /\ ~ kernel.big -> IF prog.kprobe \/ prog.log_level > 0 THEN "EINVAL" ELSE "PROGTYPE"
    [] kernel.verdict = "denied" /\ ~ kernel.big -> "EPERM"
    [] OTHER -> "none"
TellsWhy ==
  Ends(step') /\ ret' # "prep" /\ insns /\ kernel.need <= LogLimit =>
    ret' = Why \/ (prog.log_level > 0 /\ ret' = "VERIFY" /\ Why # "none")
VerdictTold == [][TellsWhy]_vars

\* The calls with ever larger logs come to an end.
LoadEnds == (step # "idle") ~> (step = "idle")

\* libbpf.h: "Program too big".
BigIsLarge == [][Ends(step') /\ ret' = "PROG2BIG" => kernel.verdict = "large"]_vars

\* libbpf.h: "Kernel verifier blocks program loading".
VerifyBlocks == [][Ends(step') /\ ret' = "VERIFY" => kernel.verdict = "reject"]_vars

\* libbpf.c: "Alloc log buffer for bpf loader error, continue without log".
WithoutLog == [][Ends(step') /\ ret' # "prep" /\ insns /\ log_size = FirstLog => kernel.verdict # "ok"]_vars
=============================================================================
