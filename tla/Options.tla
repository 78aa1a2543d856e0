------------------------------ MODULE Options ------------------------------
(***************************************************************************)
(* The command line of scenarios 1 and 2: parse_cmdline_args applies one   *)
(* option after another to a struct config, and main decides from it       *)
(* whether to stop, to unload or to attach (common_params.c,               *)
(* af_xdp_user.c).                                                         *)
(*                                                                         *)
(* A name is a model value; what matters of it is whether it fits in its   *)
(* field.  xdp_flags and xsk_bind_flags are the sets of bits that are set. *)
(***************************************************************************)
EXTENDS SequencesExt, Integers

CONSTANTS
  Names,            \* arguments of --dev, --filename, --progsec, -L and -R
  Long,             \* those that do not fit in the field they are for
  Known,            \* the names of interfaces, with their indices
  MaxArgs           \* bound: options on the command line

\* No name: a field that is all zero.
NULL == ""

OptionsAssumption ==
  /\ NULL \notin Names /\ Long \subseteq Names /\ DOMAIN Known \subseteq Names \ Long
  /\ \A n \in DOMAIN Known : Known[n] \in Nat \ {0}
  /\ MaxArgs \in Nat

VARIABLES
  pc,               \* "parse", then "attach", "unload", "usage" or "overrun"
  cfg,              \* struct config
  given             \* history: the options applied, with their arguments

vars == <<pc, cfg, given>>

\* The fields that hold text, in the order of struct config.
TextFields == <<"filename", "progsec", "src_mac", "dest_mac">>
Modes == {"SKB", "DRV", "HW"}
QueueArgs == {"0", "1", "eth0"}

Init ==
  /\ pc = "parse" /\ given = <<>>
  /\ cfg = [xdp_flags |-> {}, xsk_bind_flags |-> {}, ifindex |-> -1, ifname |-> NULL,
            redirect_ifindex |-> 0, do_unload |-> FALSE, reuse_maps |-> FALSE,
            xsk_poll_mode |-> FALSE, verbose |-> TRUE, xsk_if_queue |-> 0,
            text |-> [f \in Range(TextFields) |-> IF f = "progsec" THEN "xdp_sock" ELSE NULL]]

IfNameToIndex(n) == IF n \in DOMAIN Known THEN Known[n] ELSE 0
\* atoi makes 0 of what is not a number.
Atoi(q) == IF q = "1" THEN 1 ELSE 0

\* What a reader of a text field gets: strncpy writes no terminator behind a
\* name that fills the field, so the string goes on into the next fields.
RunsOver(f) == cfg.text[f] \in Long
ReadText(i) ==
  LET last == SelectInSubSeq(TextFields, i, Len(TextFields), LAMBDA f : ~RunsOver(f))
      end == IF last = 0 THEN Len(TextFields) ELSE last
  IN  SelectSeq([k \in 1..(end - i + 1) |-> cfg.text[TextFields[i + k - 1]]], LAMBDA t : t # NULL)
-----------------------------------------------------------------------------
Parsing == pc = "parse" /\ Len(given) < MaxArgs
Given(o, a) == given' = Append(given, <<o, a>>)
Set(o, a, c) == Parsing /\ Given(o, a) /\ cfg' = c /\ UNCHANGED pc
Usage(o, a, c) == Parsing /\ Given(o, a) /\ cfg' = c /\ pc' = "usage"

\* -d and -r: a name that is too long is refused before it is copied, one
\* that is unknown after it.
Named(n) == [cfg EXCEPT !.ifname = n, !.ifindex = IfNameToIndex(n)]
Redirected(n) == [cfg EXCEPT !.redirect_ifindex = IfNameToIndex(n)]
DeviceTaken(o, n, c, index) ==
  IF n \in Long THEN Usage(o, n, cfg)
  ELSE IF index = 0 THEN Usage(o, n, c)
  ELSE Set(o, n, c)
dev(n) == DeviceTaken("d", n, Named(n), IfNameToIndex(n))
redirect_dev(n) == DeviceTaken("r", n, Redirected(n), IfNameToIndex(n))

\* -A, -S, -N and --offload-mode.
Cleared == cfg.xdp_flags \ Modes
auto_mode == Set("A", NULL, [cfg EXCEPT !.xdp_flags = Cleared])
native_mode == Set("N", NULL, [cfg EXCEPT !.xdp_flags = Cleared \union {"DRV"}])
offload_mode == Set("3", NULL, [cfg EXCEPT !.xdp_flags = Cleared \union {"HW"}])

\* -c and -z: "&= XDP_ZEROCOPY" keeps the bit that it looks as if it cleared.
Copying == (cfg.xsk_bind_flags \intersect {"ZEROCOPY"}) \union {"COPY"}
ZeroCopying == (cfg.xsk_bind_flags \intersect {"COPY"}) \union {"ZEROCOPY"}
skb_mode == Set("S", NULL, [cfg EXCEPT !.xdp_flags = Cleared \union {"SKB"}, !.xsk_bind_flags = Copying])
copy == Set("c", NULL, [cfg EXCEPT !.xsk_bind_flags = Copying])
zero_copy == Set("z", NULL, [cfg EXCEPT !.xsk_bind_flags = ZeroCopying])

force == Set("F", NULL, [cfg EXCEPT !.xdp_flags = @ \ {"UPDATE_IF_NOEXIST"}])
Switch == \/ Set("M", NULL, [cfg EXCEPT !.reuse_maps = TRUE])
          \/ Set("U", NULL, [cfg EXCEPT !.do_unload = TRUE])
          \/ Set("p", NULL, [cfg EXCEPT !.xsk_poll_mode = TRUE])
          \/ Set("q", NULL, [cfg EXCEPT !.verbose = FALSE])
queue(q) == Set("Q", q, [cfg EXCEPT !.xsk_if_queue = Atoi(q)])
Text(i, n) == Set(TextFields[i], n, [cfg EXCEPT !.text[TextFields[i]] = n])

\* -h, an unknown letter and a missing argument end in usage.  So does an
\* unknown long name, unless getopt_long reads past the end of the table:
\* option_wrappers_to_options copies it without its terminating entry.
help == Usage("h", NULL, cfg)
option_wrappers_to_options ==
  Parsing /\ Given("--", NULL) /\ pc' \in {"usage", "overrun"} /\ UNCHANGED cfg

\* main, after the last option.
Required == cfg.ifindex # -1
main ==
  /\ pc = "parse"
  /\ pc' = IF ~Required THEN "usage" ELSE IF cfg.do_unload THEN "unload" ELSE "attach"
  /\ UNCHANGED <<cfg, given>>

Done == pc # "parse" /\ UNCHANGED vars

Next ==
  \/ \E n \in Names : dev(n) \/ redirect_dev(n) \/ \E i \in 1..4 : Text(i, n)
  \/ auto_mode \/ skb_mode \/ native_mode \/ offload_mode
  \/ copy \/ zero_copy \/ force \/ Switch \/ \E q \in QueueArgs : queue(q)
  \/ help \/ option_wrappers_to_options \/ main \/ Done

Spec == Init /\ [][Next]_vars
-----------------------------------------------------------------------------
TypeOK ==
  /\ pc \in {"parse", "attach", "unload", "usage", "overrun"}
  /\ cfg.xdp_flags \subseteq Modes /\ cfg.xsk_bind_flags \subseteq {"COPY", "ZEROCOPY"}
  /\ cfg.ifindex \in Int /\ cfg.ifname \in Names \union {NULL}
  /\ \A f \in Range(TextFields) : cfg.text[f] \in Names \union {NULL, "xdp_sock"}
  /\ cfg.xsk_if_queue \in {0, 1} /\ Len(given) <= MaxArgs

\* The last option of a set that was given, with its argument.
LastOf(os) == LET i == SelectLastInSeq(given, LAMBDA g : g[1] \in os)
            IN  IF i = 0 THEN <<NULL, NULL>> ELSE given[i]
Goes == pc \in {"attach", "unload"}

\* The program is attached, or looked for to be unloaded, in the one mode that
\* the last of -A, -S, -N and --offload-mode names, whatever came before it
\* (common_params.c 128-144: each of them clears XDP_FLAGS_MODES first).
ModeIsLast ==
  LET m == LastOf({"A", "S", "N", "3"})[1]
  IN  cfg.xdp_flags = IF m = "S" THEN {"SKB"} ELSE IF m = "N" THEN {"DRV"}
                      ELSE IF m = "3" THEN {"HW"} ELSE {}

\* main goes on only with an interface that exists, the last one that --dev
\* named, under the same name and index: the socket is made by the name and
\* the program attached by the index (common_params.c 98-112,
\* af_xdp_user.c 516).
DeviceIsLast ==
  Goes => /\ cfg.ifindex > 0
          /\ <<"d", cfg.ifname>> = LastOf({"d"})
          /\ cfg.ifname \in DOMAIN Known /\ cfg.ifindex = Known[cfg.ifname]

\* In generic mode copy mode, the only one the kernel has for it, is asked for
\* whatever comes after -S.  After -S -z zero copy is asked for besides, and the
\* kernel refuses to bind both (common_params.c 131-136, 183-185).
GenericCopies == "SKB" \in cfg.xdp_flags => "COPY" \in cfg.xsk_bind_flags

\* --copy and --zero-copy each force one mode: never both bits, with which
\* the kernel refuses the bind (af_xdp_user.c 97-101).
OneBindMode == Goes => Cardinality(cfg.xsk_bind_flags) <= 1

\* Only --force replaces a program that is on the interface: without it the
\* attach asks for an interface with none (af_xdp_user.c 94-95).
ReplacesOnlyForced ==
  pc = "attach" => "UPDATE_IF_NOEXIST" \in cfg.xdp_flags \/ LastOf({"F"}) # <<NULL, NULL>>

\* The program is loaded from the file that --filename names
\* (af_xdp_user.c 115-116).
FileIsGiven ==
  pc = "attach" /\ LastOf({"filename"}) # <<NULL, NULL>> => ReadText(1) = <<LastOf({"filename"})[2]>>
=============================================================================
