------------------------------- MODULE Config -------------------------------
(***************************************************************************)
(* g_config (src/src/daemon/main.c): the defaults, the command line and    *)
(* the file, and is_path_excluded().  A setting is a key and its value; a  *)
(* path is a sequence of tokens that may be shorter than its components,   *)
(* <<"/", "run">> and <<"/", "run", "ner">>.                               *)
(***************************************************************************)
EXTENDS Integers, SequencesExt

CONSTANTS
    IntMax,   \* the largest int
    Missing   \* what stands for a file that does not exist

\* The C standard's least INT_MAX.
ASSUME ConfigAssumption == IntMax \in Nat /\ IntMax >= 32767

Defaults ==
    [ foreground |-> FALSE, do_scan |-> FALSE, learning_mode |-> 0,
      gui_timeout |-> 30000, default_deny |-> 1, monitor_shared_libs |-> 1,
      exclude_paths |-> {<<"/", "proc">>, <<"/", "sys">>, <<"/", "dev">>,
                         <<"/", "run">>},
      config_path |-> "lexec.conf" ]

\* The paths of the database and the socket and log_to_syslog are left out.
FileKeys == {"learning_mode", "gui_timeout", "default_deny",
             "monitor_shared_libs", "exclude_paths"}

ArgKeys == {"foreground", "do_scan", "learning_mode", "gui_timeout",
            "config_path"}

\* Mutant: the product is not an int.
MillisWide(s) == s * 1000

\* atoi(v) * 1000 in an int, as the machine wraps it.
Millis(s) == ((s * 1000 + IntMax + 1) % (2 * (IntMax + 1))) - (IntMax + 1)

Assign(conf, s) ==
    [conf EXCEPT ![s.key] = IF s.key = "gui_timeout" THEN Millis(s.val) ELSE s.val]

\* A later line overrides an earlier one, and unknown keys are skipped.
parse_config_file(conf, lines) ==
    IF lines = Missing
    THEN conf
    ELSE FoldLeft(LAMBDA c, s : IF s.key \in FileKeys THEN Assign(c, s) ELSE c,
                  conf, lines)

parse_args(conf, args) == FoldLeft(Assign, conf, args)

\* Mutant: the command line is not parsed again.
ConfigureOnce(args, files) ==
    LET first == parse_args(Defaults, args)
    IN  parse_config_file(first, files[first.config_path])

\* The first pass finds the file, the second overrides it.
Configure(args, files) ==
    LET first == parse_args(Defaults, args)
    IN  parse_args(parse_config_file(first, files[first.config_path]), args)

\* Mutant: strcmp() for strncmp().
ExcludedWhole(path, excludes) == path \in excludes

\* strncmp() over the length of the entry: no component boundary, and an entry
\* of blanks is trimmed to the empty prefix.
is_path_excluded(path, excludes) == \E x \in excludes : IsPrefix(x, path)

-----------------------------------------------------------------------------
(* What the passes are given and what their results are compared with.     *)

IsPath(p) == p \in Seq(Range(p))

\* optarg and the right-hand side of a line, as the fields of g_config have them.
AreSettings(seq) ==
    /\ Len(seq) \in Nat /\ DOMAIN seq = 1 .. Len(seq)
    /\ \A i \in DOMAIN seq :
          /\ seq[i].key = "gui_timeout" => seq[i].val \in Int
          /\ seq[i].key = "exclude_paths" => \A x \in seq[i].val : IsPath(x)

Given(seq, key) == \E i \in DOMAIN seq : seq[i].key = key

LastGiven(seq, key) ==
    seq[CHOOSE i \in DOMAIN seq :
            seq[i].key = key /\ \A j \in i + 1 .. Len(seq) : seq[j].key # key].val

Meaning(key, v) == IF key = "gui_timeout" THEN v * 1000 ELSE v

Fits(key, v) == key = "gui_timeout" => v \in 0 .. IntMax \div 1000

\* The path is the entry or lies below it.
Inside(path, entry) == path = entry \/ IsPrefix(entry \o <<"/">>, path)
=============================================================================
