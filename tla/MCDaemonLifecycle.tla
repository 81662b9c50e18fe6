------------------------- MODULE MCDaemonLifecycle -------------------------
(* Two instances, three command lines and two files; /bin is excluded by one *)
(* of them, whose entry is also the beginning of /binary, and which does not *)
(* intercept opens.  The 16-bit int makes 40 seconds overflow.               *)
EXTENDS DaemonLifecycle

Option(k, v) == [key |-> k, val |-> v]

MCCommandLines ==
    { << Option("gui_timeout", 40), Option("learning_mode", 1),
         Option("config_path", "none") >>,
      << Option("foreground", TRUE), Option("do_scan", TRUE) >>,
      << Option("foreground", TRUE), Option("do_scan", TRUE),
         Option("config_path", "local.conf"), Option("gui_timeout", 5) >> }

Proc == <<"/", "proc">>
Opt == <<"/", "opt">>
Bin == <<"/", "bin">>
Binary == <<"/", "bin", "ary">>

MCFiles ==
    [ p \in {"lexec.conf", "local.conf", "none"} |->
        CASE p = "lexec.conf" ->
               << Option("gui_timeout", 20),
                  Option("exclude_paths", {Proc \o <<"/">>, Opt \o <<"/">>}),
                  Option("scan_paths", {Bin}), Option("gui_timeout", 10) >>
          [] p = "local.conf" ->
               << Option("gui_timeout", 20), Option("monitor_shared_libs", 0),
                  Option("exclude_paths", {Proc, Bin}) >>
          [] OTHER -> Missing ]

MCScanDirs == {Bin, Opt}

Entry(dir, name, kind, x, elf, hash) ==
    [dir |-> dir, path |-> dir \o <<"/", name>>, kind |-> kind, x |-> x,
     elf |-> elf, hash |-> hash]

MCEntries ==
    { Entry(Bin, "lib.so", "file", FALSE, TRUE, "h_lib"),
      Entry(Opt, "app", "dir", TRUE, FALSE, "h_none"),
      Entry(Opt \o <<"/", "app">>, "run", "file", TRUE, TRUE, "h_run"),
      Entry(Binary, "tool", "file", TRUE, TRUE, "h_tool") }
=============================================================================
