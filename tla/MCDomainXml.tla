---------------------------- MODULE MCDomainXml ----------------------------
(***************************************************************************)
(* Argument lists that between them use every feature and every kind of    *)
(* template, and a small command line: console=tty0 is text inside         *)
(* console=tty0,115200, root=/dev/vda1 inside root=/dev/vda15, and ro      *)
(* inside every root field.                                                *)
(***************************************************************************)
EXTENDS DomainXml, TLC

McOptions ==
    {Defaults,
     [Defaults EXCEPT !.vmtype = "td_sb", !.distro = "centos", !.diskfile = TRUE,
                   !.has_vtpm = TRUE, !.hugepath = TRUE],
     [Defaults EXCEPT !.cmdline = "own", !.hugepages = TRUE, !.hugepath = TRUE,
                   !.vsock = TRUE, !.has_vtpm = TRUE, !.boot = "grub"],
     [Defaults EXCEPT !.vmtype = "sgx", !.epc = TRUE, !.driver = TRUE, !.kernel = FALSE],
     [Defaults EXCEPT !.vmtype = "sgx"],
     [Defaults EXCEPT !.vmtype = "legacy_perf", !.distro = "centos", !.cmdline = "own",
                   !.cpu_ids = "several", !.mem_numa = TRUE, !.mwait = TRUE],
     [Defaults EXCEPT !.vmtype = "efi", !.hugepages = TRUE, !.hugesize = FALSE],
     [Defaults EXCEPT !.vmtype = "td_perf", !.cpu_ids = "one", !.cmdline = "own"],
     [Defaults EXCEPT !.distro = "centos", !.kernel = FALSE]}

McFields == {"rw", "ro", "console=tty0", "console=tty0,115200", "rest",
             "root=/dev/vda1", "root=/dev/vda3", "root=/dev/vda15"}
McKeyOf == [f \in McFields |->
                CASE f \in {"console=tty0", "console=tty0,115200"} -> "console"
                  [] f \in {"root=/dev/vda1", "root=/dev/vda3", "root=/dev/vda15"} -> "root"
                  [] OTHER -> f]
McInside == {<<"console=tty0", "console=tty0,115200">>,
             <<"root=/dev/vda1", "root=/dev/vda15">>,
             <<"ro", "root=/dev/vda1">>, <<"ro", "root=/dev/vda3">>,
             <<"ro", "root=/dev/vda15">>}
McDefault == <<"rw", "console=tty0">>
McRootOf == [ubuntu |-> "root=/dev/vda1", centos |-> "root=/dev/vda3"]
McEdits == {<<"add_field", "root=/dev/vda15">>, <<"add_field_from_string", "ro">>,
            <<"iadd", <<"rw", "console=tty0,115200">> >>,
            <<"remove_field_from_string", "console=tty0">>,
            <<"remove_fields", "root">>}

\* Nothing tells one guest from another.
McSymmetry == Permutations(Guests)

=============================================================================
