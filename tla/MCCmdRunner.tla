---------------------------- MODULE MCCmdRunner ----------------------------
(* Instances of CmdRunner: the commands.                                   *)
EXTENDS CmdRunner

Command(out, err, ends, shell) == [out |-> out, err |-> err, ends |-> ends, shell |-> shell]

\* One that fills the pipe of stdout; one that never ends and may fill that of
\* stderr; one that a shell runs.
Ordinary == {Command(3, 1, TRUE, FALSE), Command(1, 2, FALSE, FALSE), Command(2, 1, TRUE, TRUE)}

\* stderr may fill its pipe, as that of ssh -v does.
Loud == {Command(1, 2, TRUE, FALSE)}
=============================================================================
