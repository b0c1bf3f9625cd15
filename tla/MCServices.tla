----------------------------- MODULE MCServices ------------------------------
(* Small instances of ServiceKinds.                                         *)
EXTENDS ServiceKinds

CONSTANTS p1, p2, tcp, path

\* The shell protocol without and with a terminal, and a plain service; descendants
\* that ignore SIGHUP, and some that let go of the output.
FewCommands ==
    {[v2 |-> TRUE,  pty |-> FALSE, deaf |-> {"shell", "job"}, quiet |-> TRUE],
     [v2 |-> TRUE,  pty |-> TRUE,  deaf |-> {"job"},          quiet |-> FALSE],
     [v2 |-> FALSE, pty |-> FALSE, deaf |-> {},               quiet |-> FALSE]}

\* A command that leaves a descendant behind which ignores SIGHUP.
Daemons == {[v2 |-> TRUE, pty |-> FALSE, deaf |-> {"job"}, quiet |-> TRUE]}
=============================================================================
