------------------------- MODULE MCProgramExecutor -------------------------
(* Block programs for model checking ProgramExecutor. *)
EXTENDS ProgramExecutor

Do(kind, secs) == [kind |-> kind, secs |-> secs, loop |-> FALSE]
InLoop(kind) == [kind |-> kind, secs |-> 0, loop |-> TRUE]

Plain == Do("plain", 0)
Throw == Do("throw", 0)

Workspace(run, collision, stop, end) ==
    [e \in Events |-> CASE e = "run" -> run
                        [] e = "collision" -> collision
                        [] e = "stop" -> stop
                        [] e = "end" -> end]

(* Ordinary programs, with the commands that keep timers of their own, and *)
(* the two ways in which an exception escapes.                             *)
MixedWorkspaces == {
    Workspace(<<Plain, Do("turnTimed", 3), Plain>>, <<Plain, Do("stop", 0)>>,
              <<Do("stop", 0)>>, NoHandler),
    Workspace(<<Do("timedCalibrate", 2), Do("rollForwardTimed", 2), Do("wait", 2), Plain>>,
              NoHandler, NoHandler, NoHandler),
    Workspace(<<InLoop("plain"), InLoop("plain"), InLoop("plain")>>,
              <<InLoop("plain"), InLoop("plain")>>, NoHandler, NoHandler),
    Workspace(<<Plain, Do("badRGB", 0), Plain>>, <<Plain, Throw>>,
              <<Plain, Throw>>, <<Plain>>),
    Workspace(<<Plain, Throw>>, <<Plain>>, NoHandler, <<Throw>>) }

(* Every program of up to three commands, alone on screen. *)
AloneWorkspaces ==
    LET steps == {Plain, Do("stop", 0), Do("wait", 2), Do("turnTimed", 3),
                  Do("rollForwardTimed", 2), Do("timedCalibrate", 2)}
        programs == UNION {[1..n -> steps] : n \in 1..3}
    IN  {Workspace(p, NoHandler, NoHandler, NoHandler) : p \in programs}

(* The program of the finding. *)
CollisionWorkspaces == {
    Workspace(<<Do("wait", 2), Plain>>, <<Plain>>, NoHandler, NoHandler) }
=============================================================================
