----------------------------- MODULE CmdRunner -----------------------------
(***************************************************************************)
(* NativeCmdRunner and SSHCmdRunner (cmdrunner.py): the calling thread, the *)
(* runner thread and the child process, joined by two pipes of limited     *)
(* size.  A line of output is the unit that is written and read.           *)
(***************************************************************************)
EXTENDS Naturals

CONSTANTS
  PipeCap,    \* lines a pipe holds before its writer blocks
  Commands    \* what may be run: bounds on the lines it writes to each stream,
              \* whether it ends by itself, and whether a shell runs it

Streams == {"out", "err"}

ASSUME CmdAssumption ==
  /\ PipeCap \in Nat \ {0}
  /\ Commands \subseteq [out : Nat, err : Nat, ends : BOOLEAN, shell : BOOLEAN]

VARIABLES
  command,    \* self._cmdarr and self._shell
  caller,     \* the thread that owns the runner
  returned,   \* what runwait() returned
  killer,     \* the thread that calls terminate()
  runner,     \* the runner thread
  isTerminate,\* self._is_terminate
  process,    \* self._process is set
  returncode, \* self._process.returncode
  retcode,    \* self._retcode
  raised,     \* history: an exception has ended _execute
  lines,      \* lines[s]: number of lines in self._stdout, self._stderr
  child,      \* the child: not there, alive, its files closed, a zombie
  heirs,      \* processes that a shell left behind have the pipes open
  code,       \* the status the child ends with
  want,       \* the stream the child, or who is left of it, is writing to
  wrote, pipe \* lines written to a stream, and still in its pipe

callVars  == <<command, caller, returned, killer, isTerminate>>
runVars   == <<runner, process, returncode, retcode, raised, lines>>
childVars == <<child, heirs, code, want, wrote, pipe>>
vars      == <<callVars, runVars, childVars>>

Codes == {"ok", "err", "kill", "pipe"}

TypeOK ==
  /\ command \in Commands /\ raised \in BOOLEAN /\ heirs \in BOOLEAN
  /\ caller \in {"new", "started", "join", "returned"}
  /\ returned \in Codes \cup {"none"}
  /\ killer \in {"idle", "flagged", "done"}
  /\ runner \in {"new", "popen", "assign", "loop", "readOut", "readErr", "poll",
                 "retcode", "close", "wait", "done"}
  /\ isTerminate \in BOOLEAN /\ process \in BOOLEAN
  /\ returncode \in Codes \cup {"none"} /\ retcode \in Codes \cup {"none"}
  /\ child \in {"none", "alive", "closed", "zombie"} /\ code \in Codes \cup {"none"}
  /\ want \in Streams \cup {"none"}
  /\ lines \in [Streams -> Nat] /\ wrote \in [Streams -> Nat]
  /\ pipe \in [Streams -> 0..PipeCap]

Init ==
  /\ command \in Commands /\ raised = FALSE /\ heirs = FALSE
  /\ caller = "new" /\ returned = "none" /\ killer = "idle"
  /\ runner = "new" /\ isTerminate = FALSE /\ process = FALSE
  /\ returncode = "none" /\ retcode = "none"
  /\ child = "none" /\ code = "none" /\ want = "none"
  /\ lines = [s \in Streams |-> 0]
  /\ wrote = [s \in Streams |-> 0] /\ pipe = [s \in Streams |-> 0]

-----------------------------------------------------------------------------
(* The callers                                                             *)

\* runwait() starts the thread and joins it; runnowait() only starts it.
Run(wait) ==
  /\ caller = "new"
  /\ caller' = IF wait THEN "join" ELSE "started"
  /\ runner' = "popen"
  /\ UNCHANGED <<command, returned, killer, isTerminate, process, returncode, retcode,
                 raised, lines, childVars>>

Joined ==
  /\ caller = "join" /\ runner = "done"
  /\ caller' = "returned" /\ returned' = retcode
  /\ UNCHANGED <<command, killer, isTerminate, runVars, childVars>>

\* terminate(): the flag first, the process afterwards.
Terminate ==
  /\ killer = "idle" /\ caller # "new"
  /\ killer' = "flagged" /\ isTerminate' = TRUE
  /\ UNCHANGED <<command, caller, returned, runVars, childVars>>

\* Processes that a shell has started are not the child's concern: they go on when
\* it ends, with its ends of the pipes.
MayLeave == IF command.shell THEN BOOLEAN ELSE {FALSE}

\* Popen.kill() polls first: it reaps a dead child, and signals a live one.
Kill ==
  /\ killer = "flagged" /\ killer' = "done"
  /\ IF process /\ returncode = "none"
     THEN IF child = "zombie"
          THEN returncode' = code /\ UNCHANGED <<child, heirs, code, want>>
          ELSE /\ child' = "closed"
               /\ IF child = "alive" THEN code' = "kill" /\ heirs' \in MayLeave /\ want' = "none"
                  ELSE UNCHANGED <<heirs, code, want>>
               /\ UNCHANGED returncode
     ELSE UNCHANGED <<returncode, child, heirs, code, want>>
  /\ UNCHANGED <<command, caller, returned, isTerminate, runner, process, retcode, raised,
                 lines, wrote, pipe>>

-----------------------------------------------------------------------------
(* NativeCmdRunner._execute                                                *)

\* subprocess.Popen(...) returns with the child running.
Popen ==
  /\ runner = "popen"
  /\ runner' = "assign" /\ child' = "alive"
  /\ UNCHANGED <<callVars, process, returncode, retcode, raised, lines, heirs, code, want,
                 wrote, pipe>>

\* ... or raises, as for a program that is not there, and so ends the thread.
PopenRaises ==
  /\ runner = "popen"
  /\ runner' = "done" /\ raised' = TRUE
  /\ UNCHANGED <<callVars, process, returncode, retcode, lines, childVars>>

\* ... as self._process
AssignProcess ==
  /\ runner = "assign"
  /\ runner' = "loop" /\ process' = TRUE
  /\ UNCHANGED <<callVars, returncode, retcode, raised, lines, childVars>>

\* Mutant: a child killed by a signal is not taken for ended.
LoopTestMissesSignals ==
  /\ runner = "loop"
  /\ runner' = IF returncode \notin {"ok", "err"} THEN "readOut" ELSE "retcode"
  /\ UNCHANGED <<callVars, process, returncode, retcode, raised, lines, childVars>>

LoopTest ==
  /\ runner = "loop"
  /\ runner' = IF returncode = "none" /\ ~isTerminate THEN "readOut" ELSE "retcode"
  /\ UNCHANGED <<callVars, process, returncode, retcode, raised, lines, childVars>>

\* Nobody has the writing ends of the pipes any more.
AtEnd == child \in {"closed", "zombie"} /\ ~heirs

\* Mutant: a line is taken whether or not there is one.
ReadStreamBlindly(s, next) ==
  /\ \/ /\ pipe' = [pipe EXCEPT ![s] = @ - 1]
        /\ lines' = [lines EXCEPT ![s] = @ + 1]
        /\ UNCHANGED runner
     \/ /\ pipe[s] = 0 /\ AtEnd
        /\ runner' = next
        /\ UNCHANGED <<pipe, lines>>
  /\ UNCHANGED <<callVars, process, returncode, retcode, raised, child, heirs, code, want, wrote>>

\* for line in stream: a line if there is one, the end once nobody can write any
\* more, and otherwise the thread blocks.
ReadStream(s, next) ==
  /\ \/ /\ pipe[s] > 0
        /\ pipe' = [pipe EXCEPT ![s] = @ - 1]
        /\ lines' = [lines EXCEPT ![s] = @ + 1]
        /\ UNCHANGED runner
     \/ /\ pipe[s] = 0 /\ AtEnd
        /\ runner' = next
        /\ UNCHANGED <<pipe, lines>>
  /\ UNCHANGED <<callVars, process, returncode, retcode, raised, child, heirs, code, want, wrote>>

\* A line that cannot be decoded raises; the with statement is left.
ReadRaises ==
  /\ \/ runner = "readOut" /\ pipe["out"] > 0
     \/ runner = "readErr" /\ pipe["err"] > 0
  /\ runner' = "close" /\ raised' = TRUE
  /\ UNCHANGED <<callVars, process, returncode, retcode, lines, childVars>>

\* Mutant: stderr is not drained before the child is polled.
ReadOutOnly == runner = "readOut" /\ ReadStream("out", "poll")

ReadOut == runner = "readOut" /\ ReadStream("out", "readErr")

ReadErr == runner = "readErr" /\ ReadStream("err", "poll")

\* Mutant: one poll after the end of the output, and no loop.
PollOnce ==
  /\ runner = "poll"
  /\ runner' = "retcode"
  /\ returncode' = IF child = "zombie" THEN code ELSE returncode
  /\ UNCHANGED <<callVars, process, retcode, raised, lines, childVars>>

\* Mutant: the loop tests a returncode nobody refreshes.
PollForgotten ==
  /\ runner = "poll"
  /\ runner' = "loop"
  /\ UNCHANGED <<callVars, process, returncode, retcode, raised, lines, childVars>>

Poll ==
  /\ runner = "poll"
  /\ runner' = "loop"
  /\ returncode' = IF child = "zombie" THEN code ELSE returncode
  /\ UNCHANGED <<callVars, process, retcode, raised, lines, childVars>>

SetRetcode ==
  /\ runner = "retcode"
  /\ runner' = "close" /\ retcode' = returncode
  /\ UNCHANGED <<callVars, process, returncode, raised, lines, childVars>>

\* Popen.__exit__: close our ends of the pipes, then wait for the child.
ClosePipes ==
  /\ runner = "close"
  /\ runner' = "wait" /\ pipe' = [s \in Streams |-> 0]
  /\ UNCHANGED <<callVars, process, returncode, retcode, raised, lines, child, heirs, code,
                 want, wrote>>

WaitChild ==
  /\ runner = "wait" /\ child = "zombie"
  /\ runner' = "done" /\ returncode' = code
  /\ UNCHANGED <<callVars, process, retcode, raised, lines, childVars>>

-----------------------------------------------------------------------------
(* The child                                                               *)

PipesOpen == runner \notin {"wait", "done"}

ChildBeginsWrite(s) ==
  /\ (child = "alive" \/ heirs) /\ want = "none" /\ wrote[s] < command[s]
  /\ want' = s
  /\ UNCHANGED <<callVars, runVars, child, heirs, code, wrote, pipe>>

\* A write blocks while the pipe is full, and kills a writer nobody reads.
ChildWrites ==
  /\ want # "none"
  /\ \/ /\ PipesOpen /\ pipe[want] < PipeCap
        /\ pipe' = [pipe EXCEPT ![want] = @ + 1]
        /\ wrote' = [wrote EXCEPT ![want] = @ + 1]
        /\ UNCHANGED <<child, heirs, code>>
     \/ /\ ~PipesOpen
        /\ IF heirs THEN heirs' = FALSE /\ UNCHANGED <<child, code>>
           ELSE child' = "closed" /\ code' = "pipe" /\ heirs' \in MayLeave
        /\ UNCHANGED <<pipe, wrote>>
  /\ want' = "none"
  /\ UNCHANGED <<callVars, runVars>>

ChildExits ==
  /\ command.ends /\ child = "alive" /\ want = "none"
  /\ child' = "closed" /\ heirs' \in MayLeave
  /\ \E c \in {"ok", "err"} : code' = c
  /\ UNCHANGED <<callVars, runVars, want, wrote, pipe>>

HeirsExit ==
  /\ command.ends /\ heirs /\ want = "none"
  /\ heirs' = FALSE
  /\ UNCHANGED <<callVars, runVars, child, code, want, wrote, pipe>>

ChildDies ==
  /\ child = "closed" /\ child' = "zombie"
  /\ UNCHANGED <<callVars, runVars, heirs, code, want, wrote, pipe>>

-----------------------------------------------------------------------------
Runner == \/ Popen \/ PopenRaises \/ AssignProcess \/ LoopTest
          \/ ReadOut \/ ReadErr \/ ReadRaises \/ Poll \/ SetRetcode \/ ClosePipes \/ WaitChild

Child == \/ \E s \in Streams : ChildBeginsWrite(s)
         \/ ChildWrites \/ ChildExits \/ HeirsExit \/ ChildDies

Callers == (\E wait \in BOOLEAN : Run(wait)) \/ Joined \/ Terminate \/ Kill

Next == Runner \/ Child \/ Callers

\* Threads and child are scheduled; nobody is obliged to call, nor the child
\* to write.
Fairness == /\ WF_vars(Runner) /\ WF_vars(Joined) /\ WF_vars(Kill)
            /\ WF_vars(ChildWrites) /\ WF_vars(ChildExits)
            /\ WF_vars(HeirsExit) /\ WF_vars(ChildDies)

Spec == Init /\ [][Next]_vars /\ Fairness

-----------------------------------------------------------------------------
(* Properties                                                              *)

\* A status that runwait() returns is the one the child has ended with, terminated
\* or not, and never one of a child that goes on.  Without a terminate() it is the
\* command's own; None says that _execute has raised, and says it always.
RetcodeIsExitStatus ==
  caller = "returned" =>
    /\ returned # "none" => child = "zombie" /\ returned = code
    /\ ~isTerminate => IF raised THEN returned = "none" ELSE returned \in {"ok", "err"}

\* Unless _execute has raised or somebody has called terminate(), all that the
\* command wrote to either stream has been collected when the runner ends, also
\* what the processes wrote that a shell has left behind.
OutputComplete == runner = "done" /\ ~isTerminate /\ ~raised => lines = wrote

\* A command that ends, and whose errors fit the pipe, is run to its end.
Completes ==
  runner = "popen" /\ command.ends /\ command.err <= PipeCap ~> runner = "done"

\* terminate() ends the runner thread, even if the child is blocked on a full pipe:
\* when it finds the process, also if the child would never end, unless a shell
\* has left others with the pipes; when it comes too early to find it, the child
\* has to end by itself or to write to the pipes that are then closed.
KillEndsRunner ==
  /\ isTerminate /\ runner # "new" /\ command.ends /\ ~command.shell ~> runner = "done"
  /\ code = "kill" /\ ~heirs ~> runner = "done"

-----------------------------------------------------------------------------
(* The inductive invariant                                                 *)

\* What is known of the child: when it exists, when it has a status, and
\* that a returncode is only ever the status of a dead child.
ChildInv ==
  /\ child = "none" <=> runner \in {"new", "popen"} \/ (raised /\ ~process)
  /\ child \in {"none", "alive"} <=> code = "none"
  /\ child \in {"none", "alive"} => ~heirs
  /\ want # "none" => child = "alive" \/ heirs
  /\ runner = "new" <=> caller = "new"
  /\ process <=> child # "none" /\ runner # "assign"
  /\ raised => runner \in {"close", "wait", "done"}
  /\ returncode # "none" => child = "zombie" /\ returncode = code
  /\ retcode # "none" =>
       child = "zombie" /\ retcode = code /\ runner \in {"close", "wait", "done"}
  /\ caller = "returned" => runner = "done" /\ returned = retcode

\* What is known of a command nobody has terminated.
UndisturbedInv ==
  ~isTerminate =>
    /\ killer = "idle" /\ (runner \notin {"wait", "done"} => code \in {"none", "ok", "err"})
    /\ raised => retcode = "none"
    /\ ~raised /\ runner \in {"retcode", "close", "wait", "done"} =>
         returncode # "none" /\ code \in {"ok", "err"}
    /\ ~raised /\ runner \in {"close", "wait", "done"} => retcode = returncode

\* Where the output is: written lines are collected or still in the pipe.
OutputInv ==
  /\ \A s \in Streams : runner \in {"wait", "done"} \/ wrote[s] = lines[s] + pipe[s]
  /\ runner \in {"readErr", "poll"}
       => AtEnd /\ pipe["out"] = 0
  /\ runner = "poll" => pipe["err"] = 0
  /\ ~isTerminate /\ ~raised /\ returncode # "none" => lines = wrote /\ ~heirs

\* The inductive invariant behind RetcodeIsExitStatus and OutputComplete: what
\* is known at each step of _execute.
IInv == TypeOK /\ ChildInv /\ UndisturbedInv /\ OutputInv

-----------------------------------------------------------------------------
(* What the documentation says and the code does not do                    *)

\* What the docstring of runwait says: the command is run until it completes,
\* whatever it writes.
RunwaitReturns == caller = "join" ~> caller = "returned"
=============================================================================
