--------------------------------- MODULE Exec ---------------------------------
(***************************************************************************)
(* One call of exec() (crates/semasm-build/src/exec.rs): the calling       *)
(* thread that spawns a child, polls it and its pipes and terminates the   *)
(* process tree at the deadline; the two drain threads; the stdin worker;  *)
(* and, external to the code, the processes of the tree and the kernel's   *)
(* pipes.  ProcessTree is modelled for both platforms: a process group     *)
(* signalled through the `kill` utility (unix.rs) and a Job Object         *)
(* (windows.rs).  Bytes are counted, never spelled out.                    *)
(***************************************************************************)
EXTENDS ExecApi, Naturals, FiniteSets

CONSTANTS
    Child,        \* the direct child
    Descendants,  \* the processes the tree may fork
    Platform,     \* "unix" or "windows"
    StdinPolicy,  \* "Null", "Bytes" or "Inherit"
    StdinBytes,   \* length of the bytes of StdinPolicy::Bytes
    Limit,        \* CommandSpec.stdout_limit / stderr_limit, per stream
    PipeCap,      \* capacity of a kernel pipe
    MaxOutput,    \* bound: bytes the tree writes to each stream
    Faults        \* which of FaultKinds can happen

Streams == {"stdout", "stderr"}
Pipes == Streams \cup {"stdin"}
Procs == {Child} \cup Descendants

\* spawn: the program cannot be started;  attach: the Job Object cannot take
\* the child (Windows);  poll: try_wait or wait fails;  read: a drain's read fails;
\* panic: a drain thread stops without sending;  leave: a descendant moves to
\* a process group of its own;  nokill: there is no `kill` utility on PATH.
FaultKinds == {"spawn", "attach", "poll", "read", "panic", "leave", "nokill"}

ASSUME ExecAssumption ==
    /\ Child \notin Descendants
    /\ Platform \in {"unix", "windows"}
    /\ StdinPolicy \in {"Null", "Bytes", "Inherit"}
    /\ StdinBytes \in Nat
    /\ Limit \in [Streams -> Nat]
    /\ PipeCap \in Nat
    /\ MaxOutput \in [Streams -> Nat]
    /\ Faults \subseteq FaultKinds

VARIABLES
    pc,          \* the next step of the calling thread
    proc,        \* life cycle of every process
    tree,        \* members of the process group, or of the Job Object
    holds,       \* pipe ends every process has open
    childExit,   \* exit status the kernel keeps for the direct child
    pipe,        \* bytes in flight in each pipe
    produced,    \* history: bytes the tree ever wrote to a stream
    drain,       \* the two drain threads
    received,    \* streams whose CaptureResult the calling thread holds
    worker,      \* the stdin worker: state and bytes left to write
    status,      \* direct_status
    expired,     \* Instant::now() >= deadline
    grace,       \* the 200 ms after SIGTERM have passed
    timedOut, termination, pollError,
    outcome      \* what exec returned

osVars == <<proc, tree, holds, childExit>>
workerVars == <<pipe, produced, drain, worker>>
callerVars == <<received, status, timedOut, termination, pollError, outcome>>
vars == <<pc, osVars, workerVars, callerVars, expired, grace>>

ProcStates == {"unborn", "running", "zombie", "gone"}
DrainStates == {"unstarted", "reading", "eof", "read_error", "panicked"}
PCs == {"spawn", "attach", "workers", "try_wait", "recv_stdout", "recv_stderr",
        "check", "term", "grace", "confirm", "kill", "reap", "abandon",
        "collect_stdout", "collect_stderr", "join_stdin", "done"}

Init ==
    /\ pc = "spawn"
    /\ proc = [p \in Procs |-> "unborn"]
    /\ tree = {}
    /\ holds = [p \in Procs |-> {}]
    /\ childExit = "none"
    /\ pipe = [s \in Pipes |-> 0]
    /\ produced = [s \in Streams |-> 0]
    /\ drain = [s \in Streams |-> [state |-> "unstarted", captured |-> 0, total |-> 0]]
    /\ received = {}
    /\ worker = [state |-> "none", left |-> 0]
    /\ status = "none"
    /\ expired = FALSE
    /\ grace = FALSE
    /\ timedOut = FALSE
    /\ termination = "none"
    /\ pollError = FALSE
    /\ outcome = NoOutcome

Running(p) == proc[p] = "running"
Holders(s) == {p \in Procs : s \in holds[p]}
Goto(here, there) == pc = here /\ pc' = there

\* The processes of K die at once: a SIGKILL, or the closing of the Job Object.
KilledStatus == IF Platform = "unix" THEN "signal" ELSE "code1"

KillAll(K) ==
    LET victims == {p \in K : Running(p)} IN
    /\ proc' = [p \in Procs |-> IF p \in victims THEN "zombie" ELSE proc[p]]
    /\ holds' = [p \in Procs |-> IF p \in victims THEN {} ELSE holds[p]]
    /\ childExit' = IF Child \in victims THEN KilledStatus ELSE childExit
    /\ UNCHANGED tree

------------------------------------------------------------------------------
(* The operating system and the programs that run in the tree.             *)

\* A process forks a descendant, which keeps some of the inherited pipe ends.
Fork(p, d) ==
    /\ Running(p) /\ proc[d] = "unborn"
    /\ proc' = [proc EXCEPT ![d] = "running"]
    /\ \E ends \in SUBSET holds[p] : holds' = [holds EXCEPT ![d] = ends]
    /\ tree' = IF p \in tree THEN tree \cup {d} ELSE tree
    /\ UNCHANGED <<pc, childExit, workerVars, callerVars, expired, grace>>

\* A descendant starts a process group of its own (setsid).
Leave(d) ==
    /\ "leave" \in Faults /\ Platform = "unix"
    /\ Running(d) /\ d \in tree
    /\ tree' = tree \ {d}
    /\ UNCHANGED <<pc, proc, holds, childExit, workerVars, callerVars, expired, grace>>

\* A process closes a pipe end it inherited.
Close(p, s) ==
    /\ Running(p) /\ s \in holds[p]
    /\ holds' = [holds EXCEPT ![p] = @ \ {s}]
    /\ UNCHANGED <<pc, proc, tree, childExit, workerVars, callerVars, expired, grace>>

\* A process writes one byte; it blocks while the pipe is full and fails once
\* the drain has dropped its end.
Write(p, s) ==
    /\ Running(p) /\ s \in holds[p]
    /\ drain[s].state \in {"unstarted", "reading"}
    /\ pipe[s] < PipeCap /\ produced[s] < MaxOutput[s]
    /\ pipe' = [pipe EXCEPT ![s] = @ + 1]
    /\ produced' = [produced EXCEPT ![s] = @ + 1]
    /\ UNCHANGED <<pc, osVars, drain, worker, callerVars, expired, grace>>

ReadStdin(p) ==
    /\ Running(p) /\ "stdin" \in holds[p] /\ pipe["stdin"] > 0
    /\ pipe' = [pipe EXCEPT !["stdin"] = @ - 1]
    /\ UNCHANGED <<pc, osVars, produced, drain, worker, callerVars, expired, grace>>

\* A process ends by itself, on a signal of its own or because it obeys SIGTERM.
Exit(p, st) ==
    /\ Running(p)
    /\ proc' = [proc EXCEPT ![p] = "zombie"]
    /\ holds' = [holds EXCEPT ![p] = {}]
    /\ childExit' = IF p = Child THEN st ELSE childExit
    /\ UNCHANGED <<pc, tree, workerVars, callerVars, expired, grace>>

\* A dead descendant is reaped by its parent or by init; the direct child is
\* the caller's to reap, and stays a zombie until try_wait or wait.
ReapDescendant(d) ==
    /\ proc[d] = "zombie"
    /\ proc' = [proc EXCEPT ![d] = "gone"]
    /\ UNCHANGED <<pc, tree, holds, childExit, workerVars, callerVars, expired, grace>>

\* Time passes: the deadline of the command, the 200 ms of terminate().
DeadlinePasses ==
    /\ ~expired /\ expired' = TRUE
    /\ UNCHANGED <<pc, osVars, workerVars, callerVars, grace>>

GracePasses ==
    /\ pc = "grace" /\ ~grace /\ grace' = TRUE
    /\ UNCHANGED <<pc, osVars, workerVars, callerVars, expired>>

------------------------------------------------------------------------------
(* The drain threads and the stdin worker.                                 *)

\* usize::saturating_sub and usize::min.
SaturatingSub(a, b) == IF a > b THEN a - b ELSE 0
AtMost(a, b) == IF a < b THEN a ELSE b

\* Mutants of DrainRead: the room left is computed after the bytes were counted,
\* and may be negative; bytes above the limit are not counted.
DrainReadUnsaturated(s) ==
    /\ drain[s].state = "reading"
    /\ \E n \in 1 .. pipe[s] :
         LET kept == AtMost(n, Limit[s] - (drain[s].total + n))
         IN /\ drain' = [drain EXCEPT ![s] =
                            [state |-> "reading", captured |-> @.captured + kept,
                             total |-> @.total + n]]
            /\ pipe' = [pipe EXCEPT ![s] = @ - n]
    /\ UNCHANGED <<pc, osVars, produced, worker, callerVars, expired, grace>>

DrainReadUncounted(s) ==
    /\ drain[s].state = "reading"
    /\ \E n \in 1 .. pipe[s] :
         LET kept == AtMost(n, SaturatingSub(Limit[s], drain[s].captured))
         IN /\ drain' = [drain EXCEPT ![s] =
                            [state |-> "reading", captured |-> @.captured + kept,
                             total |-> @.total + kept]]
            /\ pipe' = [pipe EXCEPT ![s] = @ - n]
    /\ UNCHANGED <<pc, osVars, produced, worker, callerVars, expired, grace>>

\* drain(): one read of 1..pipe bytes; what exceeds the limit is counted only.
DrainRead(s) ==
    /\ drain[s].state = "reading"
    /\ \E n \in 1 .. pipe[s] :
         LET kept == AtMost(n, SaturatingSub(Limit[s], drain[s].captured))
         IN /\ drain' = [drain EXCEPT ![s] =
                            [state |-> "reading", captured |-> @.captured + kept,
                             total |-> @.total + n]]
            /\ pipe' = [pipe EXCEPT ![s] = @ - n]
    /\ UNCHANGED <<pc, osVars, produced, worker, callerVars, expired, grace>>

\* The read returns 0 when the pipe is empty and nobody holds the other end;
\* the CaptureResult is then sent to the caller.
DrainEof(s) ==
    /\ drain[s].state = "reading"
    /\ pipe[s] = 0 /\ Holders(s) = {}
    /\ drain' = [drain EXCEPT ![s].state = "eof"]
    /\ UNCHANGED <<pc, osVars, pipe, produced, worker, callerVars, expired, grace>>

\* The read fails: the result so far is sent with a read_error.  Or the thread
\* dies and its sender is dropped: the caller then reports an empty capture.
DrainFails(s) ==
    /\ drain[s].state = "reading"
    /\ \/ "read" \in Faults /\ drain' = [drain EXCEPT ![s].state = "read_error"]
       \/ /\ "panic" \in Faults
          /\ drain' = [drain EXCEPT ![s] = [state |-> "panicked", captured |-> 0, total |-> 0]]
    /\ UNCHANGED <<pc, osVars, pipe, produced, worker, callerVars, expired, grace>>

\* The stdin worker: write_all blocks on a full pipe and ends on EPIPE.
WorkerWrites ==
    /\ worker.state = "writing" /\ worker.left > 0
    /\ pipe["stdin"] < PipeCap /\ Holders("stdin") # {}
    /\ worker' = [worker EXCEPT !.left = @ - 1]
    /\ pipe' = [pipe EXCEPT !["stdin"] = @ + 1]
    /\ UNCHANGED <<pc, osVars, produced, drain, callerVars, expired, grace>>

WorkerEnds ==
    /\ worker.state = "writing"
    /\ worker.left = 0 \/ Holders("stdin") = {}
    /\ worker' = [worker EXCEPT !.state = "ended"]
    /\ UNCHANGED <<pc, osVars, pipe, produced, drain, callerVars, expired, grace>>

------------------------------------------------------------------------------
(* The thread that called exec().                                          *)

Returns(o) == outcome' = o /\ pc' = "done"

\* build_command, configure and spawn.  The child starts with its ends of the
\* pipes; under Inherit, and under Null on Unix, stdin is not a pipe.
StdinPiped == StdinPolicy = "Bytes" \/ (StdinPolicy = "Null" /\ Platform = "windows")

Spawn ==
    /\ pc = "spawn"
    /\ \/ /\ pc' = "attach"
          /\ proc' = [proc EXCEPT ![Child] = "running"]
          /\ holds' = [holds EXCEPT ![Child] = IF StdinPiped THEN Pipes ELSE Streams]
          /\ tree' = IF Platform = "unix" THEN {Child} ELSE {}
          /\ UNCHANGED <<childExit, outcome>>
       \/ /\ "spawn" \in Faults
          /\ \E k \in {"ProgramNotFound", "Spawn"} : Returns(Failure(k))
          /\ UNCHANGED osVars
    /\ UNCHANGED <<workerVars, received, status, timedOut, termination, pollError,
                   expired, grace>>

\* ProcessTree::attach.  On Windows the child runs before it is assigned to the
\* Job Object, and creating or assigning it can fail: taskkill /T ends what it
\* reaches of the tree, kill() the child, and Abandon waits for it.
Attach ==
    /\ pc = "attach"
    /\ \/ /\ pc' = "workers"
          /\ tree' = tree \cup {Child}
          /\ UNCHANGED <<proc, holds, childExit>>
       \/ /\ "attach" \in Faults /\ Platform = "windows"
          /\ pc' = "abandon"
          /\ \E K \in SUBSET Descendants : KillAll({Child} \cup K)
    /\ UNCHANGED <<workerVars, callerVars, expired, grace>>

Abandon ==
    /\ pc = "abandon"
    /\ proc[Child] = "zombie"
    /\ proc' = [proc EXCEPT ![Child] = "gone"]
    /\ Returns(Failure("Spawn"))
    /\ UNCHANGED <<tree, holds, childExit, workerVars, received, status, timedOut,
                   termination, pollError, expired, grace>>

\* spawn_stdin_worker and the two drain threads.
StartWorkers ==
    /\ Goto("workers", "try_wait")
    /\ drain' = [s \in Streams |-> [drain[s] EXCEPT !.state = "reading"]]
    /\ worker' = IF StdinPiped
                 THEN [state |-> "writing",
                       left |-> IF StdinPolicy = "Bytes" THEN StdinBytes ELSE 0]
                 ELSE worker
    /\ UNCHANGED <<osVars, pipe, produced, callerVars, expired, grace>>

\* child.try_wait, unless the status is already known.
TryWait ==
    /\ pc = "try_wait"
    /\ \/ /\ status # "none" \/ proc[Child] = "running"
          /\ pc' = "recv_stdout"
          /\ UNCHANGED <<proc, status, pollError>>
       \/ /\ status = "none" /\ proc[Child] = "zombie"
          /\ status' = childExit
          /\ proc' = [proc EXCEPT ![Child] = "gone"]
          /\ pc' = "recv_stdout"
          /\ UNCHANGED pollError
       \/ /\ "poll" \in Faults /\ status = "none"
          /\ pollError' = TRUE
          /\ pc' = "term"
          /\ UNCHANGED <<proc, status>>
    /\ UNCHANGED <<tree, holds, childExit, workerVars, received, timedOut, termination,
                   outcome, expired, grace>>

\* receive_capture: try_recv; an empty or a disconnected channel is ignored.
Sent(s) == drain[s].state \in {"eof", "read_error"}

ReceiveCapture(s, here, there) ==
    /\ Goto(here, there)
    /\ received' = IF Sent(s) THEN received \cup {s} ELSE received
    /\ UNCHANGED <<osVars, workerVars, status, timedOut, termination, pollError, outcome,
                   expired, grace>>

\* Mutants of CheckLoop: the exit of the direct child alone, or the end of both
\* pipes alone, is taken for completion.
CheckLoopChildOnly ==
    /\ pc = "check"
    /\ LET complete == status # "none" IN
       /\ pc' = IF complete THEN "join_stdin"
                ELSE IF expired THEN "term" ELSE "try_wait"
       /\ timedOut' = (~complete /\ expired)
    /\ UNCHANGED <<osVars, workerVars, received, status, termination, pollError, outcome,
                   expired, grace>>

CheckLoopPipesOnly ==
    /\ pc = "check"
    /\ LET complete == received = Streams IN
       /\ pc' = IF complete THEN "collect_stdout"
                ELSE IF expired THEN "term" ELSE "try_wait"
       /\ timedOut' = (~complete /\ expired)
    /\ UNCHANGED <<osVars, workerVars, received, status, termination, pollError, outcome,
                   expired, grace>>

\* The end of the polling loop: complete, past the deadline, or sleep 5 ms.
CheckLoop ==
    /\ pc = "check"
    /\ LET complete == received = Streams /\ status # "none" IN
       /\ pc' = IF complete THEN "collect_stdout"
                ELSE IF expired THEN "term" ELSE "try_wait"
       /\ timedOut' = (~complete /\ expired)
    /\ UNCHANGED <<osVars, workerVars, received, status, termination, pollError, outcome,
                   expired, grace>>

\* signal_group: the `kill` utility reaches every member that has not been
\* reaped, zombies included, and fails on an empty group.
GroupExists == /\ "nokill" \notin Faults
               /\ \E p \in tree : proc[p] \in {"running", "zombie"}

\* Mutant of CloseJob: the job was made without limit_kill_on_job_close.
CloseJobDetaches == KillAll({})

\* Closing the only handle of the Job Object ends every member, as its limit
\* says: terminate() does it, and so does dropping the ProcessTree.
CloseJob == KillAll(tree)

\* ProcessTree::terminate.  Unix: SIGTERM, which the members may obey (Exit);
\* Windows: the Job Object is closed, which ends every member.
Terminate ==
    /\ pc = "term"
    /\ \/ /\ Platform = "unix"
          /\ pc' = "grace"
          /\ UNCHANGED <<osVars, termination>>
       \/ /\ Platform = "windows"
          /\ pc' = "reap"
          /\ CloseJob
          /\ termination' = "Forced"
    /\ UNCHANGED <<workerVars, received, status, timedOut, pollError, outcome, expired, grace>>

\* Unix: poll kill -0 for 200 ms.
AwaitGrace ==
    /\ Goto("grace", "confirm")
    /\ grace \/ ~GroupExists
    /\ UNCHANGED <<osVars, workerVars, callerVars, expired, grace>>

ConfirmGone ==
    /\ pc = "confirm"
    /\ pc' = IF GroupExists THEN "kill" ELSE "reap"
    /\ termination' = IF GroupExists THEN termination ELSE "Graceful"
    /\ UNCHANGED <<osVars, workerVars, received, status, timedOut, pollError, outcome,
                   expired, grace>>

\* Mutant of KillGroup: SIGKILL goes to the direct child only.
KillChildOnly ==
    /\ Goto("kill", "reap")
    /\ KillAll({Child})
    /\ termination' = IF GroupExists THEN "Forced" ELSE "Incomplete"
    /\ UNCHANGED <<workerVars, received, status, timedOut, pollError, outcome, expired, grace>>

\* SIGKILL to the group; when that fails, to the direct child only.
KillGroup ==
    /\ Goto("kill", "reap")
    /\ KillAll(IF GroupExists THEN tree ELSE {Child})
    /\ termination' = IF GroupExists THEN "Forced" ELSE "Incomplete"
    /\ UNCHANGED <<workerVars, received, status, timedOut, pollError, outcome, expired, grace>>

\* direct_status.or_else(child.wait().ok()): blocks until the direct child is
\* dead, unless waiting fails.  After a polling error exec returns here.
Reap ==
    /\ pc = "reap"
    /\ \/ /\ status # "none" \/ "poll" \in Faults
          /\ UNCHANGED <<proc, status>>
       \/ /\ status = "none" /\ proc[Child] = "zombie"
          /\ status' = childExit
          /\ proc' = [proc EXCEPT ![Child] = "gone"]
    /\ IF pollError THEN Returns(Failure("Poll"))
                    ELSE pc' = "collect_stdout" /\ UNCHANGED outcome
    /\ UNCHANGED <<tree, holds, childExit, workerVars, received, timedOut, termination,
                   pollError, expired, grace>>

\* receive_capture_blocking: waits for the drain, which may have panicked.
CollectCapture(s, here, there) ==
    /\ Goto(here, there)
    /\ s \in received \/ Sent(s) \/ drain[s].state = "panicked"
    /\ received' = IF Sent(s) THEN received \cup {s} ELSE received
    /\ UNCHANGED <<osVars, workerVars, status, timedOut, termination, pollError, outcome,
                   expired, grace>>

\* Joins the stdin worker, then returns Ok(CommandOutput).  On Windows dropping
\* the ProcessTree closes the Job Object, which ends what is left in it.
JoinStdin ==
    /\ pc = "join_stdin"
    /\ worker.state # "writing"
    /\ Returns([kind |-> "ok", timed_out |-> timedOut, status |-> status,
                termination |-> termination])
    /\ \/ Platform = "windows" /\ CloseJob
       \/ Platform = "unix" /\ UNCHANGED osVars
    /\ UNCHANGED <<workerVars, received, status, timedOut, termination, pollError,
                   expired, grace>>

ReceiveStdout == ReceiveCapture("stdout", "recv_stdout", "recv_stderr")
ReceiveStderr == ReceiveCapture("stderr", "recv_stderr", "check")
CollectStdout == CollectCapture("stdout", "collect_stdout", "collect_stderr")
CollectStderr == CollectCapture("stderr", "collect_stderr", "join_stdin")

------------------------------------------------------------------------------
Caller ==
    \/ Spawn \/ Attach \/ Abandon \/ StartWorkers \/ TryWait
    \/ ReceiveStdout \/ ReceiveStderr \/ CheckLoop
    \/ Terminate \/ AwaitGrace \/ ConfirmGone \/ KillGroup \/ Reap
    \/ CollectStdout \/ CollectStderr \/ JoinStdin

Drain(s) == DrainRead(s) \/ DrainEof(s) \/ DrainFails(s)

Worker == WorkerWrites \/ WorkerEnds

Clock == DeadlinePasses \/ GracePasses

System ==
    \/ \E p \in Procs, d \in Descendants : Fork(p, d)
    \/ \E d \in Descendants : Leave(d) \/ ReapDescendant(d)
    \/ \E p \in Procs, s \in Pipes : Close(p, s)
    \/ \E p \in Procs, s \in Streams : Write(p, s)
    \/ \E p \in Procs : ReadStdin(p)
    \/ \E p \in Procs, st \in ExitStatuses : Exit(p, st)

\* exec has returned; the tree may or may not live on.
Returned == pc = "done" /\ UNCHANGED vars

Next == Caller \/ (\E s \in Streams : Drain(s)) \/ Worker \/ Clock \/ System \/ Returned

\* The scheduler runs every thread of the process, the kernel delivers bytes
\* and reaps orphans, and time passes.  Nothing is assumed of the programs in
\* the tree: they may run, hold their pipes and stay silent for ever.
Fairness ==
    /\ WF_vars(Caller)
    /\ \A s \in Streams : WF_vars(DrainRead(s) \/ DrainEof(s))
    /\ WF_vars(Worker)
    /\ WF_vars(DeadlinePasses) /\ WF_vars(GracePasses)
    /\ \A d \in Descendants : WF_vars(ReapDescendant(d))

Spec == Init /\ [][Next]_vars

FairSpec == Spec /\ Fairness

------------------------------------------------------------------------------
(* Properties.                                                             *)

TypeOK ==
    /\ pc \in PCs
    /\ proc \in [Procs -> ProcStates]
    /\ tree \subseteq Procs
    /\ holds \in [Procs -> SUBSET Pipes]
    /\ childExit \in ExitStatuses \cup {"none"}
    /\ pipe \in [Pipes -> Nat]
    /\ produced \in [Streams -> Nat]
    /\ drain \in [Streams -> [state : DrainStates, captured : Nat, total : Nat]]
    /\ received \subseteq Streams
    /\ worker \in [state : {"none", "writing", "ended"}, left : Nat]
    /\ status \in ExitStatuses \cup {"none"}
    /\ expired \in BOOLEAN /\ grace \in BOOLEAN
    /\ timedOut \in BOOLEAN /\ pollError \in BOOLEAN
    /\ termination \in TerminationOutcomes \cup {"none"}
    /\ outcome \in [kind : {"ok", "ProgramNotFound", "Spawn", "Poll", "pending"},
                    timed_out : BOOLEAN, status : ExitStatuses \cup {"none"},
                    termination : TerminationOutcomes \cup {"none"}]

\* A capture that exec() returns without a read_error is the whole output: every
\* byte any process of the tree ever wrote is counted in total_bytes, exactly
\* the first max_bytes of them are retained, and no process is left that could
\* write more, whatever the interleaving of the tree, the drains and the poll.
NoLostOutput ==
    outcome.kind = "ok" =>
        \A s \in Streams :
            drain[s].state = "eof" =>
                /\ drain[s].total = produced[s]
                /\ drain[s].captured = AtMost(produced[s], Limit[s])
                /\ Holders(s) = {}

\* A result that did not time out is one of a finished command: the direct
\* child has been reaped with the status reported, and both drains delivered
\* their capture ("neither condition alone establishes completion").
CompletedIsFinished ==
    outcome \in Completed =>
        /\ proc[Child] = "gone" /\ outcome.status = childExit
        /\ \A s \in Streams : drain[s].state \in {"eof", "read_error"}

\* Graceful and Forced mean that nothing that belonged to the process group, or
\* to the Job Object, at the deadline or joined it later still runs.
TreeIsTerminated ==
    outcome.termination \in {"Graceful", "Forced"} =>
        \A p \in tree : ~Running(p)

\* On Unix, while nothing leaves the process group, a timeout ends every process
\* the command started, not just the direct child.
TimeoutEndsDescendants ==
    outcome.timed_out /\ outcome.termination # "Incomplete" =>
        \A p \in Procs : ~Running(p)

\* exec() implements its contract: it returns at most once, never a completed
\* command without a status, never a timeout without termination diagnostics.
Contract == INSTANCE ExecContract WITH outcome <- outcome
RefinesContract == Contract!Spec

\* Every call returns, even when a program neither ends nor closes its pipes.
ExecReturns == <>(pc = "done")

==============================================================================
