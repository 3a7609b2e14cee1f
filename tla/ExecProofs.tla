------------------------------ MODULE ExecProofs ------------------------------
(***************************************************************************)
(* Proofs about Exec for every process tree, pipe capacity, capture limit  *)
(* and set of faults.                                                      *)
(***************************************************************************)
EXTENDS Exec, TLAPS

\* ---------------------------------------------------------------------------
\* Types.

\* KillAll leaves the operating system's state well typed and adds no process.
LEMMA KillAllType ==
    ASSUME TypeOK, NEW K \in SUBSET Procs, KillAll(K)
    PROVE  /\ proc' \in [Procs -> ProcStates]
           /\ tree' \subseteq Procs
           /\ holds' \in [Procs -> SUBSET Pipes]
           /\ childExit' \in ExitStatuses \cup {"none"}
BY DEF TypeOK, KillAll, KilledStatus, ProcStates, ExitStatuses, Running

\* A record of the interface's fields has the type of outcome.
OutcomeType == [kind : {"ok", "ProgramNotFound", "Spawn", "Poll", "pending"},
                timed_out : BOOLEAN, status : ExitStatuses \cup {"none"},
                termination : TerminationOutcomes \cup {"none"}]

\* A BuildError is a well-formed outcome.
LEMMA FailureType ==
    \A k \in {"ProgramNotFound", "Spawn", "Poll", "pending"} : Failure(k) \in OutcomeType
BY DEF Failure, OutcomeType

\* Init is well typed.
LEMMA InitType == Init => TypeOK
<1> SUFFICES ASSUME Init PROVE TypeOK
    OBVIOUS
<1>1. /\ pipe \in [Pipes -> Nat]
      /\ produced \in [Streams -> Nat]
      /\ drain \in [Streams -> [state : DrainStates, captured : Nat, total : Nat]]
      /\ worker \in [state : {"none", "writing", "ended"}, left : Nat]
      BY DEF Init, DrainStates
<1>2. /\ proc \in [Procs -> ProcStates]
      /\ holds \in [Procs -> SUBSET Pipes]
      BY DEF Init, ProcStates
<1>3. outcome \in OutcomeType
      BY FailureType DEF Init, NoOutcome
<1> QED BY <1>1, <1>2, <1>3 DEF Init, TypeOK, PCs, OutcomeType

\* Steps of the operating system keep the types.
LEMMA SystemType == TypeOK /\ System => TypeOK'
<1> SUFFICES ASSUME TypeOK, System PROVE TypeOK'
    OBVIOUS
<1> USE ExecAssumption DEF TypeOK, osVars, workerVars, callerVars, Procs
<1>1. ASSUME NEW p \in Procs, NEW d \in Descendants, Fork(p, d) PROVE TypeOK'
  <2>1. PICK ends \in SUBSET holds[p] : holds' = [holds EXCEPT ![d] = ends]
        BY <1>1 DEF Fork
  <2>2. holds' \in [Procs -> SUBSET Pipes]
        BY <2>1
  <2>3. proc' \in [Procs -> ProcStates] /\ tree' \subseteq Procs
        BY <1>1 DEF Fork, ProcStates
  <2> QED BY <1>1, <2>2, <2>3 DEF Fork
<1>2. ASSUME NEW d \in Descendants, Leave(d) PROVE TypeOK'
      BY <1>2 DEF Leave
<1>3. ASSUME NEW d \in Descendants, ReapDescendant(d) PROVE TypeOK'
      BY <1>3 DEF ReapDescendant, ProcStates
<1>4. ASSUME NEW p \in Procs, NEW s \in Pipes, Close(p, s) PROVE TypeOK'
      BY <1>4 DEF Close
<1>5. ASSUME NEW p \in Procs, NEW s \in Streams, Write(p, s) PROVE TypeOK'
      BY <1>5 DEF Write, Pipes
<1>6. ASSUME NEW p \in Procs, ReadStdin(p) PROVE TypeOK'
      BY <1>6 DEF ReadStdin, Pipes
<1>7. ASSUME NEW p \in Procs, NEW st \in ExitStatuses, Exit(p, st) PROVE TypeOK'
      BY <1>7 DEF Exit, ProcStates
<1> QED BY <1>1, <1>2, <1>3, <1>4, <1>5, <1>6, <1>7 DEF System

\* Steps of the drains, the stdin worker and the clock keep the types.
LEMMA ThreadType ==
    TypeOK /\ ((\E s \in Streams : Drain(s)) \/ Worker \/ Clock) => TypeOK'
<1> SUFFICES ASSUME TypeOK PROVE ((\E s \in Streams : Drain(s)) \/ Worker \/ Clock) => TypeOK'
    OBVIOUS
<1> USE ExecAssumption DEF TypeOK, osVars, workerVars, callerVars
<1>1. ASSUME NEW s \in Streams, DrainRead(s) PROVE TypeOK'
  <2> DEFINE kept(n) == AtMost(n, SaturatingSub(Limit[s], drain[s].captured))
  <2>1. PICK n \in 1 .. pipe[s] :
           /\ drain' = [drain EXCEPT ![s] = [state |-> "reading",
                                              captured |-> @.captured + kept(n),
                                              total |-> @.total + n]]
           /\ pipe' = [pipe EXCEPT ![s] = @ - n]
        BY <1>1 DEF DrainRead
  <2>2. kept(n) \in Nat
        BY DEF AtMost, SaturatingSub, Streams, Pipes
  <2>3. pipe' \in [Pipes -> Nat]
        BY <2>1 DEF Streams, Pipes
  <2>4. drain' \in [Streams -> [state : DrainStates, captured : Nat, total : Nat]]
    <3> HIDE DEF kept
    <3> QED BY <2>1, <2>2 DEF DrainStates
  <2> QED BY <1>1, <2>3, <2>4 DEF DrainRead
<1>2. ASSUME NEW s \in Streams, DrainEof(s) PROVE TypeOK'
      BY <1>2 DEF DrainEof, DrainStates
<1>3. ASSUME NEW s \in Streams, DrainFails(s) PROVE TypeOK'
  <2>1. drain' \in [Streams -> [state : DrainStates, captured : Nat, total : Nat]]
    <3>1. CASE drain' = [drain EXCEPT ![s].state = "read_error"]
          BY <3>1 DEF DrainStates
    <3>2. CASE drain' = [drain EXCEPT ![s] = [state |-> "panicked", captured |-> 0,
                                              total |-> 0]]
          BY <3>2 DEF DrainStates
    <3> QED BY <1>3, <3>1, <3>2 DEF DrainFails
  <2> QED BY <1>3, <2>1 DEF DrainFails
<1>4. ASSUME WorkerWrites PROVE TypeOK'
      BY <1>4 DEF WorkerWrites, Pipes
<1>5. ASSUME WorkerEnds PROVE TypeOK'
      BY <1>5 DEF WorkerEnds
<1>6. ASSUME Clock PROVE TypeOK'
      BY <1>6 DEF Clock, DeadlinePasses, GracePasses
<1> QED BY <1>1, <1>2, <1>3, <1>4, <1>5, <1>6 DEF Drain, Worker

\* Steps of the calling thread keep the types.
LEMMA CallerType == TypeOK /\ Caller => TypeOK'
<1> SUFFICES ASSUME TypeOK, Caller PROVE TypeOK'
    OBVIOUS
<1> USE ExecAssumption DEF TypeOK, osVars, workerVars, callerVars, Goto, Returns
<1>1. ASSUME Spawn PROVE TypeOK'
  <2>1. CASE /\ pc' = "attach"
             /\ proc' = [proc EXCEPT ![Child] = "running"]
             /\ holds' = [holds EXCEPT ![Child] = IF StdinPiped THEN Pipes ELSE Streams]
             /\ tree' = IF Platform = "unix" THEN {Child} ELSE {}
             /\ UNCHANGED <<childExit, outcome>>
    <3>1. proc' \in [Procs -> ProcStates]
          BY <2>1 DEF ProcStates
    <3>2. holds' \in [Procs -> SUBSET Pipes] /\ tree' \subseteq Procs
          BY <2>1 DEF Pipes, Procs
    <3> QED BY <1>1, <2>1, <3>1, <3>2 DEF Spawn, PCs
  <2>2. CASE UNCHANGED osVars /\ \E k \in {"ProgramNotFound", "Spawn"} : Returns(Failure(k))
        BY <1>1, <2>2, FailureType DEF Spawn, PCs, OutcomeType
  <2> QED BY <1>1, <2>1, <2>2 DEF Spawn
<1>2. ASSUME Attach PROVE TypeOK'
  <2>1. CASE UNCHANGED <<proc, holds, childExit>> /\ pc' = "workers"
        BY <1>2, <2>1 DEF Attach, PCs, Procs
  <2>2. CASE pc' = "abandon" /\ \E K \in SUBSET Descendants : KillAll({Child} \cup K)
    <3>1. PICK K \in SUBSET Descendants : KillAll({Child} \cup K)
          BY <2>2
    <3>2. {Child} \cup K \in SUBSET Procs
          BY DEF Procs
    <3> QED BY <1>2, <2>2, <3>1, <3>2, KillAllType DEF Attach, PCs
  <2> QED BY <1>2, <2>1, <2>2 DEF Attach
<1>3. ASSUME Abandon PROVE TypeOK'
      BY <1>3, FailureType DEF Abandon, PCs, ProcStates, Procs, OutcomeType
<1>4. ASSUME StartWorkers PROVE TypeOK'
  <2>1. drain' \in [Streams -> [state : DrainStates, captured : Nat, total : Nat]]
        BY <1>4, SMTT(30) DEF StartWorkers, DrainStates
  <2>2. worker' \in [state : {"none", "writing", "ended"}, left : Nat]
        BY <1>4 DEF StartWorkers
  <2> QED BY <1>4, <2>1, <2>2 DEF StartWorkers, PCs
<1>5. ASSUME TryWait PROVE TypeOK'
  <2>1. /\ pc' \in PCs
        /\ status' \in ExitStatuses \cup {"none"}
        /\ proc' \in [Procs -> ProcStates]
        BY <1>5 DEF TryWait, PCs, ProcStates
  <2>2. pollError' \in BOOLEAN
        BY <1>5 DEF TryWait
  <2> QED BY <1>5, <2>1, <2>2 DEF TryWait
<1>6. ASSUME ReceiveStdout \/ ReceiveStderr PROVE TypeOK'
      BY <1>6 DEF ReceiveStdout, ReceiveStderr, ReceiveCapture, PCs, Streams
<1>7. ASSUME CheckLoop PROVE TypeOK'
      BY <1>7 DEF CheckLoop, PCs
<1>8. ASSUME Terminate PROVE TypeOK'
      BY <1>8, KillAllType DEF CloseJob, Terminate, PCs, TerminationOutcomes
<1>9. ASSUME AwaitGrace PROVE TypeOK'
      BY <1>9 DEF AwaitGrace, PCs
<1>10. ASSUME ConfirmGone PROVE TypeOK'
      BY <1>10 DEF ConfirmGone, PCs, TerminationOutcomes
<1>11. ASSUME KillGroup PROVE TypeOK'
  <2>1. (IF GroupExists THEN tree ELSE {Child}) \in SUBSET Procs
        BY DEF Procs
  <2> QED BY <1>11, <2>1, KillAllType DEF KillGroup, PCs, TerminationOutcomes
<1>12. ASSUME Reap PROVE TypeOK'
      BY <1>12, FailureType DEF Reap, PCs, ProcStates, Procs, OutcomeType
<1>13. ASSUME CollectStdout \/ CollectStderr PROVE TypeOK'
      BY <1>13 DEF CollectStdout, CollectStderr, CollectCapture, PCs, Streams
<1>14. ASSUME JoinStdin PROVE TypeOK'
  <2>1. outcome' \in OutcomeType
        BY <1>14 DEF JoinStdin, OutcomeType
  <2> QED BY <1>14, <2>1, KillAllType DEF CloseJob, JoinStdin, PCs, OutcomeType
<1> QED BY <1>1, <1>2, <1>3, <1>4, <1>5, <1>6, <1>7, <1>8, <1>9, <1>10, <1>11, <1>12,
           <1>13, <1>14 DEF Caller

\* Every step preserves the types.
LEMMA NextType == TypeOK /\ [Next]_vars => TypeOK'
<1>1. TypeOK /\ UNCHANGED vars => TypeOK'
      BY DEF TypeOK, vars, osVars, workerVars, callerVars
<1> QED BY <1>1, CallerType, ThreadType, SystemType DEF Next, Returned

\* Type correctness of exec(): in particular captured_bytes and total_bytes stay
\* natural numbers because drain() subtracts with saturation.
THEOREM TypeCorrect == Spec => []TypeOK
<1> QED BY InitType, NextType, PTL DEF Spec

\* ---------------------------------------------------------------------------
\* Nothing the tree wrote is lost.

\* The bytes written to a stream are in its pipe or were counted by its drain,
\* the drain keeps the first max_bytes of them, and once it has seen the end of
\* the pipe nobody holds the other end: new holders only inherit from holders.
CaptureInv ==
    /\ \A s \in Streams :
         /\ drain[s].state # "panicked" => produced[s] = pipe[s] + drain[s].total
         /\ drain[s].captured = AtMost(drain[s].total, Limit[s])
         /\ drain[s].state = "eof" => pipe[s] = 0
    /\ \A s \in Streams, p \in Procs : drain[s].state = "eof" => s \notin holds[p]
    /\ pc \in {"spawn", "attach", "workers"} =>
         \A s \in Streams : drain[s].state = "unstarted"

\* CaptureInv holds initially.
LEMMA InitCapture == Init => CaptureInv
<1> SUFFICES ASSUME Init PROVE CaptureInv
    OBVIOUS
<1> QED BY ExecAssumption DEF Init, CaptureInv, AtMost, Pipes

\* A step that changes neither the pipes nor the drains, and gives no process a
\* pipe end it did not hold, keeps the capture invariant.
LEMMA CaptureFrame ==
    ASSUME TypeOK, CaptureInv,
           UNCHANGED <<produced, drain>>, \A s \in Streams : pipe'[s] = pipe[s],
           \A p \in Procs : holds'[p] \subseteq holds[p] \/ pc = "spawn"
                            \/ \E q \in Procs : holds'[p] \subseteq holds[q],
           pc' \in {"spawn", "attach", "workers"} => pc \in {"spawn", "attach", "workers"}
    PROVE  CaptureInv'
BY DEF CaptureInv

\* Killing processes only closes pipe ends.
LEMMA KillAllCloses ==
    ASSUME TypeOK, NEW K, KillAll(K)
    PROVE  \A p \in Procs : holds'[p] \subseteq holds[p]
BY DEF KillAll, TypeOK

\* The operating system preserves CaptureInv.
LEMMA SystemCapture == TypeOK /\ CaptureInv /\ System => CaptureInv'
<1> SUFFICES ASSUME TypeOK, CaptureInv, System PROVE CaptureInv'
    OBVIOUS
<1> USE DEF osVars, workerVars, callerVars
<1>1. ASSUME NEW p \in Procs, NEW d \in Descendants, Fork(p, d) PROVE CaptureInv'
  <2>1. \A q \in Procs : holds'[q] \subseteq holds[q] \/ holds'[q] \subseteq holds[p]
        BY <1>1 DEF Fork, TypeOK
  <2> QED BY <1>1, <2>1, CaptureFrame DEF Fork
<1>2. ASSUME NEW d \in Descendants, Leave(d) \/ ReapDescendant(d) PROVE CaptureInv'
      BY <1>2, CaptureFrame DEF Leave, ReapDescendant
<1>3. ASSUME NEW p \in Procs, NEW s \in Pipes, Close(p, s) PROVE CaptureInv'
      BY <1>3, CaptureFrame DEF Close, TypeOK
<1>4. ASSUME NEW p \in Procs, NEW s \in Streams, Write(p, s) PROVE CaptureInv'
      BY <1>4 DEF Write, TypeOK, CaptureInv, Pipes
<1>5. ASSUME NEW p \in Procs, ReadStdin(p) PROVE CaptureInv'
  <2>1. \A s \in Streams : pipe'[s] = pipe[s]
        BY <1>5 DEF ReadStdin, TypeOK, Pipes, Streams
  <2> QED BY <1>5, <2>1, CaptureFrame DEF ReadStdin
<1>6. ASSUME NEW p \in Procs, NEW st \in ExitStatuses, Exit(p, st) PROVE CaptureInv'
      BY <1>6, CaptureFrame DEF Exit, TypeOK
<1> QED BY <1>1, <1>2, <1>3, <1>4, <1>5, <1>6 DEF System

\* The drains, the worker and the clock preserve CaptureInv.
LEMMA ThreadCapture ==
    TypeOK /\ CaptureInv /\ ((\E s \in Streams : Drain(s)) \/ Worker \/ Clock) => CaptureInv'
<1> SUFFICES ASSUME TypeOK, CaptureInv
             PROVE  ((\E s \in Streams : Drain(s)) \/ Worker \/ Clock) => CaptureInv'
    OBVIOUS
<1> USE DEF osVars, workerVars, callerVars
<1>1. ASSUME NEW s \in Streams, DrainRead(s) PROVE CaptureInv'
  <2>1. PICK n \in 1 .. pipe[s] :
           /\ drain' = [drain EXCEPT ![s] =
                  [state |-> "reading",
                   captured |-> @.captured + AtMost(n, SaturatingSub(Limit[s], drain[s].captured)),
                   total |-> @.total + n]]
           /\ pipe' = [pipe EXCEPT ![s] = @ - n]
        BY <1>1 DEF DrainRead
  <2>2. /\ pipe[s] \in Nat /\ n \in Nat /\ Limit[s] \in Nat
        /\ drain[s].total \in Nat /\ drain[s].captured \in Nat
        BY ExecAssumption DEF TypeOK, Pipes
  <2>3. drain[s].captured + AtMost(n, SaturatingSub(Limit[s], drain[s].captured))
           = AtMost(drain[s].total + n, Limit[s])
        BY <2>2 DEF CaptureInv, AtMost, SaturatingSub
  <2>4. produced[s] = (pipe[s] - n) + (drain[s].total + n)
        BY <1>1, <2>2 DEF CaptureInv, DrainRead, TypeOK
  <2>5. \A r \in Streams :
          /\ drain'[r].state # "panicked" => produced'[r] = pipe'[r] + drain'[r].total
          /\ drain'[r].captured = AtMost(drain'[r].total, Limit[r])
          /\ drain'[r].state = "eof" => pipe'[r] = 0
    <3> TAKE r \in Streams
    <3>1. CASE r = s
          BY <1>1, <2>1, <2>3, <2>4, <3>1 DEF DrainRead, TypeOK, Pipes
    <3>2. CASE r # s
      <4>1. drain'[r] = drain[r] /\ pipe'[r] = pipe[r] /\ produced'[r] = produced[r]
            BY <1>1, <2>1, <3>2 DEF DrainRead, TypeOK, Pipes
      <4> QED BY <4>1 DEF CaptureInv
    <3> QED BY <3>1, <3>2
  <2>6. \A r \in Streams, p \in Procs : drain'[r].state = "eof" => r \notin holds'[p]
        BY <1>1, <2>1 DEF CaptureInv, DrainRead, TypeOK
  <2>7. pc' \in {"spawn", "attach", "workers"} => \A r \in Streams : drain'[r].state = "unstarted"
        BY <1>1 DEF CaptureInv, DrainRead
  <2> QED BY <2>5, <2>6, <2>7 DEF CaptureInv
<1>2. ASSUME NEW s \in Streams, DrainEof(s) PROVE CaptureInv'
      BY <1>2 DEF DrainEof, CaptureInv, TypeOK, Holders
<1>3. ASSUME NEW s \in Streams, DrainFails(s) PROVE CaptureInv'
  <2>1. CASE drain' = [drain EXCEPT ![s].state = "read_error"]
        BY <1>3, <2>1 DEF DrainFails, CaptureInv, TypeOK
  <2>2. CASE drain' = [drain EXCEPT ![s] = [state |-> "panicked", captured |-> 0,
                                            total |-> 0]]
    <3>1. AtMost(0, Limit[s]) = 0
          BY ExecAssumption DEF AtMost
    <3> QED BY <1>3, <2>2, <3>1 DEF DrainFails, CaptureInv, TypeOK
  <2> QED BY <1>3, <2>1, <2>2 DEF DrainFails
<1>4. ASSUME Worker PROVE CaptureInv'
  <2>1. \A s \in Streams : pipe'[s] = pipe[s]
        BY <1>4 DEF Worker, WorkerWrites, WorkerEnds, TypeOK, Pipes, Streams
  <2> QED BY <1>4, <2>1, CaptureFrame DEF Worker, WorkerWrites, WorkerEnds
<1>5. ASSUME Clock PROVE CaptureInv'
      BY <1>5, CaptureFrame DEF Clock, DeadlinePasses, GracePasses
<1> QED BY <1>1, <1>2, <1>3, <1>4, <1>5 DEF Drain

\* The calling thread preserves CaptureInv.
LEMMA CallerCapture == TypeOK /\ CaptureInv /\ Caller => CaptureInv'
<1> SUFFICES ASSUME TypeOK, CaptureInv, Caller PROVE CaptureInv'
    OBVIOUS
<1> USE DEF osVars, workerVars, callerVars, Goto, Returns
<1>1. ASSUME StartWorkers PROVE CaptureInv'
  <2>1. \A s \in Streams : /\ drain'[s].state = "reading"
                           /\ drain'[s].captured = drain[s].captured
                           /\ drain'[s].total = drain[s].total
        BY <1>1 DEF StartWorkers, TypeOK
  <2>2. \A s \in Streams : drain[s].state # "panicked" => produced[s] = pipe[s] + drain[s].total
        BY DEF CaptureInv
  <2>3. pc = "workers" => \A s \in Streams : drain[s].state = "unstarted"
        BY DEF CaptureInv
  <2> QED BY <1>1, <2>1, <2>2, <2>3 DEF StartWorkers, CaptureInv
<1>2. ASSUME Spawn PROVE CaptureInv'
      BY <1>2, CaptureFrame DEF Spawn
<1>3. ASSUME Attach \/ Terminate \/ KillGroup \/ JoinStdin PROVE CaptureInv'
  <2>1. \A p \in Procs : holds'[p] \subseteq holds[p]
        BY <1>3, KillAllCloses DEF CloseJob, Attach, Terminate, KillGroup, JoinStdin
  <2> QED BY <1>3, <2>1, CaptureFrame DEF CloseJob, Attach, Terminate, KillGroup, JoinStdin
<1>4. ASSUME \/ Abandon \/ TryWait \/ ReceiveStdout \/ ReceiveStderr \/ CheckLoop
             \/ AwaitGrace \/ ConfirmGone \/ Reap \/ CollectStdout \/ CollectStderr
      PROVE CaptureInv'
      BY <1>4, CaptureFrame
      DEF Abandon, TryWait, ReceiveStdout, ReceiveStderr, ReceiveCapture, CheckLoop,
          AwaitGrace, ConfirmGone, Reap, CollectStdout, CollectStderr, CollectCapture
<1> QED BY <1>1, <1>2, <1>3, <1>4 DEF Caller

\* Every step preserves CaptureInv.
LEMMA NextCapture == TypeOK /\ CaptureInv /\ [Next]_vars => CaptureInv'
<1>1. TypeOK /\ CaptureInv /\ UNCHANGED vars => CaptureInv'
      BY DEF CaptureInv, vars, osVars, workerVars, callerVars
<1> QED BY <1>1, CallerCapture, ThreadCapture, SystemCapture DEF Next, Returned

\* No output is lost: what exec() returns without a read_error is everything the
\* process tree wrote, for every tree, pipe capacity and capture limit.
THEOREM OutputIsComplete == Spec => []NoLostOutput
<1>1. TypeOK /\ CaptureInv => NoLostOutput
      BY DEF CaptureInv, NoLostOutput, Holders, TypeOK, Pipes
<1> QED BY <1>1, TypeCorrect, InitCapture, NextCapture, PTL DEF Spec

\* ---------------------------------------------------------------------------
\* What exec() returns.

Starting == {"spawn", "attach", "workers", "abandon"}
Terminating == {"term", "grace", "confirm", "kill", "reap"}
Collecting == {"collect_stdout", "collect_stderr", "join_stdin"}

\* What the calling thread knows at each step: a status it holds is the one the
\* kernel kept for the reaped child, a capture it holds was sent, it terminates
\* the tree only after a timeout or a polling error, and it collects without a
\* timeout only when it holds the status and both captures.
CallerInv ==
    /\ pc # "done" => outcome = NoOutcome
    /\ status # "none" => proc[Child] = "gone" /\ status = childExit
    /\ proc[Child] = "zombie" => childExit # "none"
    /\ \A s \in received : Sent(s)
    /\ pc \in Starting => status = "none" /\ received = {}
    /\ timedOut => pc \in Terminating \cup Collecting \cup {"done"}
    /\ pollError => ~timedOut /\ pc \in Terminating \cup {"done"}
    /\ pc \in Terminating => timedOut \/ pollError
    /\ ~timedOut /\ ~pollError => termination = "none"
    /\ timedOut /\ pc \in Collecting \cup {"reap"} => termination # "none"
    /\ ~timedOut /\ pc \in Collecting => received = Streams /\ status # "none"
    /\ outcome \in Completed => /\ status # "none" /\ outcome.status = status
                                /\ received = Streams

\* CallerInv holds initially.
LEMMA InitCaller == Init => CallerInv
BY DEF Init, CallerInv, Starting, Terminating, Collecting, Completed, NoOutcome, Failure, Procs

\* What a step of the tree, the threads or the clock may change of it.
LEMMA CallerFrame ==
    ASSUME TypeOK, CallerInv,
           UNCHANGED <<pc, received, status, timedOut, termination, pollError, outcome>>,
           proc[Child] = "gone" => proc'[Child] = "gone" /\ childExit' = childExit,
           proc'[Child] = "zombie" => childExit' # "none",
           \A s \in Streams : Sent(s) => Sent(s)'
    PROVE  CallerInv'
BY DEF CallerInv, TypeOK, Sent

\* The operating system preserves CallerInv.
LEMMA SystemCaller == TypeOK /\ CallerInv /\ System => CallerInv'
<1> SUFFICES ASSUME TypeOK, CallerInv, System PROVE CallerInv'
    OBVIOUS
<1> USE ExecAssumption DEF osVars, workerVars, callerVars, TypeOK, Procs, Sent, Running
<1>1. ASSUME NEW p \in Procs, NEW d \in Descendants, Fork(p, d) PROVE CallerInv'
  <2>1. proc'[Child] = proc[Child]
        BY <1>1 DEF Fork
  <2> QED BY <1>1, <2>1, CallerFrame DEF Fork, CallerInv
<1>2. ASSUME NEW d \in Descendants, Leave(d) \/ ReapDescendant(d) PROVE CallerInv'
  <2>1. proc'[Child] = proc[Child]
        BY <1>2 DEF Leave, ReapDescendant
  <2> QED BY <1>2, <2>1, CallerFrame DEF Leave, ReapDescendant, CallerInv
<1>3. ASSUME NEW p \in Procs, NEW s \in Pipes, Close(p, s) PROVE CallerInv'
      BY <1>3, CallerFrame DEF Close, CallerInv
<1>4. ASSUME NEW p \in Procs, NEW s \in Streams, Write(p, s) PROVE CallerInv'
      BY <1>4, CallerFrame DEF Write, CallerInv
<1>5. ASSUME NEW p \in Procs, ReadStdin(p) PROVE CallerInv'
      BY <1>5, CallerFrame DEF ReadStdin, CallerInv
<1>6. ASSUME NEW p \in Procs, NEW st \in ExitStatuses, Exit(p, st) PROVE CallerInv'
  <2>1. proc[Child] = "gone" => proc'[Child] = "gone" /\ childExit' = childExit
        BY <1>6 DEF Exit
  <2>2. proc'[Child] = "zombie" => childExit' # "none"
        BY <1>6 DEF Exit, CallerInv, ExitStatuses
  <2> QED BY <1>6, <2>1, <2>2, CallerFrame DEF Exit
<1> QED BY <1>1, <1>2, <1>3, <1>4, <1>5, <1>6 DEF System

\* The drains, the worker and the clock preserve CallerInv.
LEMMA ThreadCaller ==
    TypeOK /\ CallerInv /\ ((\E s \in Streams : Drain(s)) \/ Worker \/ Clock) => CallerInv'
<1> SUFFICES ASSUME TypeOK, CallerInv
             PROVE  ((\E s \in Streams : Drain(s)) \/ Worker \/ Clock) => CallerInv'
    OBVIOUS
<1> USE DEF osVars, workerVars, callerVars
<1>1. ASSUME NEW s \in Streams, Drain(s) PROVE CallerInv'
  <2>1. \A r \in Streams : Sent(r) => Sent(r)'
    <3> TAKE r \in Streams
    <3>1. CASE r = s
          BY <1>1, <3>1 DEF Drain, DrainRead, DrainEof, DrainFails, Sent
    <3>2. CASE r # s
          BY <1>1, <3>2 DEF Drain, DrainRead, DrainEof, DrainFails, Sent, TypeOK
    <3> QED BY <3>1, <3>2
  <2> QED BY <1>1, <2>1, CallerFrame DEF Drain, DrainRead, DrainEof, DrainFails, CallerInv
<1>2. ASSUME Worker \/ Clock PROVE CallerInv'
      BY <1>2, CallerFrame
      DEF Worker, WorkerWrites, WorkerEnds, Clock, DeadlinePasses, GracePasses, CallerInv, Sent
<1> QED BY <1>1, <1>2

\* Killing spares a process that is already dead and leaves a status for the
\* direct child when it dies.
LEMMA KillAllChild ==
    ASSUME TypeOK, CallerInv, NEW K, KillAll(K)
    PROVE  /\ proc[Child] # "running" => proc'[Child] = proc[Child] /\ childExit' = childExit
           /\ proc'[Child] = "zombie" => childExit' # "none"
BY DEF KillAll, KilledStatus, Running, CallerInv, TypeOK, Procs

\* NoOutcome is not a completed command, nor is a failure.
LEMMA FailureNotCompleted == \A k : k # "ok" => Failure(k) \notin Completed
BY DEF Failure, Completed

\* The calling thread preserves CallerInv.
LEMMA CallerCaller == TypeOK /\ CallerInv /\ Caller => CallerInv'
<1> SUFFICES ASSUME TypeOK, CallerInv, Caller PROVE CallerInv'
    OBVIOUS
<1> USE FailureNotCompleted
    DEF osVars, workerVars, callerVars, Goto, Returns, Starting, Terminating, Collecting,
        NoOutcome
<1>1. ASSUME Spawn PROVE CallerInv'
  <2>1. outcome' \notin Completed
        BY <1>1 DEF Spawn, CallerInv
  <2>2. status = "none" /\ received = {} /\ ~timedOut /\ ~pollError
        BY <1>1 DEF Spawn, CallerInv
  <2>3. proc'[Child] = "zombie" => childExit' # "none"
        BY <1>1 DEF Spawn, CallerInv, TypeOK, Procs
  <2> QED BY <1>1, <2>1, <2>2, <2>3 DEF Spawn, CallerInv, Sent
<1>2. ASSUME Attach PROVE CallerInv'
  <2>1. /\ proc'[Child] = "zombie" => childExit' # "none"
        /\ status = "none" /\ received = {}
        BY <1>2, KillAllChild DEF Attach, CallerInv
  <2> QED BY <1>2, <2>1 DEF Attach, CallerInv, Sent
<1>3. ASSUME Abandon PROVE CallerInv'
  <2>1. outcome' \notin Completed /\ proc'[Child] = "gone"
        BY <1>3 DEF Abandon, CallerInv, TypeOK, Procs
  <2> QED BY <1>3, <2>1 DEF Abandon, CallerInv, Sent
<1>4. ASSUME StartWorkers PROVE CallerInv'
      BY <1>4 DEF StartWorkers, CallerInv, Sent
<1>5. ASSUME TryWait PROVE CallerInv'
  <2>1. outcome' = outcome /\ outcome \notin Completed
        BY <1>5 DEF TryWait, CallerInv
  <2>2. CASE status' = status /\ proc' = proc
        BY <1>5, <2>1, <2>2 DEF TryWait, CallerInv, Sent
  <2>3. CASE /\ status = "none" /\ proc[Child] = "zombie" /\ status' = childExit
             /\ proc' = [proc EXCEPT ![Child] = "gone"] /\ pc' = "recv_stdout"
             /\ UNCHANGED pollError
    <3>1. proc'[Child] = "gone"
          BY <2>3 DEF TypeOK, Procs
    <3> QED BY <1>5, <2>1, <2>3, <3>1 DEF TryWait, CallerInv, Sent
  <2> QED BY <1>5, <2>2, <2>3 DEF TryWait
<1>6. ASSUME ReceiveStdout \/ ReceiveStderr PROVE CallerInv'
      BY <1>6 DEF ReceiveStdout, ReceiveStderr, ReceiveCapture, CallerInv, Sent
<1>7. ASSUME CheckLoop PROVE CallerInv'
      BY <1>7 DEF CheckLoop, CallerInv, Sent
<1>8. ASSUME Terminate PROVE CallerInv'
      BY <1>8, KillAllChild DEF CloseJob, Terminate, CallerInv, Sent
<1>9. ASSUME AwaitGrace PROVE CallerInv'
      BY <1>9 DEF AwaitGrace, CallerInv, Sent
<1>10. ASSUME ConfirmGone PROVE CallerInv'
  <2>1. outcome' = outcome /\ outcome \notin Completed
        BY <1>10 DEF ConfirmGone, CallerInv
  <2>2. CASE GroupExists
        BY <1>10, <2>1, <2>2 DEF ConfirmGone, CallerInv, Sent
  <2>3. CASE ~GroupExists
        BY <1>10, <2>1, <2>3 DEF ConfirmGone, CallerInv, Sent
  <2> QED BY <2>2, <2>3
<1>11. ASSUME KillGroup PROVE CallerInv'
  <2>1. outcome' = outcome /\ outcome \notin Completed /\ termination' # "none"
        BY <1>11 DEF KillGroup, CallerInv
  <2>2. /\ proc[Child] # "running" => proc'[Child] = proc[Child] /\ childExit' = childExit
        /\ proc'[Child] = "zombie" => childExit' # "none"
        BY <1>11, KillAllChild DEF KillGroup
  <2> QED BY <1>11, <2>1, <2>2 DEF KillGroup, CallerInv, Sent
<1>12. ASSUME Reap PROVE CallerInv'
  <2>1. outcome' \notin Completed
        BY <1>12 DEF Reap, CallerInv
  <2>2. CASE UNCHANGED <<proc, status>>
        BY <1>12, <2>1, <2>2 DEF Reap, CallerInv, Sent
  <2>3. CASE /\ status = "none" /\ proc[Child] = "zombie" /\ status' = childExit
             /\ proc' = [proc EXCEPT ![Child] = "gone"]
    <3>1. proc'[Child] = "gone"
          BY <2>3 DEF TypeOK, Procs
    <3> QED BY <1>12, <2>1, <2>3, <3>1 DEF Reap, CallerInv, Sent
  <2> QED BY <1>12, <2>2, <2>3 DEF Reap
<1>13. ASSUME CollectStdout \/ CollectStderr PROVE CallerInv'
  <2>1. /\ received = Streams => received' = Streams
        /\ \A s \in received' : Sent(s)'
        BY <1>13 DEF CollectStdout, CollectStderr, CollectCapture, CallerInv, Sent, Streams
  <2>2. outcome' = outcome /\ outcome \notin Completed
        BY <1>13 DEF CollectStdout, CollectStderr, CollectCapture, CallerInv
  <2> QED BY <1>13, <2>1, <2>2 DEF CollectStdout, CollectStderr, CollectCapture, CallerInv
<1>14. ASSUME JoinStdin PROVE CallerInv'
  <2>1. /\ proc[Child] # "running" => proc'[Child] = proc[Child] /\ childExit' = childExit
        /\ proc'[Child] = "zombie" => childExit' # "none"
        BY <1>14, KillAllChild DEF CloseJob, JoinStdin, CallerInv
  <2>2. outcome' \in Completed => ~timedOut /\ outcome'.status = status
        BY <1>14 DEF JoinStdin, Completed
  <2> QED BY <1>14, <2>1, <2>2 DEF JoinStdin, CallerInv, Sent
<1> QED BY <1>1, <1>2, <1>3, <1>4, <1>5, <1>6, <1>7, <1>8, <1>9, <1>10, <1>11, <1>12,
           <1>13, <1>14 DEF Caller

\* Every step preserves CallerInv.
LEMMA NextCaller == TypeOK /\ CallerInv /\ [Next]_vars => CallerInv'
<1>1. TypeOK /\ CallerInv /\ UNCHANGED vars => CallerInv'
      BY DEF CallerInv, Sent, vars, osVars, workerVars, callerVars
<1> QED BY <1>1, CallerCaller, ThreadCaller, SystemCaller DEF Next, Returned

\* CallerInv is an invariant.
LEMMA CallerInvariant == Spec => []CallerInv
BY TypeCorrect, InitCaller, NextCaller, PTL DEF Spec

\* A result that did not time out is one of a finished command: reaped child,
\* its own status, both captures delivered.
THEOREM CompletionIsReal == Spec => []CompletedIsFinished
<1>1. CallerInv => CompletedIsFinished
      BY DEF CallerInv, CompletedIsFinished, Sent
<1> QED BY <1>1, CallerInvariant, PTL

\* Only four steps return, each of them for the first time and with an outcome
\* of the interface.
LEMMA OutcomeStep ==
    ASSUME TypeOK, CallerInv, [Next]_vars
    PROVE  outcome' = outcome \/ (outcome = NoOutcome /\ outcome' \in Outcomes)
<1> USE DEF osVars, workerVars, callerVars, Goto, Returns
<1>1. CASE Spawn \/ Abandon \/ Reap
  <2>1. outcome' = outcome \/ \E k \in {"ProgramNotFound", "Spawn", "Poll"} : outcome' = Failure(k)
        BY <1>1 DEF Spawn, Abandon, Reap
  <2>2. outcome = NoOutcome
        BY <1>1 DEF Spawn, Abandon, Reap, CallerInv
  <2> QED BY <2>1, <2>2 DEF Outcomes
<1>2. CASE JoinStdin
  <2>1. outcome = NoOutcome
        BY <1>2 DEF JoinStdin, CallerInv
  <2>2. outcome' = [kind |-> "ok", timed_out |-> timedOut, status |-> status,
                    termination |-> termination]
        BY <1>2 DEF JoinStdin
  <2>3. CASE timedOut = TRUE
    <3>1. termination \in TerminationOutcomes
          BY <1>2, <2>3 DEF JoinStdin, CallerInv, Collecting, TypeOK
    <3> QED BY <2>1, <2>2, <2>3, <3>1 DEF TypeOK, Outcomes, TimedOut
  <2>4. CASE timedOut = FALSE
    <3>1. pollError = FALSE
          BY <1>2 DEF JoinStdin, CallerInv, Terminating, TypeOK
    <3>2. status \in ExitStatuses /\ termination = "none"
          BY <1>2, <2>4, <3>1 DEF JoinStdin, CallerInv, Collecting, TypeOK
    <3> QED BY <2>1, <2>2, <2>4, <3>2 DEF Outcomes, Completed
  <2> QED BY <2>3, <2>4 DEF TypeOK
<1>3. CASE \/ Attach \/ StartWorkers \/ TryWait \/ ReceiveStdout \/ ReceiveStderr
           \/ CheckLoop \/ Terminate \/ AwaitGrace \/ ConfirmGone \/ KillGroup
           \/ CollectStdout \/ CollectStderr
      BY <1>3 DEF Attach, StartWorkers, TryWait, ReceiveStdout, ReceiveStderr, ReceiveCapture,
                  CheckLoop, Terminate, AwaitGrace, ConfirmGone, KillGroup, CollectStdout,
                  CollectStderr, CollectCapture
<1>4. CASE (\E s \in Streams : Drain(s)) \/ Worker \/ Clock
      BY <1>4 DEF Drain, DrainRead, DrainEof, DrainFails, Worker, WorkerWrites, WorkerEnds,
                  Clock, DeadlinePasses, GracePasses
<1>5. CASE System
      BY <1>5 DEF System, Fork, Leave, ReapDescendant, Close, Write, ReadStdin, Exit
<1>6. CASE UNCHANGED vars
      BY <1>6 DEF vars
<1> QED BY <1>1, <1>2, <1>3, <1>4, <1>5, <1>6 DEF Next, Caller, Returned

\* The state machine implements the contract of exec().
THEOREM ContractHolds == Spec => RefinesContract
<1>1. Init => Contract!Init
      BY DEF Init, Contract!Init, Contract!NoOutcome, Contract!Failure, NoOutcome, Failure
<1>2. NoOutcome = Contract!NoOutcome /\ Outcomes = Contract!Outcomes
      BY DEF Contract!NoOutcome, Contract!Failure, NoOutcome, Failure, Outcomes,
             Contract!Outcomes, Completed, Contract!Completed, TimedOut, Contract!TimedOut,
             ExitStatuses, Contract!ExitStatuses, TerminationOutcomes,
             Contract!TerminationOutcomes
<1>3. TypeOK /\ CallerInv /\ [Next]_vars => [Contract!Return]_outcome
      BY <1>2, OutcomeStep DEF Contract!Return
<1> QED BY <1>1, <1>3, TypeCorrect, CallerInvariant, PTL DEF Spec, RefinesContract, Contract!Spec

\* ---------------------------------------------------------------------------
\* Termination of the tree.

\* Members of the tree have been started, and once terminate() has answered
\* Graceful or Forced none of them runs: a member only joins as the child of a
\* running member.
TreeInv ==
    /\ \A p \in tree : proc[p] # "unborn"
    /\ pc \in {"attach", "workers"} => proc[Child] # "unborn"
    /\ pc = "spawn" => tree = {}
    /\ pc \in {"reap", "done"} \cup Collecting /\ termination \in {"Graceful", "Forced"} =>
         \A p \in tree : ~Running(p)
    /\ outcome.termination \in {"Graceful", "Forced"} =>
         pc = "done" /\ outcome.termination = termination

\* TreeInv holds initially.
LEMMA InitTree == Init => TreeInv
BY DEF Init, TreeInv, Collecting, NoOutcome, Failure

\* A step that starts no member and adds none keeps the tree invariant.
LEMMA TreeFrame ==
    ASSUME TypeOK, TreeInv,
           UNCHANGED <<pc, termination, outcome>>,
           \A p \in tree' : p \in tree /\ proc'[p] # "unborn" /\ (Running(p)' => Running(p)),
           proc[Child] # "unborn" => proc'[Child] # "unborn"
    PROVE  TreeInv'
BY DEF TreeInv, Running

\* The operating system preserves TreeInv.
LEMMA SystemTree == TypeOK /\ TreeInv /\ System => TreeInv'
<1> SUFFICES ASSUME TypeOK, TreeInv, System PROVE TreeInv'
    OBVIOUS
<1> USE ExecAssumption DEF osVars, workerVars, callerVars, TypeOK, Procs
<1>1. ASSUME NEW p \in Procs, NEW d \in Descendants, Fork(p, d) PROVE TreeInv'
  <2>1. d \notin tree /\ proc'[Child] = proc[Child]
        BY <1>1 DEF Fork, TreeInv
  <2>2. \A q \in Procs : q # d => proc'[q] = proc[q]
        BY <1>1 DEF Fork
  <2>3. CASE p \notin tree
    <3>1. tree' = tree
          BY <1>1, <2>3 DEF Fork
    <3> QED BY <1>1, <2>1, <2>2, <3>1, TreeFrame DEF Fork, TreeInv, Running
  <2>4. CASE p \in tree
    <3>1. tree' = tree \cup {d} /\ Running(p) /\ proc'[d] = "running"
          BY <1>1, <2>4 DEF Fork
    <3>2. ~(pc \in {"reap", "done"} \cup Collecting /\ termination \in {"Graceful", "Forced"})
          BY <2>4, <3>1 DEF TreeInv
    <3>3. pc # "spawn"
          BY <2>4 DEF TreeInv
    <3> QED BY <1>1, <2>1, <2>2, <3>1, <3>2, <3>3 DEF Fork, TreeInv
  <2> QED BY <2>3, <2>4
<1>2. ASSUME NEW d \in Descendants, Leave(d) \/ ReapDescendant(d) PROVE TreeInv'
      BY <1>2, TreeFrame DEF Leave, ReapDescendant, TreeInv, Running
<1>3. ASSUME NEW p \in Procs, NEW s \in Pipes, Close(p, s) PROVE TreeInv'
      BY <1>3, TreeFrame DEF Close, TreeInv, Running
<1>4. ASSUME NEW p \in Procs, NEW s \in Streams, Write(p, s) PROVE TreeInv'
      BY <1>4, TreeFrame DEF Write, TreeInv, Running
<1>5. ASSUME NEW p \in Procs, ReadStdin(p) PROVE TreeInv'
      BY <1>5, TreeFrame DEF ReadStdin, TreeInv, Running
<1>6. ASSUME NEW p \in Procs, NEW st \in ExitStatuses, Exit(p, st) PROVE TreeInv'
      BY <1>6, TreeFrame DEF Exit, TreeInv, Running
<1> QED BY <1>1, <1>2, <1>3, <1>4, <1>5, <1>6 DEF System

\* The drains, the worker and the clock preserve TreeInv.
LEMMA ThreadTree ==
    TypeOK /\ TreeInv /\ ((\E s \in Streams : Drain(s)) \/ Worker \/ Clock) => TreeInv'
BY TreeFrame
DEF TreeInv, Running, Drain, DrainRead, DrainEof, DrainFails, Worker, WorkerWrites,
    WorkerEnds, Clock, DeadlinePasses, GracePasses, osVars, workerVars, callerVars

\* Killing a set of processes leaves none of it running and starts none.
LEMMA KillAllStops ==
    ASSUME TypeOK, NEW K, KillAll(K)
    PROVE  /\ \A p \in Procs : /\ p \in K => ~Running(p)'
                               /\ Running(p)' => Running(p)
                               /\ proc[p] # "unborn" => proc'[p] # "unborn"
           /\ tree' = tree
BY DEF KillAll, Running, TypeOK

\* With a `kill` utility, an empty answer of kill -0 means that the group is dead.
LEMMA CallerTree ==
    ASSUME "nokill" \notin Faults, TypeOK, CallerInv, TreeInv, Caller
    PROVE  TreeInv'
<1> USE ExecAssumption DEF osVars, workerVars, callerVars, Goto, Returns, Collecting
<1>0. \A p \in tree : p \in Procs
      BY DEF TypeOK
<1>1. ASSUME Spawn PROVE TreeInv'
      BY <1>1 DEF Spawn, TreeInv, TypeOK, Procs, Failure, CallerInv, NoOutcome
<1>2. ASSUME Attach PROVE TreeInv'
      BY <1>0, <1>2, KillAllStops DEF Attach, TreeInv, Procs
<1>3. ASSUME Abandon PROVE TreeInv'
  <2>1. outcome'.termination = "none" /\ pc' = "done" /\ tree' = tree
        BY <1>3 DEF Abandon, Failure
  <2>2. termination = "none" /\ termination' = termination
        BY <1>3 DEF Abandon, CallerInv, Terminating
  <2>3. \A p \in tree : proc'[p] # "unborn"
        BY <1>0, <1>3 DEF Abandon, TreeInv, TypeOK
  <2> QED BY <2>1, <2>2, <2>3 DEF TreeInv
<1>4. ASSUME StartWorkers \/ ReceiveStdout \/ ReceiveStderr \/ CheckLoop \/ AwaitGrace
             \/ CollectStdout \/ CollectStderr
      PROVE TreeInv'
      BY <1>4 DEF StartWorkers, ReceiveStdout, ReceiveStderr, ReceiveCapture, CheckLoop,
                  AwaitGrace, CollectStdout, CollectStderr, CollectCapture, TreeInv, Running,
                  CallerInv, Terminating
<1>5. ASSUME TryWait PROVE TreeInv'
      BY <1>0, <1>5 DEF TryWait, TreeInv, TypeOK, Running
<1>6. ASSUME Terminate PROVE TreeInv'
      BY <1>0, <1>6, KillAllStops DEF CloseJob, Terminate, TreeInv, CallerInv
<1>7. ASSUME ConfirmGone PROVE TreeInv'
      BY <1>7 DEF ConfirmGone, GroupExists, TreeInv, Running
<1>8. ASSUME KillGroup PROVE TreeInv'
      BY <1>0, <1>8, KillAllStops DEF KillGroup, TreeInv, CallerInv
<1>9. ASSUME Reap PROVE TreeInv'
      BY <1>0, <1>9 DEF Reap, TreeInv, TypeOK, Running, Failure
<1>10. ASSUME JoinStdin PROVE TreeInv'
      BY <1>0, <1>10, KillAllStops DEF CloseJob, JoinStdin, TreeInv, Running
<1> QED BY <1>1, <1>2, <1>3, <1>4, <1>5, <1>6, <1>7, <1>8, <1>9, <1>10 DEF Caller

\* TreeInv is an invariant where there is a `kill` utility.
LEMMA TreeInvariant ==
    ASSUME "nokill" \notin Faults
    PROVE  Spec => []TreeInv
<1>1. TypeOK /\ CallerInv /\ TreeInv /\ [Next]_vars => TreeInv'
  <2>1. TreeInv /\ UNCHANGED vars => TreeInv'
        BY DEF TreeInv, Running, vars, osVars, workerVars, callerVars
  <2> QED BY <2>1, CallerTree, ThreadTree, SystemTree DEF Next, Returned
<1> QED BY <1>1, InitTree, TypeCorrect, CallerInvariant, PTL DEF Spec

\* When terminate() answers Graceful or Forced, no process of the group or of the
\* Job Object is left running, provided the `kill` utility exists: without it
\* kill -0 fails for a living group too, and terminate() takes it for dead.
THEOREM TerminationIsComplete ==
    ASSUME "nokill" \notin Faults
    PROVE  Spec => []TreeIsTerminated
<1>1. TreeInv => TreeIsTerminated
      BY DEF TreeInv, TreeIsTerminated
<1> QED BY <1>1, TreeInvariant, PTL

\* ---------------------------------------------------------------------------
\* What a timeout ends on Unix.

\* Every process that runs is in the group: the child is born in it and a fork
\* stays in the group of its parent.
GroupInv == \A p \in Procs : Running(p) => p \in tree

\* What exec() has returned is an outcome of its interface.
OutcomeInv == outcome = NoOutcome \/ outcome \in Outcomes

\* On Unix, when no process starts a group of its own, every step keeps all that
\* runs in the group.
LEMMA NextGroup ==
    ASSUME Platform = "unix", "leave" \notin Faults, TypeOK, TreeInv, GroupInv,
           [Next]_vars
    PROVE  GroupInv'
<1> USE DEF osVars, workerVars, callerVars, Goto, Returns
<1>1. ASSUME NEW p \in Procs, NEW d \in Descendants, Fork(p, d) PROVE GroupInv'
      BY <1>1 DEF Fork, GroupInv, Running, TypeOK
<1>2. ASSUME NEW d \in Descendants, Leave(d) \/ ReapDescendant(d) PROVE GroupInv'
      BY <1>2 DEF Leave, ReapDescendant, GroupInv, Running, TypeOK
<1>3. ASSUME NEW p \in Procs, NEW st \in ExitStatuses, Exit(p, st) PROVE GroupInv'
      BY <1>3 DEF Exit, GroupInv, Running, TypeOK
<1>4. CASE \/ \E p \in Procs, s \in Pipes : Close(p, s)
           \/ \E p \in Procs, s \in Streams : Write(p, s)
           \/ \E p \in Procs : ReadStdin(p)
      BY <1>4 DEF Close, Write, ReadStdin, GroupInv, Running
<1>5. CASE Spawn
  <2>1. \A p \in Procs : ~Running(p)
        BY <1>5 DEF Spawn, TreeInv, GroupInv
  <2> QED BY <1>5, <2>1 DEF Spawn, GroupInv, Running, TypeOK
<1>6. CASE Attach \/ KillGroup \/ Terminate \/ JoinStdin
  <2>1. ASSUME NEW K, KillAll(K) PROVE GroupInv'
        BY <2>1, KillAllStops DEF GroupInv
  <2> QED BY <1>6, <2>1 DEF Attach, KillGroup, Terminate, JoinStdin, GroupInv, Running
<1>7. CASE Abandon \/ TryWait \/ Reap
      BY <1>7 DEF Abandon, TryWait, Reap, GroupInv, Running, TypeOK
<1>8. CASE \/ StartWorkers \/ ReceiveStdout \/ ReceiveStderr \/ CheckLoop \/ AwaitGrace
           \/ ConfirmGone \/ CollectStdout \/ CollectStderr
      BY <1>8 DEF StartWorkers, ReceiveStdout, ReceiveStderr, ReceiveCapture, CheckLoop,
                  AwaitGrace, ConfirmGone, CollectStdout, CollectStderr, CollectCapture,
                  GroupInv, Running
<1>9. CASE (\E s \in Streams : Drain(s)) \/ Worker \/ Clock
      BY <1>9 DEF Drain, DrainRead, DrainEof, DrainFails, Worker, WorkerWrites, WorkerEnds,
                  Clock, DeadlinePasses, GracePasses, GroupInv, Running
<1>10. CASE UNCHANGED vars
      BY <1>10 DEF vars, GroupInv, Running
<1> QED BY <1>1, <1>2, <1>3, <1>4, <1>5, <1>6, <1>7, <1>8, <1>9, <1>10
        DEF Next, Caller, System, Returned

\* On Unix, with a `kill` utility and when no process starts a group of its own,
\* a timeout ends every process the command started, however deep the tree and
\* whatever forks while terminate() is at work, unless the outcome says
\* Incomplete.
THEOREM TimeoutIsThorough ==
    ASSUME Platform = "unix", "leave" \notin Faults, "nokill" \notin Faults
    PROVE  Spec => []TimeoutEndsDescendants
<1>1. Init => GroupInv /\ OutcomeInv
      BY DEF Init, GroupInv, OutcomeInv, Running
<1>2. TypeOK /\ TreeInv /\ GroupInv /\ [Next]_vars => GroupInv'
      BY NextGroup
<1>3. TypeOK /\ CallerInv /\ OutcomeInv /\ [Next]_vars => OutcomeInv'
      BY OutcomeStep DEF OutcomeInv
<1>4. GroupInv /\ OutcomeInv /\ TreeIsTerminated => TimeoutEndsDescendants
  <2> SUFFICES ASSUME GroupInv, OutcomeInv, TreeIsTerminated, outcome.timed_out,
                      outcome.termination # "Incomplete"
               PROVE  \A p \in Procs : ~Running(p)
      BY DEF TimeoutEndsDescendants
  <2>1. outcome.termination \in TerminationOutcomes
    <3>1. CASE outcome = NoOutcome
          BY <3>1 DEF NoOutcome, Failure
    <3>2. CASE outcome \in Completed
          BY <3>2 DEF Completed
    <3>3. CASE outcome \in TimedOut
          BY <3>3 DEF TimedOut
    <3>4. CASE \E k : outcome = Failure(k)
          BY <3>4 DEF Failure
    <3> QED BY <3>1, <3>2, <3>3, <3>4 DEF OutcomeInv, Outcomes
  <2>2. outcome.termination \in {"Graceful", "Forced"}
        BY <2>1 DEF TerminationOutcomes
  <2> QED BY <2>2 DEF GroupInv, TreeIsTerminated
<1> QED BY <1>1, <1>2, <1>3, <1>4, TypeCorrect, CallerInvariant, TreeInvariant,
        TerminationIsComplete, PTL DEF Spec

==============================================================================
