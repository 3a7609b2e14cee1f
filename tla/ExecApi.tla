------------------------------- MODULE ExecApi -------------------------------
(***************************************************************************)
(* The values exec() of semasm-build can return: Result<CommandOutput,     *)
(* BuildError>, abstracted to what its callers look at.  ExecContract says *)
(* that a call returns one of them, Exec that the code does, and the       *)
(* modules that run tools take Outcomes as the set of possible answers.    *)
(***************************************************************************)
\* std::process::ExitStatus of a process: an exit code (0 or another one) or
\* termination by a signal, which has no code.
ExitStatuses == {"code0", "code1", "signal"}

TerminationOutcomes == {"Graceful", "Forced", "Incomplete"}

\* ExitStatus::code(); "None" when there is no status or it was a signal.
ExitCode(status) == IF status \in {"code0", "code1"} THEN status ELSE "None"

\* Ok(CommandOutput): finished by itself, or terminated at the deadline.  The
\* exit status of a timed-out command is the one try_wait() or wait() returned,
\* so a launcher that had already exited keeps its exit code; it is missing
\* when wait() fails.
Completed == [kind : {"ok"}, timed_out : {FALSE}, status : ExitStatuses,
              termination : {"none"}]

TimedOut == [kind : {"ok"}, timed_out : {TRUE}, status : ExitStatuses \cup {"none"},
             termination : TerminationOutcomes]

\* BuildError: the program was never started, or could not be polled.
Failure(kind) == [kind |-> kind, timed_out |-> FALSE, status |-> "none",
                  termination |-> "none"]

Outcomes == Completed \cup TimedOut
            \cup {Failure(k) : k \in {"ProgramNotFound", "Spawn", "Poll"}}

\* CommandOutput::success.
Success(o) == o.kind = "ok" /\ ~o.timed_out /\ ExitCode(o.status) = "code0"

NoOutcome == Failure("pending")

==============================================================================
