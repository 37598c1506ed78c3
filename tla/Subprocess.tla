------------------------------ MODULE Subprocess -----------------------------
(***************************************************************************)
(* RunSubprocessCapture (subprocess_runner.cpp), which runs the shell of   *)
(* the bash tool, ripgrep for the grep tool and for the file index, and    *)
(* the credential command of Bedrock.  The runner polls a pipe that the    *)
(* child and everything the child starts write to; the child may exit      *)
(* while a process it started keeps the pipe open, and may close its own   *)
(* end and go on.  A stop or the timeout kills the process group.          *)
(*                                                                         *)
(* Output is counted in chunks.  leader is the process that was spawned,   *)
(* helper one that it left in the background.                              *)
(***************************************************************************)
EXTENDS Naturals

CONSTANTS MaxChunks, \* chunks that the leader writes, and that the helper writes
          MaxOutput  \* max_output_bytes, in chunks

VARIABLES caller,   \* "bash", "grep" or "walk"
          phase, leader, helper, pipe, written, captured, result, stop, late

vars == <<caller, phase, leader, helper, pipe, written, captured, result, stop, late>>

Nothing == [cancelled |-> FALSE, timed_out |-> FALSE, truncated |-> FALSE,
            spawn_failed |-> FALSE, exit_code |-> "none", outcome |-> "none"]

\* The leader and the helper are "none", "writing" (they hold the pipe),
\* "silent" (they closed it), "exited" or "reaped"; the pipe counts the chunks
\* of each of them that have not been read.
Init ==
  /\ caller \in {"bash", "grep", "walk"} /\ phase = "idle"
  /\ leader = "none" /\ helper = "none" /\ pipe = [leader |-> 0, helper |-> 0]
  /\ written = [leader |-> 0, helper |-> 0] /\ captured = [leader |-> 0, helper |-> 0]
  /\ result = Nothing /\ stop = FALSE /\ late = FALSE

Alive == {"writing", "silent"}
Size == captured.leader + captured.helper
Empty == pipe.leader = 0 /\ pipe.helper = 0
HungUp == leader # "writing" /\ helper # "writing"
HasTimeout == caller # "grep"

-----------------------------------------------------------------------------
(* The processes.                                                          *)

Processes(p, state) ==
  IF p = "leader" THEN leader' = state /\ UNCHANGED helper
  ELSE helper' = state /\ UNCHANGED leader

State(p) == IF p = "leader" THEN leader ELSE helper

WriteOutput ==
  /\ \E p \in {"leader", "helper"} :
       /\ State(p) = "writing" /\ written[p] < MaxChunks
       /\ written' = [written EXCEPT ![p] = @ + 1]
       \* the pipe has no reader once the runner has closed it
       /\ pipe' = IF phase \in {"killing", "waiting", "returned"} THEN pipe
                  ELSE [pipe EXCEPT ![p] = @ + 1]
  /\ UNCHANGED <<caller, phase, leader, helper, captured, result, stop, late>>

StartHelper ==
  /\ leader = "writing" /\ helper = "none" /\ helper' = "writing"
  /\ UNCHANGED <<caller, phase, leader, pipe, written, captured, result, stop, late>>

\* A process closes its output, or exits.
LetGo ==
  /\ \E p \in {"leader", "helper"} :
       \/ State(p) = "writing" /\ Processes(p, "silent")
       \/ State(p) \in Alive /\ Processes(p, "exited")
  /\ UNCHANGED <<caller, phase, pipe, written, captured, result, stop, late>>

RequestStop ==
  /\ ~stop /\ phase \notin {"idle", "returned"} /\ stop' = TRUE
  /\ UNCHANGED <<caller, phase, leader, helper, pipe, written, captured, result, late>>

TimePasses ==
  /\ ~late /\ HasTimeout /\ phase \notin {"idle", "returned"} /\ late' = TRUE
  /\ UNCHANGED <<caller, phase, leader, helper, pipe, written, captured, result, stop>>

-----------------------------------------------------------------------------
(* The runner.                                                             *)

Spawn ==
  /\ phase = "idle"
  /\ \/ leader' = "writing" /\ phase' = "polling" /\ UNCHANGED result
     \/ /\ leader' = "none" /\ phase' = "returned"
        /\ result' = [Nothing EXCEPT !.spawn_failed = TRUE]
  /\ UNCHANGED <<caller, helper, pipe, written, captured, stop, late>>

\* The top of the loop, and of the loop that waits for the exit: a stop is seen
\* before the timeout.
GiveUp ==
  /\ phase \in {"polling", "waiting"} /\ (stop \/ late)
  /\ result' = [result EXCEPT !.cancelled = stop, !.timed_out = ~stop]
  /\ phase' = "killing"
  /\ UNCHANGED <<caller, leader, helper, pipe, written, captured, stop, late>>

\* AppendCapped for one chunk of p.
Append(p) ==
  /\ pipe[p] > 0 /\ pipe' = [pipe EXCEPT ![p] = @ - 1]
  /\ IF Size >= MaxOutput
     THEN result' = [result EXCEPT !.truncated = TRUE] /\ UNCHANGED captured
     ELSE captured' = [captured EXCEPT ![p] = @ + 1] /\ UNCHANGED result

\* poll says there is something to read: one read.  After a hang-up the rest is
\* read until the end of the file.
PollReadable ==
  /\ phase = "polling" /\ ~stop /\ ~late /\ ~Empty
  /\ \E p \in {"leader", "helper"} : Append(p)
  /\ phase' = IF HungUp THEN "hung_up" ELSE "polling"
  /\ UNCHANGED <<caller, leader, helper, written, stop, late>>

PollHangup ==
  /\ phase = "polling" /\ ~stop /\ ~late /\ Empty /\ HungUp
  /\ phase' = "hung_up"
  /\ UNCHANGED <<caller, leader, helper, pipe, written, captured, result, stop, late>>

ReadToTheEnd ==
  /\ phase = "hung_up"
  /\ \/ (\E p \in {"leader", "helper"} : Append(p)) /\ UNCHANGED phase
     \/ Empty /\ phase' = "waiting" /\ UNCHANGED <<pipe, captured, result>>
  /\ UNCHANGED <<caller, leader, helper, written, stop, late>>

\* poll found nothing for its interval: the child may have exited and left a
\* helper with the pipe.  Between poll and waitpid the child may still write,
\* so what the pipe holds by then is read.
PollTimesOut ==
  /\ phase = "polling" /\ ~stop /\ ~late /\ Empty /\ ~HungUp
  /\ phase' = "checking"
  /\ UNCHANGED <<caller, leader, helper, pipe, written, captured, result, stop, late>>

\* A mutant: an exit ends the capture at once.
AfterExitAtOnce == "returned"

AfterExit == "draining"
CheckExit ==
  /\ phase = "checking"
  /\ IF leader = "exited" THEN leader' = "reaped" /\ phase' = AfterExit
     ELSE phase' = "polling" /\ UNCHANGED leader
  /\ UNCHANGED <<caller, helper, pipe, written, captured, result, stop, late>>

Return(r) == /\ phase' = "returned"
             /\ result' = [r EXCEPT !.exit_code = "of_leader"]

Drain ==
  /\ phase = "draining"
  /\ \/ /\ ~result.truncated /\ ~Empty
        /\ \E p \in {"leader", "helper"} : Append(p)
        /\ UNCHANGED phase
     \/ /\ Empty \/ result.truncated
        /\ Return(result) /\ UNCHANGED <<pipe, captured>>
  /\ UNCHANGED <<caller, leader, helper, written, stop, late>>

\* After the end of the output: the pipe is closed, the exit is waited for.
WaitForExit ==
  /\ phase = "waiting" /\ leader = "exited"
  /\ leader' = "reaped" /\ Return(result)
  /\ UNCHANGED <<caller, helper, pipe, written, captured, stop, late>>

\* KillProcessGroupWithGrace: SIGTERM, which a process may ignore or obey in the
\* grace period; then SIGKILL to the group, whether the leader is gone or not.
Killed(p) == IF p = "none" THEN "none" ELSE "exited"

KillProcessGroupWithGrace ==
  /\ phase = "killing" /\ phase' = "returned"
  /\ leader' = "reaped" /\ helper' = Killed(helper)
  /\ UNCHANGED <<caller, pipe, written, captured, result, stop, late>>

\* What the caller makes of it: bash and grep report a stop, and the walker
\* falls back to its own walk when ripgrep did not do its work.
Outcome(r) ==
  LET failed == IF caller = "walk" THEN "fallback" ELSE "error" IN
  IF r.spawn_failed THEN {failed}
  ELSE IF r.cancelled THEN {IF caller = "walk" THEN "cancelled" ELSE "error"}
  ELSE IF r.timed_out THEN {failed}
  ELSE IF r.truncated THEN {"partial", failed}
  ELSE {"whole", failed}

UseResult ==
  /\ phase = "returned" /\ result.outcome = "none"
  /\ \E o \in Outcome(result) : result' = [result EXCEPT !.outcome = o]
  /\ UNCHANGED <<caller, phase, leader, helper, pipe, written, captured, stop, late>>

Runner == \/ Spawn \/ GiveUp \/ PollReadable \/ PollHangup \/ ReadToTheEnd
          \/ PollTimesOut \/ CheckExit \/ Drain \/ WaitForExit
          \/ KillProcessGroupWithGrace \/ UseResult

Next == \/ Runner \/ WriteOutput \/ StartHelper \/ LetGo \/ RequestStop \/ TimePasses

Spec == Init /\ [][Next]_vars

-----------------------------------------------------------------------------

TypeOK ==
  /\ caller \in {"bash", "grep", "walk"}
  /\ phase \in {"idle", "polling", "hung_up", "checking", "draining", "waiting",
                "killing", "returned"}
  /\ {leader, helper} \subseteq {"none", "writing", "silent", "exited", "reaped"}
  /\ \A p \in {"leader", "helper"} : /\ written[p] \in 0..MaxChunks
                                     /\ pipe[p] + captured[p] <= written[p]

\* A result that is reported as whole holds everything the child wrote before
\* it exited, whichever way the runner learned of the end.
WholeIsWhole ==
  result.outcome = "whole" => captured.leader = written.leader

\* When the call has returned the child has been reaped, and after a stop or a
\* timeout nothing of its process group is left running.
NothingIsLeft ==
  phase = "returned"
    => /\ leader \in {"none", "reaped"}
       /\ (result.cancelled \/ result.timed_out) => helper \notin Alive
=============================================================================
