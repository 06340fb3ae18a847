--------------------------- MODULE PiRpcTransport ---------------------------
(***************************************************************************)
(* One call of run_pi_rpc (ai/pi_rpc.py): the child process, the two tasks *)
(* that drain its output into one bounded queue, the consumer that handles *)
(* the queue until the agent settles, and the cleanup that ends them all.  *)
(* A line of the child's stdout is what the call makes of it: an ordinary  *)
(* event, agent_settled, an event handle_item refuses (PiRpcProtocol says  *)
(* which), or garbage that the reader itself reports.  Time is left out: a *)
(* deadline may pass whenever the code waits for one.                      *)
(***************************************************************************)
EXTENDS Naturals, SequencesExt

CONSTANTS
  Capacity,  \* bound of the queue: min(_MAX_PENDING_RECORDS, max_jsonl_records)
  MaxLines   \* lines the child may write, the bound of the model

ASSUME SizeAssumption == Capacity \in Nat \ {0} /\ MaxLines \in Nat

Streams == {"stdout", "stderr"}
Lines == {"event", "settled", "refused", "garbage"}
Items == {"event", "settled", "refused", "failure", "stdout_end", "stderr_end"}

VARIABLES
  child,      \* "running", or how it exited: "zero", "nonzero"
  written,    \* history: the lines the child wrote
  pipe,       \* those the reader has not read yet
  queue,
  reader,     \* each reader task: at its read, at a put, at the put of its finally
  item,       \* what it puts
  failed,     \* readers that reported a failure and only drain from then on
  interrupted,\* readers the cleanup has cancelled
  stage,      \* where the call stands
  settled, ended,  \* agent_settled handled; end of stdout handled
  handled,    \* history: the lines handled
  outcome

childVars == <<child, written>>
readerVars == <<reader, item, failed>>
callVars == <<stage, settled, ended, handled, outcome>>
vars == <<childVars, pipe, queue, readerVars, interrupted, callVars>>

TypeOK ==
  /\ child \in {"running", "zero", "nonzero"}
  /\ written \in Seq(Lines) /\ pipe \in Seq(Lines) /\ handled \in Seq(Lines)
  /\ queue \in Seq(Items) /\ Len(queue) <= Capacity
  /\ reader \in [Streams -> {"reading", "putting", "ending", "done"}]
  /\ item \in [Streams -> Items]
  /\ failed \in SUBSET Streams /\ interrupted \in SUBSET Streams
  /\ stage \in {"prompting", "loop", "grace", "closing", "draining", "returned"}
  /\ settled \in BOOLEAN /\ ended \in BOOLEAN
  /\ outcome \in {"none", "success", "error", "cancelled"}

EndOf(s) == IF s = "stdout" THEN "stdout_end" ELSE "stderr_end"

Init ==
  /\ child = "running"
  /\ written = <<>> /\ pipe = <<>> /\ queue = <<>> /\ handled = <<>>
  /\ reader = [s \in Streams |-> "reading"]
  /\ item = [s \in Streams |-> EndOf(s)]
  /\ failed = {} /\ interrupted = {}
  /\ stage = "prompting"
  /\ settled = FALSE /\ ended = FALSE
  /\ outcome = "none"

Full == Len(queue) >= Capacity

-----------------------------------------------------------------------------
(* The child *)

ChildWrites ==
  /\ child = "running" /\ Len(written) < MaxLines
  /\ \E line \in Lines : written' = Append(written, line) /\ pipe' = Append(pipe, line)
  /\ UNCHANGED <<child, queue, readerVars, interrupted, callVars>>

ChildExits ==
  /\ child = "running"
  /\ child' \in {"zero", "nonzero"}
  /\ UNCHANGED <<written, pipe, queue, readerVars, interrupted, callVars>>

-----------------------------------------------------------------------------
(* The readers: _read_stdout, _read_stderr *)

StartPut(s, what) ==
  /\ reader' = [reader EXCEPT ![s] = "putting"]
  /\ item' = [item EXCEPT ![s] = what]

\* Variant for mutation: put_nowait, which drops a line when the queue is full.
ReadLineLossy ==
  /\ reader["stdout"] = "reading" /\ pipe # <<>>
  /\ pipe' = Tail(pipe)
  /\ \/ ("stdout" \in failed \/ Full) /\ UNCHANGED readerVars
     \/ /\ "stdout" \notin failed /\ ~Full /\ Head(pipe) = "garbage"
        /\ failed' = failed \cup {"stdout"}
        /\ StartPut("stdout", "failure")
     \/ /\ "stdout" \notin failed /\ ~Full /\ Head(pipe) # "garbage"
        /\ StartPut("stdout", Head(pipe)) /\ UNCHANGED failed
  /\ UNCHANGED <<childVars, queue, interrupted, callVars>>

\* A reader that failed reads on, so that the child is not blocked, and drops.
ReadLine ==
  /\ reader["stdout"] = "reading" /\ pipe # <<>>
  /\ pipe' = Tail(pipe)
  /\ \/ "stdout" \in failed /\ UNCHANGED readerVars
     \/ /\ "stdout" \notin failed /\ Head(pipe) = "garbage"
        /\ failed' = failed \cup {"stdout"}
        /\ StartPut("stdout", "failure")
     \/ /\ "stdout" \notin failed /\ Head(pipe) # "garbage"
        /\ StartPut("stdout", Head(pipe)) /\ UNCHANGED failed
  /\ UNCHANGED <<childVars, queue, interrupted, callVars>>

\* stderr is only counted; past its limit it is reported once.
StderrOverflows ==
  /\ reader["stderr"] = "reading" /\ child = "running" /\ "stderr" \notin failed
  /\ failed' = failed \cup {"stderr"}
  /\ StartPut("stderr", "failure")
  /\ UNCHANGED <<childVars, pipe, queue, interrupted, callVars>>

EndOfFile(s) ==
  /\ reader[s] = "reading" /\ child # "running"
  /\ s = "stdout" => pipe = <<>>
  /\ reader' = [reader EXCEPT ![s] = "ending"]
  /\ item' = [item EXCEPT ![s] = EndOf(s)]
  /\ UNCHANGED <<childVars, pipe, queue, failed, interrupted, callVars>>

\* Variant for mutation: an unbounded queue.
PutUnbounded(s) ==
  /\ reader[s] \in {"putting", "ending"}
  /\ queue' = Append(queue, item[s])
  /\ reader' = [reader EXCEPT ![s] = IF @ = "ending" THEN "done" ELSE "reading"]
  /\ UNCHANGED <<childVars, pipe, item, failed, interrupted, callVars>>

\* queue.put waits while the queue is full.
Put(s) ==
  /\ reader[s] \in {"putting", "ending"} /\ ~Full
  /\ queue' = Append(queue, item[s])
  /\ reader' = [reader EXCEPT ![s] = IF @ = "ending" THEN "done" ELSE "reading"]
  /\ UNCHANGED <<childVars, pipe, item, failed, interrupted, callVars>>

-----------------------------------------------------------------------------
(* The consumer: the loop of run_pi_rpc and its grace period *)

Finish(result) == stage' = "closing" /\ outcome' = result

SendPrompt ==
  /\ stage = "prompting"
  /\ stage' = "loop"
  /\ UNCHANGED <<childVars, pipe, queue, readerVars, interrupted, settled, ended, handled, outcome>>

\* Variant for mutation: an event after agent_settled is ignored.
HandleLate ==
  /\ stage \in {"loop", "grace"} /\ queue # <<>>
  /\ queue' = Tail(queue)
  /\ LET what == Head(queue) IN
     /\ handled' = IF what \in Lines THEN Append(handled, what) ELSE handled
     /\ ended' = (ended \/ what = "stdout_end")
     /\ settled' = (settled \/ what = "settled")
     /\ \/ /\ what \in {"event", "settled", "stderr_end"} \/ settled
           /\ stage' = (IF what = "settled" THEN "grace" ELSE stage) /\ UNCHANGED outcome
        \/ /\ what \in {"refused", "failure", "stdout_end"} /\ ~settled
           /\ Finish("error")
  /\ UNCHANGED <<childVars, pipe, readerVars, interrupted>>

\* handle_item: what it accepts, and what makes it raise.
Handle ==
  /\ stage \in {"loop", "grace"} /\ queue # <<>>
  /\ queue' = Tail(queue)
  /\ LET what == Head(queue) IN
     /\ handled' = IF what \in Lines THEN Append(handled, what) ELSE handled
     /\ ended' = (ended \/ what = "stdout_end")
     /\ settled' = (settled \/ what = "settled")
     /\ \/ /\ what \in {"event", "settled"} /\ ~settled
           /\ stage' = (IF what = "settled" THEN "grace" ELSE stage) /\ UNCHANGED outcome
        \/ /\ what = "stderr_end" \/ (what = "stdout_end" /\ settled)
           /\ UNCHANGED <<stage, outcome>>
        \/ /\ what \in {"refused", "failure"} \/ (what = "stdout_end" /\ ~settled)
                \/ (what \in Lines /\ settled)
           /\ Finish("error")
  /\ UNCHANGED <<childVars, pipe, readerVars, interrupted>>

\* The child exited and, after one turn of the event loop, nothing was queued.
ChildGone ==
  /\ stage = "loop" /\ child # "running" /\ queue = <<>>
  /\ Finish("error")
  /\ UNCHANGED <<childVars, pipe, queue, readerVars, interrupted, settled, ended, handled>>

\* Variant for mutation: the prompt is written without a deadline.
TimeoutInLoop ==
  /\ stage = "loop"
  /\ Finish("error")
  /\ UNCHANGED <<childVars, pipe, queue, readerVars, interrupted, settled, ended, handled>>

\* The hard deadline, or a failure to write to the child.
Timeout ==
  /\ stage \in {"prompting", "loop"}
  /\ Finish("error")
  /\ UNCHANGED <<childVars, pipe, queue, readerVars, interrupted, settled, ended, handled>>

GraceEnds ==
  /\ stage = "grace"
  /\ Finish(IF ~ended /\ child = "nonzero" THEN "error" ELSE "success")
  /\ UNCHANGED <<childVars, pipe, queue, readerVars, interrupted, settled, ended, handled>>

\* The caller cancels; _cleanup_resilient remembers a cancellation that comes
\* later and does not let it through.
Cancel ==
  /\ stage # "returned" /\ outcome # "cancelled"
  /\ outcome' = "cancelled"
  /\ stage' = IF stage = "draining" THEN stage ELSE "closing"
  /\ UNCHANGED <<childVars, pipe, queue, readerVars, interrupted, settled, ended, handled>>

-----------------------------------------------------------------------------
(* The cleanup: _cleanup_process *)

\* SIGTERM, then SIGKILL, to the whole process group.
KillGroup ==
  /\ stage = "closing"
  /\ stage' = "draining"
  /\ child' = IF child = "running" THEN "nonzero" ELSE child
  /\ UNCHANGED <<written, pipe, queue, readerVars, interrupted, settled, ended, handled, outcome>>

\* Variant for mutation: only a reader waiting at a put is cancelled.
InterruptPut(s) ==
  /\ stage = "draining" /\ reader[s] \in {"putting", "ending"} /\ s \notin interrupted /\ Full
  /\ s = "stderr" => reader["stdout"] = "done" \/ "stdout" \in interrupted
  /\ interrupted' = interrupted \cup {s}
  /\ reader' = [reader EXCEPT ![s] = IF @ = "ending" THEN "done" ELSE "ending"]
  /\ item' = [item EXCEPT ![s] = EndOf(s)]
  /\ UNCHANGED <<childVars, pipe, queue, failed, callVars>>

\* A reader that is not done in time is cancelled, once: it waits at a full queue,
\* or for the end of a pipe that a descendant outside the group still holds.  The
\* cancellation ends its read or its put, and its finally puts the end of the stream.
InterruptReader(s) ==
  /\ stage = "draining" /\ reader[s] # "done" /\ s \notin interrupted
  /\ IF reader[s] = "reading" THEN s = "stdout" => pipe = <<>> ELSE Full
  /\ s = "stderr" => reader["stdout"] = "done" \/ "stdout" \in interrupted
  /\ interrupted' = interrupted \cup {s}
  /\ reader' = [reader EXCEPT ![s] = IF @ = "ending" THEN "done" ELSE "ending"]
  /\ item' = [item EXCEPT ![s] = EndOf(s)]
  /\ UNCHANGED <<childVars, pipe, queue, failed, callVars>>

\* Variant for mutation: the readers are not awaited.
ReturnAtOnce ==
  /\ stage = "draining"
  /\ stage' = "returned"
  /\ UNCHANGED <<childVars, pipe, queue, readerVars, interrupted, settled, ended, handled, outcome>>

\* asyncio.gather waits for both readers.
Return ==
  /\ stage = "draining" /\ \A s \in Streams : reader[s] = "done"
  /\ stage' = "returned"
  /\ UNCHANGED <<childVars, pipe, queue, readerVars, interrupted, settled, ended, handled, outcome>>

-----------------------------------------------------------------------------
ReaderStep == ReadLine \/ \E s \in Streams : EndOfFile(s) \/ Put(s)

CleanupStep == KillGroup \/ Return \/ \E s \in Streams : InterruptReader(s)

Deadline == Timeout \/ GraceEnds

Next ==
  \/ ChildWrites \/ ChildExits \/ ReaderStep \/ StderrOverflows
  \/ SendPrompt \/ Handle \/ ChildGone \/ Deadline \/ Cancel
  \/ CleanupStep

Spec == Init /\ [][Next]_vars

\* Tasks that can run do, and every timer of the code fires; the child may do
\* what it likes and the caller need not cancel.
FairSpec ==
  /\ Spec
  /\ WF_vars(Deadline)
  /\ WF_vars(ReadLine) /\ WF_vars(KillGroup) /\ WF_vars(Return)
  /\ \A s \in Streams : WF_vars(Put(s)) /\ WF_vars(InterruptReader(s))

-----------------------------------------------------------------------------
\* The items of a sequence that are lines of the child.
LinesOf(items) ==
  LET first[n \in 0..Len(items)] ==
        IF n = 0 THEN <<>>
        ELSE IF items[n] \in Lines THEN Append(first[n - 1], items[n]) ELSE first[n - 1]
  IN  first[Len(items)]

\* Every line the child wrote is handled once and in order: up to the first
\* garbage nothing is dropped between the pipe, the reader, the queue and the
\* handler, whichever of the reader, the child's exit and the consumer is first.
NoLineLost ==
  LET held == IF reader["stdout"] = "putting" THEN LinesOf(<<item["stdout"]>>) ELSE <<>>
      known == handled \o LinesOf(queue) \o held \o pipe
  IN  "stdout" \notin failed \cup interrupted => written = known

\* A successful exchange handled lines the child did write, from the first to
\* agent_settled, none refused, and nothing reported broken before.
SuccessIsWhole ==
  outcome = "success" =>
    /\ IsPrefix(handled, written)
    /\ handled = [i \in 1..(Len(handled) - 1) |-> "event"] \o <<"settled">>

\* When the call has returned, nothing it started is left: the child has exited
\* and no reader touches the queue any more.
NothingLeft ==
  stage = "returned" => child # "running" /\ \A s \in Streams : reader[s] = "done"

\* The exchange with the child ends by the deadline whatever the child does:
\* silent, flooding or dead, it cannot keep the consumer.
ExchangeEnds == stage \in {"prompting", "loop", "grace"} ~> stage \in {"draining", "returned"}

\* Once the cleanup runs, the call returns, unless a reader was interrupted at a
\* full queue and waits there to put the end of its stream.
ReturnsUnlessStuck ==
  stage = "draining" ~>
    stage = "returned" \/ (Full /\ \E s \in interrupted : reader[s] = "ending")

\* Once the cleanup runs, the call returns.  design/code-architecture.md promises
\* a hard deadline and that the child is awaited; a full queue breaks it.
CallReturns == stage = "draining" ~> stage = "returned"

=============================================================================
