----------------------------- MODULE PiPipeline -----------------------------
(***************************************************************************)
(* Concurrent runs of PiAIPipeline (ai/pi_pipeline.py): the process-wide   *)
(* admission, the two RPC calls, the filesystem units on the private       *)
(* workspace and the public picture, and the cleanup that every failure    *)
(* and every cancellation, however often repeated, has to pass through.    *)
(* GenerationAttempts sees all of this as one provider task.               *)
(***************************************************************************)
EXTENDS Naturals, FiniteSets

CONSTANTS
  Attempts,  \* generation attempts, each with its token
  Capacity   \* max_concurrent_attempts

ASSUME CapacityAssumption == Capacity \in 1..3
ASSUME AttemptsAssumption == IsFiniteSet(Attempts)

VARIABLES
  pc,         \* where run() of each attempt stands
  active,     \* _ProcessAdmission._active
  private,    \* attempts with a workspace below the private root
  public,     \* attempts with a picture below the public root
  cancelled,  \* attempts with an undelivered cancellation
  outcome,    \* what run() returns or raises
  stuck       \* history: attempts whose discard failed

vars == <<pc, active, private, public, cancelled, outcome, stuck>>

\* Between try_acquire and release.
Admitted == {"prepare", "image", "publish", "read", "evaluate", "hung", "cleanup", "discard", "release"}

\* Suspended in a filesystem unit: a thread that always runs to its end.
Units == {"prepare", "publish", "read", "cleanup", "discard"}

TypeOK ==
  /\ pc \in [Attempts -> {"idle", "claimed", "done"} \cup Admitted]
  /\ active \in 0..Capacity
  /\ private \in SUBSET Attempts /\ public \in SUBSET Attempts
  /\ cancelled \in SUBSET Attempts /\ stuck \in SUBSET Attempts
  /\ outcome \in [Attempts -> {"none", "success", "failure", "busy", "cancelled"}]

Init ==
  /\ pc = [a \in Attempts |-> "idle"]
  /\ active = 0
  /\ private = {} /\ public = {} /\ cancelled = {} /\ stuck = {}
  /\ outcome = [a \in Attempts |-> "none"]

Goto(a, point) == pc' = [pc EXCEPT ![a] = point]
Result(a, what) == outcome' = [outcome EXCEPT ![a] = what]

-----------------------------------------------------------------------------
\* The service has acquired the claim of the round and starts run().
Claim(a) ==
  /\ pc[a] = "idle"
  /\ Goto(a, "claimed")
  /\ UNCHANGED <<active, private, public, cancelled, outcome, stuck>>

\* A task cancelled before its first step never enters run().
NeverRuns(a) ==
  /\ pc[a] = "claimed" /\ a \in cancelled
  /\ Goto(a, "done") /\ Result(a, "cancelled")
  /\ cancelled' = cancelled \ {a}
  /\ UNCHANGED <<active, private, public, stuck>>

\* Variant for mutation: a full admission has room for one more.
AdmitOneMore(a) ==
  /\ pc[a] = "claimed" /\ a \notin cancelled
  /\ active <= Capacity
  /\ active' = active + 1
  /\ Goto(a, "prepare")
  /\ UNCHANGED <<private, public, cancelled, outcome, stuck>>

\* Variant for mutation: a refused run passes through the release as well.
AdmitInsideTry(a) ==
  /\ pc[a] = "claimed" /\ a \notin cancelled
  /\ \/ active < Capacity /\ active' = active + 1 /\ Goto(a, "prepare") /\ UNCHANGED outcome
     \/ active >= Capacity /\ Goto(a, "release") /\ Result(a, "busy") /\ UNCHANGED active
  /\ UNCHANGED <<private, public, cancelled, stuck>>

\* try_acquire: a slot or, without queueing, a busy failure.  Nothing waits
\* inside the condition, so both are immediate.  Invalid inputs give the slot
\* back with nothing created and nothing to discard.
Admit(a) ==
  /\ pc[a] = "claimed" /\ a \notin cancelled
  /\ \/ /\ active < Capacity
        /\ active' = active + 1
        /\ \/ Goto(a, "prepare") /\ UNCHANGED outcome
           \/ Goto(a, "release") /\ Result(a, "failure")
     \/ /\ active >= Capacity
        /\ Goto(a, "done") /\ Result(a, "busy")
        /\ UNCHANGED active
  /\ UNCHANGED <<private, public, cancelled, stuck>>

\* A unit that failed, or a cancellation that arrived while the unit ran and is
\* raised after it: both go to the discard.
Abort(a) ==
  /\ Goto(a, "discard")
  /\ Result(a, IF a \in cancelled THEN "cancelled" ELSE "failure")
  /\ cancelled' = cancelled \ {a}

Continue(a, point) ==
  /\ a \notin cancelled
  /\ Goto(a, point)
  /\ UNCHANGED <<outcome, cancelled>>

\* _prepare_workspace
Prepare(a) ==
  /\ pc[a] = "prepare"
  /\ \/ private' = private \cup {a} /\ Continue(a, "image")
     \/ private' = private \cup {a} /\ a \in cancelled /\ Abort(a)
     \/ UNCHANGED private /\ Abort(a)
  /\ UNCHANGED <<active, public, stuck>>

\* _call_rpc and the validation of its answer.  The deadline, or a cancellation,
\* ends the exchange, but run_pi_rpc returns only after its cleanup, which may
\* wait for a reader for ever and swallows cancellations (ReturnsUnlessStuck of
\* PiRpcTransport): then the run hangs, and with it its slot.
CallRpc(a, from, to) ==
  /\ pc[a] = from
  /\ \/ Continue(a, to)
     \/ Abort(a)
     \/ Goto(a, "hung") /\ UNCHANGED <<outcome, cancelled>>
  /\ UNCHANGED <<active, private, public, stuck>>

\* _publish
Publish(a) ==
  /\ pc[a] = "publish"
  /\ \/ public' = public \cup {a} /\ Continue(a, "read")
     \/ public' = public \cup {a} /\ a \in cancelled /\ Abort(a)
     \/ UNCHANGED public /\ Abort(a)
  /\ UNCHANGED <<active, private, stuck>>

\* _read_published and _read_target
Read(a) ==
  /\ pc[a] = "read"
  /\ Continue(a, "evaluate") \/ Abort(a)
  /\ UNCHANGED <<active, private, public, stuck>>

\* Variant for mutation: a success even if the cancellation arrived meanwhile
\* or the workspace could not be removed.
CleanupHopefully(a) ==
  /\ pc[a] = "cleanup"
  /\ private' = private \ {a} \/ UNCHANGED private
  /\ Goto(a, "release") /\ Result(a, "success")
  /\ UNCHANGED <<active, public, cancelled, stuck>>

\* _cleanup_workspace: only when it went well is the result a success.
Cleanup(a) ==
  /\ pc[a] = "cleanup"
  /\ \/ /\ private' = private \ {a} /\ a \notin cancelled
        /\ Goto(a, "release") /\ Result(a, "success") /\ UNCHANGED cancelled
     \/ private' = private \ {a} /\ a \in cancelled /\ Abort(a)
     \/ UNCHANGED private /\ Abort(a)
  /\ UNCHANGED <<active, public, stuck>>

\* _discard_safely: its errors are swallowed, a cancellation is raised after it.
Discard(a) ==
  /\ pc[a] = "discard"
  /\ \/ private' = private \ {a} /\ public' = public \ {a} /\ UNCHANGED stuck
     \/ private' \in {private, private \ {a}} /\ UNCHANGED public /\ stuck' = stuck \cup {a}
  /\ Goto(a, "release")
  /\ Result(a, IF a \in cancelled THEN "cancelled" ELSE outcome[a])
  /\ cancelled' = cancelled \ {a}
  /\ UNCHANGED active

\* Variant for mutation: a cancelled run forgets its slot.
ReleaseUnlessCancelled(a) ==
  /\ pc[a] = "release"
  /\ active' = IF outcome[a] = "cancelled" THEN active ELSE active - 1
  /\ Goto(a, "done")
  /\ UNCHANGED <<private, public, cancelled, outcome, stuck>>

\* release, in the finally of run().
Release(a) ==
  /\ pc[a] = "release"
  /\ active' = active - 1
  /\ Goto(a, "done")
  /\ UNCHANGED <<private, public, cancelled, outcome, stuck>>

\* Any await but the first may meet a cancellation, and more than one.
Cancel(a) ==
  /\ pc[a] \in Units \cup {"claimed", "image", "evaluate", "hung"} /\ a \notin cancelled
  /\ cancelled' = cancelled \cup {a}
  /\ UNCHANGED <<pc, active, private, public, outcome, stuck>>

-----------------------------------------------------------------------------
RunStep(a) ==
  \/ NeverRuns(a) \/ Admit(a) \/ Prepare(a)
  \/ CallRpc(a, "image", "publish") \/ Publish(a) \/ Read(a)
  \/ CallRpc(a, "evaluate", "cleanup") \/ Cleanup(a) \/ Discard(a) \/ Release(a)

Next == \E a \in Attempts : Claim(a) \/ RunStep(a) \/ Cancel(a)

Spec == Init /\ [][Next]_vars

\* Filesystem units end, and every call of run_pi_rpc returns or hangs for good.
FairSpec == Spec /\ \A a \in Attempts : WF_vars(RunStep(a))

-----------------------------------------------------------------------------
\* No slot is leaked and none is given back twice, whatever mix of refusals,
\* failures and cancellations went through the admission.
SlotsCounted == active = Cardinality({a \in Attempts : pc[a] \in Admitted})

\* A run leaves the picture exactly when it succeeded and never a workspace,
\* unless the filesystem refused the discard itself; repeated cancellations do
\* not skip the cleanup.
EndedClean ==
  \A a \in Attempts \ stuck : pc[a] = "done" =>
    a \notin private /\ (a \in public <=> outcome[a] = "success")

Hung == {a \in Attempts : pc[a] = "hung"}

\* A full admission opens again, however its runs end, unless every slot is held
\* by a call whose cleanup hangs; then all later attempts are refused as busy.
SlotsReturn == active = Capacity ~> active < Capacity \/ Cardinality(Hung) = Capacity

=============================================================================
