------------------------- MODULE GeneratedArtifacts -------------------------
(***************************************************************************)
(* The artifact store (ai/generated_artifacts.py) at the level of single   *)
(* filesystem calls: workspaces below the private root, pictures below the *)
(* public root, the store's lock, and the reconciliation at startup with   *)
(* its quarantine names.  PiPipeline and GenerationAttempts see one step   *)
(* per method; here the process can die between any two calls, and the     *)
(* agent of a dead server can go on writing.                               *)
(*                                                                         *)
(* A path is the sequence of its components; a component is a name with a  *)
(* mark: Plain, Temp for a publication in progress, or the number of the   *)
(* start whose reconciliation moved the entry to a quarantine name.  The   *)
(* unique suffixes of the code are abstracted by that number: one start    *)
(* captures a name at most once, as it never recreates one.                *)
(***************************************************************************)
EXTENDS Integers, FiniteSets, SequencesExt, PngContainer

CONSTANTS
  Attempts,    \* attempts, each with its token
  RoundOf,     \* the round of each attempt
  Drafts,      \* the files an agent may write
  MaxEntries,  \* reconciliation_max_entries
  MaxStarts    \* bound: starts of the process

ASSUME EntriesAssumption == MaxEntries \in Nat \ {0}
ASSUME StartsAssumption == MaxStarts \in Nat \ {0}

VARIABLES
  fs,          \* path -> Dir, or the chunks of a file, empty while it is incomplete
  server,      \* "up", "starting" (reconciling) or "down"
  starts,      \* starts of the process so far
  life,        \* how far the pipeline and the service are with an attempt
  agents,      \* attempts whose agent process may still write
  referenced,  \* attempts whose picture a durable round refers to
  lock,        \* the attempt whose method holds the store's lock, or Nobody
  pc,          \* the next filesystem call of that method
  sweep,       \* the reconciliation: planned paths to do, captured paths, directory to tidy
  late         \* history: attempts whose agent wrote after the plan of this start

vars == <<fs, server, starts, life, agents, referenced, lock, pc, sweep, late>>

Nobody == "nobody"
Plain == 0
Temp == -1

\* The lock's holder is told from nobody, and a file is a sequence of chunks.
ASSUME NobodyAssumption == Nobody \notin Attempts
ASSUME DraftsAssumption == Drafts \subseteq Seq(Chunk)

Dir == <<"dir">>
Part == <<>>

Private(a) == <<<<"private", Plain>>, <<RoundOf[a], Plain>>>>
Workspace(a) == Append(Private(a), <<a, Plain>>)
Output(a) == Append(Workspace(a), <<"output", Plain>>)
Draft(a) == Append(Output(a), <<"generated.png", Plain>>)
Public(a) == <<<<"public", Plain>>, <<RoundOf[a], Plain>>>>
Final(a) == Append(Public(a), <<a, Plain>>)
Temporary(a) == Append(Public(a), <<a, Temp>>)

Exists(path) == path \in DOMAIN fs
Below(path) == {p \in DOMAIN fs : IsStrictPrefix(path, p)}
Canonical(path) == \A i \in 1..Len(path) : path[i][2] = Plain

With(path, what) == [p \in DOMAIN fs \cup {path} |-> IF p = path THEN what ELSE fs[p]]
Without(path) == [p \in DOMAIN fs \ {path} |-> fs[p]]
EnsureDir(path) == IF Exists(path) THEN fs ELSE With(path, Dir)

\* Variant for mutation: the directory entry goes whatever is below it.
RemoveBlindly(path) == IF Exists(path) THEN Without(path) ELSE fs

\* path.rmdir(), whose failure on a directory with entries is ignored.
RemoveIfEmpty(path) == IF Exists(path) /\ Below(path) = {} THEN Without(path) ELSE fs

\* Variant for mutation: shutil.rmtree instead.
RemoveWhole(path) == [p \in DOMAIN fs \ ({path} \cup Below(path)) |-> fs[p]]

\* An atomic rename moves the entry with everything below it.
Renamed(from, to) ==
  LET moved == {from} \cup Below(from)
      dest(p) == to \o SubSeq(p, Len(from) + 1, Len(p))
      source == [q \in {dest(p) : p \in moved} |-> CHOOSE p \in moved : dest(p) = q]
  IN [p \in (DOMAIN fs \ moved) \cup DOMAIN source |->
        IF p \in DOMAIN source THEN fs[source[p]] ELSE fs[p]]

NoSweep == [todo |-> {}, held |-> <<>>, tidy |-> <<>>]

Init ==
  /\ fs = [p \in {} |-> Dir]
  /\ server = "up" /\ starts = 1
  /\ life = [a \in Attempts |-> "new"]
  /\ agents = {} /\ referenced = {} /\ late = {}
  /\ lock = Nobody /\ pc = "none" /\ sweep = NoSweep

Stage(a, stage) == life' = [life EXCEPT ![a] = stage]

\* A method enters the lock, goes on to its next call, or leaves the lock.
Enter(a, stages) == server = "up" /\ lock = Nobody /\ life[a] \in stages
At(a, call) == server = "up" /\ lock = a /\ pc = call
Goto(a, call) == lock' = a /\ pc' = call
Leave == lock' = Nobody /\ pc' = "none"

-----------------------------------------------------------------------------
\* prepare: a fresh workspace in its round's directory, and the agent's output
\* directory in it.  Then the pipeline starts the agent.
Prepare(a) ==
  /\ \/ /\ Enter(a, {"new"}) /\ \A b \in referenced : RoundOf[b] # RoundOf[a]
        /\ fs' = EnsureDir(Private(a)) /\ Goto(a, "make workspace")
        /\ Stage(a, "preparing") /\ UNCHANGED agents
     \/ /\ At(a, "make workspace") /\ ~Exists(Workspace(a))
        /\ fs' = With(Workspace(a), Dir) /\ Goto(a, "make output")
        /\ UNCHANGED <<life, agents>>
     \/ /\ At(a, "make output")
        /\ fs' = With(Output(a), Dir) /\ Leave
        /\ Stage(a, "drawing") /\ agents' = agents \cup {a}
  /\ UNCHANGED <<server, starts, referenced, sweep, late>>

\* The agent writes its file, a picture or anything else, but never over another.
Draw(a) ==
  /\ a \in agents /\ Exists(Output(a)) /\ ~Exists(Draft(a))
  /\ \E file \in Drafts : fs' = With(Draft(a), file)
  /\ late' = late \cup {a}
  /\ UNCHANGED <<server, starts, life, agents, referenced, lock, pc, sweep>>

AgentEnds(a) ==
  /\ a \in agents
  /\ agents' = agents \ {a}
  /\ IF life[a] = "drawing" THEN Stage(a, "drawn") ELSE UNCHANGED life
  /\ UNCHANGED <<fs, server, starts, referenced, lock, pc, sweep, late>>

\* Variant for mutation: written in place, without a temporary name.
PublishInPlace(a) ==
  /\ \/ /\ Enter(a, {"drawn"}) /\ Exists(Draft(a)) /\ Parses(fs[Draft(a)])
        /\ fs' = EnsureDir(Public(a)) /\ Goto(a, "create") /\ UNCHANGED life
     \/ /\ At(a, "create")
        /\ fs' = With(Final(a), Part) /\ Goto(a, "fill") /\ UNCHANGED life
     \/ /\ At(a, "fill")
        /\ fs' = With(Final(a), fs[Draft(a)]) /\ Leave /\ Stage(a, "published")
  /\ UNCHANGED <<server, starts, agents, referenced, sweep, late>>

\* publish: only a picture that validates, written and synced under a temporary
\* name and renamed to a final name that does not exist.
Publish(a) ==
  /\ \/ /\ Enter(a, {"drawn"}) /\ Exists(Draft(a)) /\ Parses(fs[Draft(a)])
        /\ fs' = EnsureDir(Public(a)) /\ Goto(a, "create") /\ UNCHANGED life
     \/ /\ At(a, "create") /\ ~Exists(Final(a))
        /\ fs' = With(Temporary(a), Part) /\ Goto(a, "fill") /\ UNCHANGED life
     \/ /\ At(a, "fill")
        /\ fs' = With(Temporary(a), fs[Draft(a)]) /\ Goto(a, "replace") /\ UNCHANGED life
     \/ /\ At(a, "replace") /\ ~Exists(Final(a))
        /\ fs' = Renamed(Temporary(a), Final(a)) /\ Leave /\ Stage(a, "published")
  /\ UNCHANGED <<server, starts, agents, referenced, sweep, late>>

\* A picture that does not validate, or a call that fails, ends the method with
\* an exception; publish removes its temporary file first.
Raise(a) ==
  /\ \/ /\ Enter(a, {"drawn"}) /\ Stage(a, "failed")
        /\ UNCHANGED <<fs, lock, pc>>
     \/ /\ server = "up" /\ lock = a /\ Leave
        /\ Stage(a, IF life[a] = "failed" THEN "over" ELSE "failed")
        /\ fs' = IF pc \in {"fill", "replace"} THEN Without(Temporary(a)) ELSE fs
  /\ UNCHANGED <<server, starts, agents, referenced, sweep, late>>

-----------------------------------------------------------------------------
\* cleanup_workspace, when the evaluation is done, and discard, which also takes
\* the picture back: bottom up, and the round's directories only when empty.
Removal ==
  <<"unlink draft", "rmdir output", "rmdir workspace", "rmdir private round",
    "unlink picture", "rmdir public round">>

\* Variant for mutation: the round's public directory goes with its entries.
EffectWhole(a, call) ==
  IF call = "rmdir public round" /\ Exists(Public(a)) THEN RemoveWhole(Public(a))
  ELSE IF call \in {"unlink draft", "unlink picture"}
       THEN LET file == IF call = "unlink draft" THEN Draft(a) ELSE Final(a)
            IN IF Exists(file) THEN Without(file) ELSE fs
       ELSE RemoveIfEmpty(CASE call = "rmdir output" -> Output(a)
                            [] call = "rmdir workspace" -> Workspace(a)
                            [] OTHER -> Private(a))

Effect(a, call) ==
  CASE call = "unlink draft" -> IF Exists(Draft(a)) THEN Without(Draft(a)) ELSE fs
    [] call = "rmdir output" -> RemoveIfEmpty(Output(a))
    [] call = "rmdir workspace" -> RemoveIfEmpty(Workspace(a))
    [] call = "rmdir private round" -> RemoveIfEmpty(Private(a))
    [] call = "unlink picture" -> IF Exists(Final(a)) THEN Without(Final(a)) ELSE fs
    [] call = "rmdir public round" -> RemoveIfEmpty(Public(a))

RemoveOwned(a) ==
  /\ a \notin agents
  /\ \E i \in 1..Len(Removal) :
       /\ IF i = 1 THEN Enter(a, {"published", "failed"}) ELSE At(a, Removal[i])
       /\ fs' = Effect(a, Removal[i])
       /\ IF i = Len(Removal) \/ (i = 4 /\ life[a] = "published")
          THEN Leave /\ Stage(a, IF life[a] = "published" THEN "clean" ELSE "over")
          ELSE Goto(a, Removal[i + 1]) /\ UNCHANGED life
  /\ UNCHANGED <<server, starts, agents, referenced, sweep, late>>

\* The service commits the result: a durable round refers to the picture.
Commit(a) ==
  /\ server = "up" /\ life[a] = "clean"
  /\ \A b \in referenced : RoundOf[b] # RoundOf[a]
  /\ referenced' = referenced \cup {a} /\ Stage(a, "committed")
  /\ UNCHANGED <<fs, server, starts, agents, lock, pc, sweep, late>>

\* A failure or cancellation of the run, or a lost commit: discard will follow,
\* but not when the heartbeat was lost together with a success.
Abort(a) ==
  /\ server = "up" /\ lock # a /\ a \notin agents
  /\ \/ life[a] \in {"drawn", "published", "clean"} /\ Stage(a, "failed")
     \/ life[a] = "clean" /\ Stage(a, "over")
  /\ UNCHANGED <<fs, server, starts, agents, referenced, lock, pc, sweep, late>>

-----------------------------------------------------------------------------
\* The process dies.  Its agents may live on.
Crash ==
  /\ server # "down" /\ server' = "down"
  /\ life' = [a \in Attempts |-> IF life[a] \in {"new", "committed"} THEN life[a] ELSE "over"]
  /\ Leave /\ sweep' = NoSweep
  /\ UNCHANGED <<fs, starts, agents, referenced, late>>

\* Every entry below canonical directories is inspected.
Inspected == {p \in DOMAIN fs : Canonical(Front(p))}

\* Variant for mutation: the references are not asked for.
PlannedAll == {p \in DOMAIN fs : Len(p) >= 3 /\ Canonical(p)}

\* Variant for mutation: workspaces are planned without their descendants.
PlannedRoots ==
  {p \in DOMAIN fs : Len(p) = 3 /\ Canonical(p)
                      /\ (p[1][1] = "public" => p[3][1] \notin referenced)}

\* Workspaces with their descendants, and pictures no durable round refers to.
Planned ==
  {p \in DOMAIN fs : Len(p) >= 3 /\ Canonical(p)
                      /\ (p[1][1] = "public" => p[3][1] \notin referenced)}

\* The lifespan reads the references and reconciles before it serves anything.
\* Beyond the bound it raises before a deletion, and the process does not start.
Start ==
  /\ server = "down" /\ starts < MaxStarts
  /\ starts' = starts + 1 /\ late' = {}
  /\ IF Cardinality(Inspected) > MaxEntries
     THEN UNCHANGED <<server, sweep>>
     ELSE server' = "starting" /\ sweep' = [NoSweep EXCEPT !.todo = Planned]
  /\ UNCHANGED <<fs, life, agents, referenced, lock, pc>>

\* Where a planned path is now: captured components carry quarantine names.
Where(path) ==
  [i \in 1..Len(path) |->
     IF \E j \in 1..Len(sweep.held) : sweep.held[j] = SubSeq(path, 1, i)
     THEN <<path[i][1], starts>> ELSE path[i]]

\* The next planned entries: workspaces before pictures, children of the
\* directory captured last before anything else.
Due ==
  LET roots == {p \in sweep.todo : Len(p) = 3}
      workspaces == {p \in roots : p[1][1] = "private"}
  IN IF sweep.tidy # <<>> THEN {}
     ELSE IF sweep.held = <<>> THEN IF workspaces # {} THEN workspaces ELSE roots
     ELSE {p \in sweep.todo : Len(p) > 3 /\ Front(p) = Last(sweep.held)}

\* _capture_planned_entry: the entry leaves its name before anything is removed;
\* one that is no longer there is skipped.
Capture(p) ==
  LET at == Where(p)
      found == Exists(at)
  IN /\ fs' = IF found THEN Renamed(at, Append(Front(at), <<Last(at)[1], starts>>)) ELSE fs
     /\ sweep' = [todo |-> sweep.todo \ {p}, tidy |-> <<>>,
                  held |-> IF found THEN Append(sweep.held, p) ELSE sweep.held]

\* Variant for mutation: what could not be emptied is planned again.
FinishStubborn ==
  LET p == Last(sweep.held)
      at == Where(p)
      gone == Below(at) = {}
  IN /\ sweep.held # <<>> /\ Due = {}
     /\ fs' = IF gone THEN Without(at) ELSE Renamed(at, Append(Front(at), Last(p)))
     /\ sweep' = [todo |-> IF gone \/ Len(p) = 2 THEN sweep.todo ELSE sweep.todo \cup {p},
                  held |-> Front(sweep.held),
                  tidy |-> IF gone /\ Len(p) = 3 THEN Front(p) ELSE <<>>]

\* _unlink_quarantined and _rmdir_quarantined: a directory that is not empty
\* gets its name back.  After a planned root comes its round's directory.
Finish ==
  LET p == Last(sweep.held)
      at == Where(p)
      gone == Below(at) = {}
  IN /\ sweep.held # <<>> /\ Due = {}
     /\ fs' = IF gone THEN Without(at) ELSE Renamed(at, Append(Front(at), Last(p)))
     /\ sweep' = [todo |-> sweep.todo, held |-> Front(sweep.held),
                  tidy |-> IF gone /\ Len(p) = 3 THEN Front(p) ELSE <<>>]

SweepDone == server = "starting" /\ sweep = NoSweep /\ server' = "up" /\ UNCHANGED <<fs, sweep>>

SweepStep ==
  /\ server = "starting"
  /\ \/ UNCHANGED server /\ \E p \in Due : Capture(p)
     \/ UNCHANGED server /\ sweep.tidy # <<>> /\ Capture(sweep.tidy)
     \/ UNCHANGED server /\ Finish
     \/ SweepDone
  /\ UNCHANGED <<starts, life, agents, referenced, lock, pc, late>>

-----------------------------------------------------------------------------
Next ==
  \/ \E a \in Attempts :
       \/ Prepare(a) \/ Draw(a) \/ AgentEnds(a) \/ Publish(a) \/ Raise(a)
       \/ RemoveOwned(a) \/ Commit(a) \/ Abort(a)
  \/ Crash \/ Start \/ SweepStep

Spec == Init /\ [][Next]_vars

\* The reconciliation is a thread that runs.
FairSpec == Spec /\ WF_vars(SweepStep)

-----------------------------------------------------------------------------
\* The filesystem is a tree: no call of the store, and no order of its calls,
\* creates or leaves an entry whose directory is gone.
TypeOK ==
  /\ \A p \in DOMAIN fs :
       /\ fs[p] \in {Dir, Part} \cup Drafts
       /\ Len(p) > 2 => Exists(Front(p)) /\ fs[Front(p)] = Dir
  /\ server \in {"up", "starting", "down"} /\ starts \in 1..MaxStarts
  /\ life \in [Attempts -> {"new", "preparing", "drawing", "drawn", "published", "clean",
                            "committed", "failed", "over"}]
  /\ agents \in SUBSET Attempts /\ referenced \in SUBSET Attempts /\ late \in SUBSET Attempts
  /\ lock \in Attempts \cup {Nobody}

\* The static mount serves public names without the store's lock: whatever it
\* finds under a final name is a whole and well-formed picture, also after a crash.
PublicIsWhole ==
  \A a \in Attempts : Exists(Final(a)) => WellFormed(fs[Final(a)])

\* The picture of a durable round is never deleted: not by the discard of
\* another attempt of its round, and not by any number of reconciliations, each
\* perhaps cut short.  (It may be moved: ReferencedServed.)
ReferencedKept ==
  \A a \in referenced : \E p \in DOMAIN fs :
    Len(p) = 3 /\ p[1] = Public(a)[1] /\ p[3] = <<a, Plain>> /\ WellFormed(fs[p])

\* No method, from its first call to its last, touches a file of an attempt that
\* is not its own.
OthersUntouched ==
  [][\A a \in Attempts : a \in {lock, lock'} /\ server' = "up" =>
       \A p \in DOMAIN fs : (Len(p) >= 3 /\ p[3][1] # a) => p \in DOMAIN fs' /\ fs'[p] = fs[p]]_vars

\* When a start has reconciled, a workspace is left under its own name only if
\* it holds a quarantine name of an earlier start or its orphaned agent wrote
\* meanwhile, and a picture only if a durable round refers to it.
SweepLeaves ==
  [][server = "starting" /\ server' = "up" =>
       \A a \in Attempts :
         /\ Exists(Workspace(a)) => a \in late \/ \E p \in Below(Workspace(a)) : ~Canonical(p)
         /\ Exists(Final(a)) => a \in referenced]_vars

\* A start comes to an end, although directories may refuse to become empty.
SweepEnds == server = "starting" ~> server # "starting"

\* While the server is up, the picture of every durable round is found at its
\* public name.  The reconciliation promises to remove a picture "only when its
\* exact derived URL is absent"; it moves the round's directory away to see
\* whether it is empty, and a crash before it is moved back loses the picture.
ReferencedServed ==
  server = "up" => \A a \in referenced : Exists(Final(a))

=============================================================================
