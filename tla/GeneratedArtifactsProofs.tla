---------------------- MODULE GeneratedArtifactsProofs ----------------------
(***************************************************************************)
(* GeneratedArtifacts keeps its safety properties for any attempts and     *)
(* rounds, any files of the agents, any number of starts and any bound of  *)
(* the reconciliation.                                                     *)
(***************************************************************************)
EXTENDS GeneratedArtifacts, SequenceTheorems, Recursion

-----------------------------------------------------------------------------
(* Paths *)

Names == {"private", "public", "output", "generated.png"}
           \cup Attempts \cup {RoundOf[a] : a \in Attempts}

Paths == Seq(Names \X Int)

\* path is p or above it.
Under(path, p) == Len(path) <= Len(p) /\ \A i \in 1..Len(path) : p[i] = path[i]

\* Where an entry gets when "from", which is above it, is renamed to "to".
Dest(from, to, p) == to \o SubSeq(p, Len(from) + 1, Len(p))

\* A path is told by its components.
LEMMA SamePath ==
  ASSUME NEW p \in Paths, NEW q \in Paths, Len(p) = Len(q), \A i \in 1..Len(p) : p[i] = q[i]
  PROVE  p = q
BY SeqEqual DEF Paths

\* The components of a path.
LEMMA PathIs ==
  ASSUME NEW p \in Paths
  PROVE  /\ Len(p) \in Nat /\ DOMAIN p = 1..Len(p)
         /\ \A i \in 1..Len(p) : p[i] \in Names \X Int
BY LenProperties, ElementOfSeq DEF Paths

\* The directory of a path.
LEMMA FrontIs ==
  ASSUME NEW p \in Paths, Len(p) > 0
  PROVE  /\ Front(p) \in Paths /\ Len(Front(p)) = Len(p) - 1
         /\ \A i \in 1..(Len(p) - 1) : Front(p)[i] = p[i]
<1>1. Len(p) \in Nat /\ Len(p) - 1 \in Int /\ \A i \in 1..(Len(p) - 1) : p[i] \in Names \X Int
  BY PathIs
<1> DEFINE n == Len(p) - 1
<1>2. /\ Front(p) \in Paths /\ Len(Front(p)) = IF 1 <= n THEN n - 1 + 1 ELSE 0
      /\ \A i \in 1..(n - 1 + 1) : Front(p)[i] = p[1 + i - 1]
  BY <1>1, SubSeqProperties DEF Front, Paths
<1>3. n \in Int /\ n >= 0
  BY <1>1
<1> HIDE DEF n
<1>4. n - 1 + 1 = n /\ \A i \in 1..n : 1 + i - 1 = i
  BY <1>3
<1>5. /\ Len(Front(p)) = n /\ \A i \in 1..n : Front(p)[i] = p[i]
  BY <1>2, <1>3, <1>4
<1> QED
  BY <1>2, <1>5 DEF n

\* One more component at the end.
LEMMA AppendIs ==
  ASSUME NEW p \in Paths, NEW c \in Names \X Int
  PROVE  /\ Append(p, c) \in Paths /\ Len(Append(p, c)) = Len(p) + 1
         /\ \A i \in 1..Len(p) : Append(p, c)[i] = p[i]
         /\ Append(p, c)[Len(p) + 1] = c
BY AppendProperties DEF Paths

\* A prefix as Below sees it.
LEMMA PrefixIs ==
  ASSUME NEW path \in Paths, NEW p \in Paths
  PROVE  IsStrictPrefix(path, p) <=> Under(path, p) /\ Len(path) < Len(p)
<1> DEFINE n == Len(path)
           s == SubSeq(path, 1, n)
           t == SubSeq(p, 1, n)
<1>1. n \in Nat /\ Len(p) \in Nat /\ s = path
  BY PathIs, SubSeqFull DEF Paths
<1>2. ASSUME n <= Len(p)
      PROVE  t \in Paths /\ Len(t) = n /\ \A i \in 1..n : t[i] = p[i]
  <2>1. \A i \in 1..n : p[i] \in Names \X Int
    BY <1>1, <1>2, PathIs
  <2> QED
    BY <1>1, <2>1, SubSeqProperties DEF Paths
<1>3. n <= Len(p) => (path = t <=> \A i \in 1..n : p[i] = path[i])
  BY <1>1, <1>2, SamePath
<1>4. n <= Len(p) => (path = p <=> (\A i \in 1..n : p[i] = path[i]) /\ n = Len(p))
  BY <1>1, SamePath
<1> QED
  BY <1>1, <1>3, <1>4 DEF IsStrictPrefix, IsPrefix, Under

\* What Below finds, component by component.
LEMMA BelowIs ==
  ASSUME NEW path \in Paths, DOMAIN fs \subseteq Paths
  PROVE  Below(path) = {p \in DOMAIN fs : Under(path, p) /\ Len(path) < Len(p)}
BY PrefixIs DEF Below

\* The place after a rename, component by component.
LEMMA DestIs ==
  ASSUME NEW from \in Paths, NEW to \in Paths, Len(from) = Len(to), NEW p \in Paths, Under(from, p)
  PROVE  /\ Dest(from, to, p) \in Paths /\ Len(Dest(from, to, p)) = Len(p)
         /\ \A i \in 1..Len(p) : Dest(from, to, p)[i] = IF i <= Len(to) THEN to[i] ELSE p[i]
<1> DEFINE n == Len(from)
           rest == SubSeq(p, n + 1, Len(p))
<1>1. n \in Nat /\ Len(p) \in Nat /\ n <= Len(p) /\ \A i \in (n + 1)..Len(p) : p[i] \in Names \X Int
  BY PathIs DEF Under
<1>2. /\ rest \in Paths /\ Len(rest) = Len(p) - n
      /\ \A i \in 1..(Len(p) - n) : rest[i] = p[n + i]
  <2>1. n + 1 \in Int /\ Len(p) \in Int
    BY <1>1
  <2>2. /\ rest \in Paths /\ Len(rest) = IF n + 1 <= Len(p) THEN Len(p) - (n + 1) + 1 ELSE 0
        /\ \A i \in 1..(Len(p) - (n + 1) + 1) : rest[i] = p[(n + 1) + i - 1]
    BY <1>1, <2>1, SubSeqProperties DEF Paths
  <2> HIDE DEF rest
  <2> HIDE DEF n
  <2>3. Len(p) - (n + 1) + 1 = Len(p) - n /\ \A i \in 1..(Len(p) - n) : (n + 1) + i - 1 = n + i
    BY <1>1
  <2>4. Len(rest) = Len(p) - n
    <3>1. Len(rest) = IF n + 1 <= Len(p) THEN Len(p) - (n + 1) + 1 ELSE 0
      BY <2>2
    <3>2. n \in Nat /\ Len(p) \in Nat /\ n <= Len(p)
      BY <1>1
    <3> QED
      BY <3>1, <3>2
  <2>5. \A i \in 1..(Len(p) - n) : rest[i] = p[n + i]
    BY <2>2, <2>3
  <2> QED
    BY <2>2, <2>4, <2>5
<1> HIDE DEF rest
<1>3. /\ to \o rest \in Paths /\ Len(to \o rest) = Len(to) + Len(rest)
      /\ \A i \in 1..(Len(to) + Len(rest)) : (to \o rest)[i] = IF i <= Len(to) THEN to[i] ELSE rest[i - Len(to)]
  BY <1>2, ConcatProperties DEF Paths
<1>4. Dest(from, to, p) = to \o rest
  BY DEF Dest, rest
<1>5. ASSUME NEW i \in 1..Len(p) PROVE (to \o rest)[i] = IF i <= Len(to) THEN to[i] ELSE p[i]
  <2>1. i \in 1..(Len(to) + Len(rest))
    BY <1>1, <1>2
  <2>2. ~(i <= Len(to)) => i - Len(to) \in 1..(Len(p) - n) /\ n + (i - Len(to)) = i
    BY <1>1
  <2> QED
    BY <1>2, <1>3, <2>1, <2>2
<1> QED
  BY <1>1, <1>2, <1>3, <1>4, <1>5

-----------------------------------------------------------------------------
(* Renames *)

\* What "to" has below it after the rename: what "from" had.
Arrives(from, to, new) ==
  \A p \in DOMAIN fs :
    Under(from, p) => Dest(from, to, p) \in DOMAIN new /\ new[Dest(from, to, p)] = fs[p]

\* An entry elsewhere stays, unless something is moved onto it.
Stays(from, to, new) ==
  \A p \in DOMAIN fs :
    ~Under(from, p) => p \in DOMAIN new /\ (new[p] = fs[p] \/ Under(to, p))

\* Every entry was there before, at this place or below "from".
Comes(from, to, new) ==
  \A q \in DOMAIN new :
    \/ q \in DOMAIN fs /\ ~Under(from, q) /\ new[q] = fs[q]
    \/ \E p \in DOMAIN fs : Under(from, p) /\ q = Dest(from, to, p) /\ new[q] = fs[p]

\* Two entries below "from" do not meet below "to".
LEMMA DestInjective ==
  ASSUME NEW from \in Paths, NEW to \in Paths, Len(from) = Len(to),
         NEW p \in Paths, NEW q \in Paths, Under(from, p), Under(from, q),
         Dest(from, to, p) = Dest(from, to, q)
  PROVE  p = q
<1>1. Len(p) = Len(q) /\ Len(p) \in Nat /\ Len(from) \in Nat
  BY DestIs, PathIs
<1>2. ASSUME NEW i \in 1..Len(p) PROVE p[i] = q[i]
  <2>1. CASE i <= Len(from)
    BY <1>1, <2>1 DEF Under
  <2>2. CASE ~(i <= Len(from))
    BY <1>1, <2>2, DestIs
  <2> QED
    BY <2>1, <2>2
<1> QED
  BY <1>1, <1>2, SamePath

\* The rename, entry by entry.
LEMMA RenamedIs ==
  ASSUME DOMAIN fs \subseteq Paths, NEW from \in Paths, NEW to \in Paths, Len(from) = Len(to),
         Exists(from)
  PROVE  /\ Arrives(from, to, Renamed(from, to))
         /\ Stays(from, to, Renamed(from, to))
         /\ Comes(from, to, Renamed(from, to))
<1> DEFINE moved == {from} \cup Below(from)
           dest(p) == Dest(from, to, p)
           arrived == {dest(p) : p \in moved}
           source == [q \in arrived |-> CHOOSE p \in moved : dest(p) = q]
           new == [p \in (DOMAIN fs \ moved) \cup DOMAIN source |->
                     IF p \in DOMAIN source THEN fs[source[p]] ELSE fs[p]]
<1>1. Renamed(from, to) = new
  BY DEF Renamed, Dest
<1>2. Len(from) \in Nat /\ Under(from, from)
  BY PathIs DEF Under
<1>3. moved = {p \in DOMAIN fs : Under(from, p)}
  <2>1. Below(from) = {p \in DOMAIN fs : Under(from, p) /\ Len(from) < Len(p)}
    BY BelowIs
  <2>2. ASSUME NEW p \in DOMAIN fs, Under(from, p), ~(Len(from) < Len(p)) PROVE p = from
    <3>1. p \in Paths /\ Len(p) \in Nat
      BY PathIs
    <3>2. Len(p) = Len(from)
      BY <1>2, <2>2, <3>1 DEF Under
    <3> QED
      BY <2>2, <3>1, <3>2, SamePath DEF Under
  <2> QED
    BY <1>2, <2>1, <2>2 DEF Exists
<1> HIDE DEF moved
<1>4. ASSUME NEW p \in moved PROVE dest(p) \in arrived /\ source[dest(p)] = p
  <2> DEFINE c == CHOOSE r \in moved : dest(r) = dest(p)
  <2>1. c \in moved /\ dest(c) = dest(p)
    OBVIOUS
  <2>2. source[dest(p)] = c /\ dest(p) \in arrived
    OBVIOUS
  <2> HIDE DEF c
  <2>3. c = p
    BY <1>3, <2>1, DestInjective
  <2> QED
    BY <2>2, <2>3
<1>5. DOMAIN source = arrived
  OBVIOUS
<1>6. \A q \in arrived : \E p \in moved : q = dest(p)
  OBVIOUS
<1> HIDE DEF source, arrived
<1>7. /\ DOMAIN new = (DOMAIN fs \ moved) \cup arrived
      /\ \A q \in arrived : new[q] = fs[source[q]]
      /\ \A q \in DOMAIN fs \ moved : q \notin arrived => new[q] = fs[q]
  BY <1>5
<1> HIDE DEF new
<1>8. Arrives(from, to, new)
  BY <1>3, <1>4, <1>7 DEF Arrives
<1>9. \A p \in moved : Under(to, dest(p))
  BY <1>3, DestIs DEF Under
<1>10. Stays(from, to, new)
  BY <1>3, <1>6, <1>7, <1>9 DEF Stays
<1>11. Comes(from, to, new)
  <2> SUFFICES ASSUME NEW q \in DOMAIN new
               PROVE  \/ q \in DOMAIN fs /\ ~Under(from, q) /\ new[q] = fs[q]
                      \/ \E p \in DOMAIN fs : Under(from, p) /\ q = Dest(from, to, p) /\ new[q] = fs[p]
    BY DEF Comes
  <2>1. CASE q \in arrived
    <3>1. PICK p \in moved : q = dest(p)
      BY <1>6, <2>1
    <3>2. new[q] = fs[p]
      BY <1>4, <1>7, <2>1, <3>1
    <3> QED
      BY <1>3, <3>1, <3>2
  <2>2. CASE q \notin arrived
    BY <1>3, <1>7, <2>2
  <2> QED
    BY <2>1, <2>2
<1> QED
  BY <1>1, <1>8, <1>10, <1>11

-----------------------------------------------------------------------------
(* The inductive invariant *)

\* The places of entries: round, attempt, "output" and "generated.png", with any
\* marks below the root, and pictures that have nothing below them.
Shaped(p) ==
  /\ p \in Paths /\ Len(p) \in 2..5
  /\ p[1] \in {<<"private", Plain>>, <<"public", Plain>>}
  /\ p[1][1] = "public" => Len(p) <= 3
  /\ Len(p) >= 3 => p[3][1] \in Attempts /\ p[2][1] = RoundOf[p[3][1]]
  /\ Len(p) >= 4 => p[4][1] = "output"
  /\ Len(p) = 5 => p[5][1] = "generated.png"

IsPicture(p) == Len(p) = 3 /\ p[1][1] = "public"
IsDirectory(p) == Len(p) \in {2, 4} \/ (Len(p) = 3 /\ p[1][1] = "private")

\* Every entry is of the kind of its place, and in a directory.
Tree ==
  \A p \in DOMAIN fs :
    /\ Shaped(p)
    /\ IF IsDirectory(p) THEN fs[p] = Dir ELSE fs[p] \in Drafts \cup {Part}
    /\ Len(p) > 2 => Exists(Front(p))

\* A picture under the name of its attempt is whole, wherever its directory is.
WholePictures ==
  \A p \in DOMAIN fs : IsPicture(p) /\ p[3][2] = Plain => WellFormed(fs[p])

\* Nothing a durable round refers to is planned or captured.
Unwanted(p) == Shaped(p) /\ Canonical(p) /\ (IsPicture(p) => p[3][1] \notin referenced)

\* What is captured is a way down from a planned root, and is still there; or it
\* is the directory of a round.
Sweeping ==
  /\ server # "starting" => sweep = NoSweep
  /\ server # "up" => lock = Nobody
  /\ \A p \in sweep.todo : Unwanted(p) /\ Len(p) >= 3
  /\ sweep.held \in Seq(Paths)
  /\ \A i \in 1..Len(sweep.held) : Unwanted(sweep.held[i]) /\ Exists(Where(sweep.held[i]))
  /\ \A i \in 2..Len(sweep.held) : sweep.held[i - 1] = Front(sweep.held[i])
  /\ \/ \A i \in 1..Len(sweep.held) : Len(sweep.held[i]) = i + 2
     \/ Len(sweep.held) = 1 /\ Len(sweep.held[1]) = 2
  /\ sweep.tidy # <<>> => sweep.held = <<>> /\ Unwanted(sweep.tidy) /\ Len(sweep.tidy) = 2

\* What a method may rely on at its next call.
Locked ==
  /\ lock = Nobody => pc = "none"
  /\ \A a \in Attempts : lock = a =>
       \/ pc = "make workspace" /\ life[a] = "preparing" /\ Exists(Private(a))
       \/ pc = "make output" /\ life[a] = "preparing" /\ Exists(Workspace(a))
       \/ /\ pc \in {"create", "fill", "replace"} /\ life[a] = "drawn"
          /\ Exists(Public(a)) /\ Exists(Draft(a)) /\ Parses(fs[Draft(a)])
          /\ pc # "create" => Exists(Temporary(a))
          /\ pc = "replace" => fs[Temporary(a)] = fs[Draft(a)]
       \/ /\ pc \in {"rmdir output", "rmdir workspace", "rmdir private round"}
          /\ life[a] \in {"published", "failed"}
       \/ pc \in {"unlink picture", "rmdir public round"} /\ life[a] = "failed"

\* A published picture is at its name until it is committed or discarded.
Lives ==
  \A a \in Attempts :
    /\ life[a] \in {"published", "clean"} => Exists(Final(a)) /\ server = "up"
    /\ a \in referenced => life[a] = "committed"

\* The picture of a durable round is somewhere, under its own name.
Pictured ==
  \A a \in referenced : \E p \in DOMAIN fs : IsPicture(p) /\ p[3] = <<a, Plain>>

Kinds ==
  /\ server \in {"up", "starting", "down"} /\ starts \in 1..MaxStarts
  /\ life \in [Attempts -> {"new", "preparing", "drawing", "drawn", "published", "clean",
                            "committed", "failed", "over"}]
  /\ agents \in SUBSET Attempts /\ referenced \in SUBSET Attempts /\ late \in SUBSET Attempts
  /\ lock \in Attempts \cup {Nobody}

Files == Tree /\ WholePictures /\ Pictured

ArtifactInv == Kinds /\ Files /\ Sweeping /\ Locked /\ Lives

\* The tree has the type the runs check.
LEMMA TreeTyped == Kinds /\ Tree => TypeOK
<1> SUFFICES ASSUME Kinds, Tree PROVE TypeOK
  OBVIOUS
<1>1. ASSUME NEW p \in DOMAIN fs
      PROVE  /\ fs[p] \in {Dir, Part} \cup Drafts
             /\ Len(p) > 2 => Exists(Front(p)) /\ fs[Front(p)] = Dir
  <2>1. Shaped(p) /\ fs[p] \in {Dir, Part} \cup Drafts /\ (Len(p) > 2 => Exists(Front(p)))
    BY DEF Tree
  <2>2. ASSUME Len(p) > 2 PROVE IsDirectory(Front(p))
    <3>1. /\ Len(p) \in 2..5 /\ p \in Paths
          /\ Len(Front(p)) = Len(p) - 1 /\ Front(p)[1] = p[1]
      BY <2>1, <2>2, FrontIs DEF Shaped
    <3>2. p[1][1] \in {"private", "public"} /\ (p[1][1] = "public" => Len(p) <= 3)
      BY <2>1 DEF Shaped
    <3> QED
      BY <2>2, <3>1, <3>2 DEF IsDirectory
  <2> QED
    BY <2>1, <2>2 DEF Tree, Exists
<1> QED
  BY <1>1 DEF TypeOK, Kinds

\* The directory of an entry is what the entry was made from.
LEMMA FrontAppend ==
  ASSUME NEW p \in Paths, NEW c \in Names \X Int
  PROVE  Front(Append(p, c)) = p
<1> DEFINE q == Append(p, c)
<1>1. q \in Paths /\ Len(q) = Len(p) + 1 /\ Len(p) \in Nat /\ \A i \in 1..Len(p) : q[i] = p[i]
  BY AppendIs, PathIs
<1> HIDE DEF q
<1>2. Len(q) - 1 = Len(p) /\ Len(q) > 0
  BY <1>1
<1>3. Front(q) \in Paths /\ Len(Front(q)) = Len(p) /\ \A i \in 1..Len(p) : Front(q)[i] = p[i]
  BY <1>1, <1>2, FrontIs
<1>4. Front(q) = p
  BY <1>3, SamePath
<1> QED
  BY <1>4 DEF q

\* The same, component by component.
LEMMA AppendParts ==
  ASSUME NEW p \in Paths, NEW c \in Names \X Int
  PROVE  /\ Len(Append(p, c)) = Len(p) + 1
         /\ Len(p) = 2 => /\ Append(p, c)[1] = p[1] /\ Append(p, c)[2] = p[2]
                          /\ Append(p, c)[3] = c
         /\ Len(p) = 3 => /\ Append(p, c)[1] = p[1] /\ Append(p, c)[2] = p[2]
                          /\ Append(p, c)[3] = p[3] /\ Append(p, c)[4] = c
         /\ Len(p) = 4 => /\ Append(p, c)[1] = p[1] /\ Append(p, c)[2] = p[2]
                          /\ Append(p, c)[3] = p[3] /\ Append(p, c)[4] = p[4]
                          /\ Append(p, c)[5] = c
<1> DEFINE q == Append(p, c)
<1>1. Len(q) = Len(p) + 1 /\ (\A i \in 1..Len(p) : q[i] = p[i]) /\ q[Len(p) + 1] = c
  BY AppendIs
<1> HIDE DEF q
<1>2. ASSUME Len(p) = 2 PROVE q[1] = p[1] /\ q[2] = p[2] /\ q[3] = c
  BY <1>1, <1>2
<1>3. ASSUME Len(p) = 3 PROVE q[1] = p[1] /\ q[2] = p[2] /\ q[3] = p[3] /\ q[4] = c
  BY <1>1, <1>3
<1>4. ASSUME Len(p) = 4 PROVE q[1] = p[1] /\ q[2] = p[2] /\ q[3] = p[3] /\ q[4] = p[4] /\ q[5] = c
  BY <1>1, <1>4
<1> QED
  BY <1>1, <1>2, <1>3, <1>4 DEF q

\* The places the store and its agents write to.
LEMMA RootPlaces ==
  ASSUME NEW a \in Attempts
  PROVE  /\ Private(a) \in Paths /\ Len(Private(a)) = 2
         /\ Private(a)[1] = <<"private", Plain>> /\ Private(a)[2] = <<RoundOf[a], Plain>>
         /\ Public(a) \in Paths /\ Len(Public(a)) = 2
         /\ Public(a)[1] = <<"public", Plain>> /\ Public(a)[2] = <<RoundOf[a], Plain>>
<1>1. <<"private", Plain>> \in Names \X Int /\ <<"public", Plain>> \in Names \X Int
        /\ <<RoundOf[a], Plain>> \in Names \X Int
  BY DEF Names, Plain
<1>2. ASSUME NEW c \in Names \X Int, NEW d \in Names \X Int
      PROVE  <<c, d>> \in Paths /\ Len(<<c, d>>) = 2 /\ <<c, d>>[1] = c /\ <<c, d>>[2] = d
  BY DEF Paths
<1> QED
  BY <1>1, <1>2 DEF Private, Public

\* The places below the private root, and what is above each.
LEMMA WorkspacePlaces ==
  ASSUME NEW a \in Attempts
  PROVE  /\ Shaped(Private(a)) /\ Shaped(Workspace(a)) /\ Shaped(Output(a)) /\ Shaped(Draft(a))
         /\ Len(Workspace(a)) = 3 /\ Len(Output(a)) = 4 /\ Len(Draft(a)) = 5
         /\ Workspace(a)[1] = <<"private", Plain>> /\ Workspace(a)[3] = <<a, Plain>>
         /\ Output(a)[1] = <<"private", Plain>> /\ Output(a)[3] = <<a, Plain>>
         /\ Draft(a)[1] = <<"private", Plain>> /\ Draft(a)[3] = <<a, Plain>>
         /\ Front(Workspace(a)) = Private(a) /\ Front(Output(a)) = Workspace(a)
         /\ Front(Draft(a)) = Output(a)
<1>1. <<a, Plain>> \in Names \X Int /\ <<"output", Plain>> \in Names \X Int
        /\ <<"generated.png", Plain>> \in Names \X Int
  BY DEF Names, Plain
<1>2. /\ Workspace(a) \in Paths /\ Len(Workspace(a)) = 3 /\ Workspace(a)[3] = <<a, Plain>>
      /\ Workspace(a)[1] = <<"private", Plain>> /\ Workspace(a)[2] = <<RoundOf[a], Plain>>
  <2>1. Private(a) \in Paths /\ Len(Private(a)) = 2
    BY RootPlaces
  <2>2. Append(Private(a), <<a, Plain>>) \in Paths
    BY <1>1, <2>1, AppendIs
  <2> QED
    BY <1>1, <2>1, <2>2, RootPlaces, AppendParts DEF Workspace
<1>3. /\ Output(a) \in Paths /\ Len(Output(a)) = 4 /\ Output(a)[4] = <<"output", Plain>>
      /\ Output(a)[1] = Workspace(a)[1] /\ Output(a)[2] = Workspace(a)[2] /\ Output(a)[3] = Workspace(a)[3]
  <2>1. Append(Workspace(a), <<"output", Plain>>) \in Paths
    BY <1>1, <1>2, AppendIs
  <2> QED
    BY <1>1, <1>2, <2>1, AppendParts DEF Output
<1>4. /\ Draft(a) \in Paths /\ Len(Draft(a)) = 5 /\ Draft(a)[5] = <<"generated.png", Plain>>
      /\ Draft(a)[1] = Output(a)[1] /\ Draft(a)[2] = Output(a)[2] /\ Draft(a)[3] = Output(a)[3]
      /\ Draft(a)[4] = Output(a)[4]
  <2>1. Append(Output(a), <<"generated.png", Plain>>) \in Paths
    BY <1>1, <1>3, AppendIs
  <2> QED
    BY <1>1, <1>3, <2>1, AppendParts DEF Draft
<1>5. Shaped(Private(a)) /\ Shaped(Workspace(a))
  <2>1. Shaped(Private(a))
    <3>1. /\ Private(a) \in Paths /\ Len(Private(a)) = 2
          /\ Private(a)[1] = <<"private", Plain>>
      BY RootPlaces
    <3>2. /\ 2 \in 2..5 /\ ~(2 >= 3) /\ ~(2 >= 4) /\ 2 # 5
          /\ <<"private", Plain>>[1] # "public"
      OBVIOUS
    <3> QED
      BY <3>1, <3>2 DEF Shaped
  <2>2. Shaped(Workspace(a))
    BY <1>2 DEF Shaped
  <2> QED
    BY <2>1, <2>2
<1>6. Shaped(Output(a)) /\ Shaped(Draft(a))
  BY <1>2, <1>3, <1>4 DEF Shaped
<1>7. \A p \in Paths, c \in Names \X Int : Front(Append(p, c)) = p
  BY FrontAppend
<1> QED
  BY <1>1, <1>2, <1>3, <1>4, <1>5, <1>6, <1>7, RootPlaces DEF Workspace, Output, Draft

\* The places below the public root.
LEMMA PicturePlaces ==
  ASSUME NEW a \in Attempts
  PROVE  /\ Shaped(Public(a)) /\ Shaped(Final(a)) /\ Shaped(Temporary(a))
         /\ IsPicture(Final(a)) /\ Final(a)[3] = <<a, Plain>>
         /\ IsPicture(Temporary(a)) /\ Temporary(a)[3] = <<a, Temp>>
         /\ Front(Final(a)) = Public(a) /\ Front(Temporary(a)) = Public(a)
<1>1. <<a, Plain>> \in Names \X Int /\ <<a, Temp>> \in Names \X Int
  BY DEF Names, Plain, Temp
<1>2. /\ Final(a) \in Paths /\ Len(Final(a)) = 3 /\ Final(a)[3] = <<a, Plain>>
      /\ Final(a)[1] = <<"public", Plain>> /\ Final(a)[2] = <<RoundOf[a], Plain>>
  <2>1. Append(Public(a), <<a, Plain>>) \in Paths
    BY <1>1, RootPlaces, AppendIs
  <2> QED
    BY <1>1, <2>1, RootPlaces, AppendParts DEF Final
<1>3. /\ Temporary(a) \in Paths /\ Len(Temporary(a)) = 3 /\ Temporary(a)[3] = <<a, Temp>>
      /\ Temporary(a)[1] = <<"public", Plain>> /\ Temporary(a)[2] = <<RoundOf[a], Plain>>
  <2>1. Append(Public(a), <<a, Temp>>) \in Paths
    BY <1>1, RootPlaces, AppendIs
  <2> QED
    BY <1>1, <2>1, RootPlaces, AppendParts DEF Temporary
<1>4. Shaped(Public(a)) /\ Shaped(Final(a)) /\ Shaped(Temporary(a))
  BY <1>2, <1>3, RootPlaces DEF Shaped
<1>5. \A p \in Paths, c \in Names \X Int : Front(Append(p, c)) = p
  BY FrontAppend
<1> QED
  BY <1>1, <1>2, <1>3, <1>4, <1>5, RootPlaces DEF IsPicture, Final, Temporary

-----------------------------------------------------------------------------
(* What the calls do to the tree *)

\* Every entry is at a path.
LEMMA TreePaths == Tree => DOMAIN fs \subseteq Paths
BY DEF Tree, Shaped

\* A directory is above its entries.
LEMMA FrontAbove ==
  ASSUME NEW p \in Paths, Len(p) > 0
  PROVE  Under(Front(p), p) /\ Len(Front(p)) < Len(p)
<1>1. Len(p) \in Nat
  BY PathIs
<1> QED
  BY <1>1, FrontIs DEF Under

\* A directory with nothing below it is the directory of no entry.
LEMMA NothingBelow ==
  ASSUME Tree, NEW path \in Paths, Below(path) = {}, NEW p \in DOMAIN fs, Len(p) > 2
  PROVE  Front(p) # path
<1>1. p \in Paths /\ Below(path) = {q \in DOMAIN fs : Under(path, q) /\ Len(path) < Len(q)}
  BY TreePaths, BelowIs
<1> QED
  BY <1>1, FrontAbove

\* A new entry in a directory that exists keeps the tree.
LEMMA TreeAdded ==
  ASSUME Tree, NEW path, NEW what, Shaped(path),
         IF IsDirectory(path) THEN what = Dir ELSE what \in Drafts \cup {Part},
         Len(path) > 2 => Exists(Front(path)),
         fs' = With(path, what)
  PROVE  Tree'
<1>1. /\ DOMAIN fs' = DOMAIN fs \cup {path}
      /\ \A p \in DOMAIN fs' : fs'[p] = IF p = path THEN what ELSE fs[p]
  BY DEF With
<1> QED
  BY <1>1 DEF Tree, Exists

\* The removal of an entry with nothing below it keeps the tree.
LEMMA TreeRemoved ==
  ASSUME Tree, NEW path \in Paths, Below(path) = {}, fs' = Without(path)
  PROVE  Tree'
<1>1. DOMAIN fs' = DOMAIN fs \ {path} /\ \A p \in DOMAIN fs' : fs'[p] = fs[p]
  BY DEF Without
<1>2. \A p \in DOMAIN fs : Len(p) > 2 => Front(p) # path
  BY NothingBelow
<1> QED
  BY <1>1, <1>2 DEF Tree, Exists

\* A rename in a directory below a root that keeps the name and changes the mark.
Remarks(from, to) ==
  /\ Shaped(from) /\ to \in Paths /\ Len(to) = Len(from)
  /\ \A i \in 1..Len(from) : i # Len(from) => to[i] = from[i]
  /\ to[Len(from)][1] = from[Len(from)][1]

\* It moves pictures to pictures and directories to directories.
LEMMA DestShaped ==
  ASSUME NEW from, NEW to, Remarks(from, to), NEW p, Shaped(p), Under(from, p)
  PROVE  LET q == Dest(from, to, p)
         IN  /\ Shaped(q) /\ Len(q) = Len(p) /\ q[1] = p[1]
             /\ \A i \in 1..Len(p) : q[i][1] = p[i][1] /\ (i # Len(from) => q[i] = p[i])
             /\ IsDirectory(q) = IsDirectory(p) /\ IsPicture(q) = IsPicture(p)
<1> DEFINE q == Dest(from, to, p)
<1>1. from \in Paths /\ to \in Paths /\ p \in Paths /\ Len(from) \in 2..5 /\ Len(p) \in 2..5
  BY DEF Remarks, Shaped
<1>2. q \in Paths /\ Len(q) = Len(p) /\ \A i \in 1..Len(p) : q[i] = IF i <= Len(to) THEN to[i] ELSE p[i]
  BY <1>1, DestIs DEF Remarks
<1> HIDE DEF q
<1>3. ASSUME NEW i \in 1..Len(p) PROVE q[i][1] = p[i][1] /\ (i # Len(from) => q[i] = p[i])
  <2>1. CASE i <= Len(to)
    <3>1. i \in 1..Len(from) /\ p[i] = from[i]
      BY <1>1, <2>1 DEF Remarks, Under
    <3> QED
      BY <1>2, <2>1, <3>1 DEF Remarks
  <2>2. CASE ~(i <= Len(to))
    BY <1>2, <2>2
  <2> QED
    BY <2>1, <2>2
<1>4. q[1] = p[1]
  <2>1. 1 \in 1..Len(p) /\ 1 # Len(from)
    BY <1>1
  <2> QED
    BY <1>3, <2>1
<1>5. /\ Len(p) >= 3 => q[3][1] = p[3][1] /\ q[2][1] = p[2][1]
      /\ Len(p) >= 4 => q[4][1] = p[4][1]
      /\ Len(p) = 5 => q[5][1] = p[5][1]
  BY <1>1, <1>3
<1>6. Shaped(q)
  BY <1>1, <1>2, <1>4, <1>5 DEF Shaped
<1> QED
  BY <1>2, <1>3, <1>4, <1>6 DEF q, IsDirectory, IsPicture

\* The directory of a moved entry moves with it.
LEMMA DestFront ==
  ASSUME NEW from, NEW to, Remarks(from, to), NEW p, Shaped(p), Under(from, p)
  PROVE  Front(Dest(from, to, p)) = IF Len(p) = Len(from) THEN Front(p) ELSE Dest(from, to, Front(p))
<1> DEFINE q == Dest(from, to, p)
<1>1. from \in Paths /\ to \in Paths /\ p \in Paths /\ Len(from) \in 2..5 /\ Len(p) \in 2..5
      /\ Len(to) = Len(from)
  BY DEF Remarks, Shaped
<1>2. q \in Paths /\ Len(q) = Len(p) /\ \A i \in 1..Len(p) : q[i] = IF i <= Len(to) THEN to[i] ELSE p[i]
  BY <1>1, DestIs
<1>3. \A i \in 1..Len(p) : i # Len(from) => q[i] = p[i]
  BY DestShaped
<1> HIDE DEF q
<1>4. /\ Front(q) \in Paths /\ Len(Front(q)) = Len(p) - 1
      /\ \A i \in 1..(Len(p) - 1) : Front(q)[i] = q[i]
  BY <1>1, <1>2, FrontIs
<1>5. /\ Front(p) \in Paths /\ Len(Front(p)) = Len(p) - 1
      /\ \A i \in 1..(Len(p) - 1) : Front(p)[i] = p[i]
  <2>1. \A n \in 2..5 : n > 0
    OBVIOUS
  <2> QED
    BY <1>1, <2>1, FrontIs
<1>6. CASE Len(p) = Len(from)
  <2>1. \A i \in 1..Len(Front(q)) : Front(q)[i] = Front(p)[i]
    BY <1>1, <1>3, <1>4, <1>5, <1>6
  <2> QED
    BY <1>4, <1>5, <1>6, <2>1, SamePath DEF q
<1>7. CASE Len(p) # Len(from)
  <2>1. Under(from, Front(p))
    BY <1>1, <1>5, <1>7 DEF Under
  <2>2. /\ Dest(from, to, Front(p)) \in Paths /\ Len(Dest(from, to, Front(p))) = Len(p) - 1
        /\ \A i \in 1..(Len(p) - 1) :
             Dest(from, to, Front(p))[i] = IF i <= Len(to) THEN to[i] ELSE Front(p)[i]
    BY <1>1, <1>5, <2>1, DestIs
  <2>3. \A i \in 1..Len(Front(q)) : Front(q)[i] = Dest(from, to, Front(p))[i]
    BY <1>1, <1>2, <1>4, <1>5, <2>2
  <2>4. Front(q) = Dest(from, to, Front(p))
    BY <1>4, <2>2, <2>3, SamePath
  <2> QED
    BY <1>7, <2>4 DEF q
<1> QED
  BY <1>6, <1>7

\* A new mark keeps the tree: what is below moves along.
LEMMA TreeRenamed ==
  ASSUME Tree, NEW from, NEW to, Remarks(from, to), Exists(from), fs' = Renamed(from, to)
  PROVE  Tree'
<1>1. DOMAIN fs \subseteq Paths /\ from \in Paths /\ to \in Paths /\ Len(from) = Len(to) /\ Len(from) \in 2..5
  BY TreePaths DEF Remarks, Shaped
<1>2. Arrives(from, to, fs') /\ Stays(from, to, fs') /\ Comes(from, to, fs')
  BY <1>1, RenamedIs
<1> SUFFICES ASSUME NEW q \in DOMAIN fs'
             PROVE  /\ Shaped(q)
                    /\ IF IsDirectory(q) THEN fs'[q] = Dir ELSE fs'[q] \in Drafts \cup {Part}
                    /\ Len(q) > 2 => Front(q) \in DOMAIN fs'
  BY DEF Tree, Exists
<1>3. CASE q \in DOMAIN fs /\ ~Under(from, q) /\ fs'[q] = fs[q]
  <2>1. Shaped(q) /\ (Len(q) > 2 => Front(q) \in DOMAIN fs)
    BY <1>3 DEF Tree, Exists
  <2>2. ~Under(from, Front(q))
    <3>1. q \in Paths /\ Len(q) \in 2..5
      BY <2>1 DEF Shaped
    <3>2. Len(q) > 0
      <4>1. \A n \in 2..5 : n > 0
        OBVIOUS
      <4> QED
        BY <3>1, <4>1
    <3>3. Len(Front(q)) = Len(q) - 1 /\ \A i \in 1..(Len(q) - 1) : Front(q)[i] = q[i]
      BY <3>1, <3>2, FrontIs
    <3>4. ASSUME Under(from, Front(q)) PROVE Under(from, q)
      BY <1>1, <3>1, <3>3, <3>4 DEF Under
    <3> QED
      BY <1>3, <3>4
  <2> QED
    BY <1>2, <1>3, <2>1, <2>2 DEF Tree, Stays
<1>4. ASSUME NEW p \in DOMAIN fs, Under(from, p), q = Dest(from, to, p), fs'[q] = fs[p]
      PROVE  /\ Shaped(q)
             /\ IF IsDirectory(q) THEN fs'[q] = Dir ELSE fs'[q] \in Drafts \cup {Part}
             /\ Len(q) > 2 => Front(q) \in DOMAIN fs'
  <2>1. Shaped(p) /\ p \in Paths /\ Len(p) \in 2..5 /\ (Len(p) > 2 => Front(p) \in DOMAIN fs)
    BY DEF Tree, Exists, Shaped
  <2>2. Shaped(q) /\ Len(q) = Len(p) /\ IsDirectory(q) = IsDirectory(p)
    BY <1>4, <2>1, DestShaped
  <2>3. ASSUME Len(p) > 2 PROVE Front(q) \in DOMAIN fs'
    <3>0. Len(Front(p)) = Len(p) - 1 /\ \A i \in 1..(Len(p) - 1) : Front(p)[i] = p[i]
      <4>1. \A n \in 2..5 : n > 0
        OBVIOUS
      <4> QED
        BY <2>1, <4>1, FrontIs
    <3>1. CASE Len(p) = Len(from)
      <4>1. ~Under(from, Front(p))
        BY <1>1, <3>0, <3>1 DEF Under
      <4> QED
        BY <1>2, <1>4, <2>1, <2>3, <3>1, <4>1, DestFront DEF Stays
    <3>2. CASE Len(p) # Len(from)
      <4>1. Under(from, Front(p))
        BY <1>1, <1>4, <2>1, <3>0, <3>2 DEF Under
      <4> QED
        BY <1>2, <1>4, <2>1, <2>3, <3>2, <4>1, DestFront DEF Arrives
    <3> QED
      BY <3>1, <3>2
  <2> QED
    BY <1>4, <2>2, <2>3 DEF Tree
<1> QED
  BY <1>2, <1>3, <1>4 DEF Comes

-----------------------------------------------------------------------------
(* What the parser accepts *)

States ==
  [state : {"open", "end", "error"}, indexed : BOOLEAN, plte : BOOLEAN, idat : BOOLEAN,
   closed : BOOLEAN, parts : Nat]

Header == {"IHDR", "indexed"}
Data == {"IDAT", "IDAT0"}

\* The state after every prefix of the file.
Consumed(file, after) ==
  /\ after[0] = Fresh
  /\ \A n \in 1..Len(file) : after[n] = Consume(after[n - 1], file[n], n = 1, n = Len(file))

Accepting(s) == s.state = "end" /\ (s.indexed => s.plte) /\ RasterExact(s)

\* The number of pieces of image data among the first n chunks, as far as it matters.
Pieces(file, n) == {i \in 1..n : file[i] = "IDAT"}

Counted(file, n, parts) ==
  CASE parts = 0 -> Pieces(file, n) = {}
    [] parts = 1 -> \E i \in 1..n : Pieces(file, n) = {i}
    [] parts = 2 -> \E i, j \in 1..n : i < j /\ Pieces(file, n) = {i, j}
    [] OTHER -> \E i, j, k \in Pieces(file, n) : i # j /\ i # k /\ j # k

\* What the state tells of the chunks read so far, unless the parser has failed.
Told(file, n, s) ==
  /\ \A i \in 1..n : file[i] \in Header <=> i = 1
  /\ s.indexed <=> n >= 1 /\ file[1] = "indexed"
  /\ \A i \in 1..n : file[i] \notin {"critical", "broken"}
  /\ s.plte <=> \E i \in 1..n : file[i] = "PLTE"
  /\ \A i, j \in 1..n : file[i] = "PLTE" /\ file[j] = "PLTE" => i = j
  /\ s.idat <=> \E i \in 1..n : file[i] \in Data
  /\ \A i, j \in 1..n : file[i] = "PLTE" /\ file[j] \in Data => i < j
  /\ \A i, j \in 1..n : file[i] \in Data /\ file[j] \in Data =>
       \A k \in i..j : file[k] \in Data
  /\ s.state = "open" =>
       (s.closed <=> \E i \in 1..n : \E k \in i..n : file[i] \in Data /\ file[k] \notin Data)
  /\ \A i \in 1..n : file[i] = "IEND" <=> s.state = "end" /\ i = n
  /\ s.state = "end" => n = Len(file) /\ n >= 1 /\ s.idat
  /\ Counted(file, n, s.parts)

Read(file, n, s) == s \in States /\ (s.state # "error" => Told(file, n, s))

\* The parser stays in its states.
LEMMA ConsumeType ==
  ASSUME NEW s \in States, NEW chunk \in Chunk, NEW first \in BOOLEAN, NEW last \in BOOLEAN
  PROVE  Consume(s, chunk, first, last) \in States
<1>1. Fail(s) \in States /\ [s EXCEPT !.state = "end"] \in States
  BY DEF Fail, States
<1>2. \A b \in BOOLEAN : [s EXCEPT !.indexed = b] \in States /\ [s EXCEPT !.closed = b] \in States
  BY DEF States
<1>3. [s EXCEPT !.plte = TRUE] \in States
  BY DEF States
<1>4. [s EXCEPT !.idat = TRUE, !.parts = IF chunk = "IDAT" THEN @ + 1 ELSE @] \in States
  <2>1. s.parts \in Nat /\ s.parts + 1 \in Nat
    BY DEF States
  <2>2. \A n \in Nat : [s EXCEPT !.idat = TRUE, !.parts = n] \in States
    BY DEF States
  <2> QED
    BY <2>1, <2>2
<1>5. s.idat \in BOOLEAN
  BY DEF States
<1> QED
  BY <1>1, <1>2, <1>3, <1>4, <1>5 DEF Consume

\* Parses asks the state after the last chunk.
LEMMA ParsesIs ==
  ASSUME NEW file \in Seq(Chunk)
  PROVE  \E after : Consumed(file, after) /\ (Parses(file) <=> Accepting(after[Len(file)]))
<1> DEFINE k == Len(file)
           value(f, n) == IF n = 0 THEN Fresh ELSE Consume(f[n - 1], file[n], n = 1, n = k)
           Solution(f) == f = [n \in 0..k |-> value(f, n)]
           chosen == CHOOSE f : Solution(f)
           step == [n \in 1..k |-> [s \in States |-> Consume(s, file[n], n = 1, n = k)]]
<1>1. k \in Nat /\ Fresh \in States /\ \A n \in 1..k : file[n] \in Chunk
  BY LenProperties, ElementOfSeq DEF Fresh, States
<1>2. step \in [1..k -> [States -> States]]
  BY <1>1, ConsumeType
<1>3. PICK f \in [0..k -> States] : f[0] = Fresh /\ \A n \in 1..k : f[n] = step[n][f[n - 1]]
  <2>1. k \in Nat /\ Fresh \in States /\ step \in [1..k -> [States -> States]]
    BY <1>1, <1>2
  <2> HIDE DEF k, step
  <2> QED
    BY <2>1, RecursionExists
<1>4. \A n \in 1..k, s \in States : step[n][s] = Consume(s, file[n], n = 1, n = k)
  OBVIOUS
<1> HIDE DEF step
<1>5. Solution(f)
  <2>1. ASSUME NEW n \in 0..k PROVE f[n] = value(f, n)
    <3>1. CASE n = 0
      BY <1>3, <3>1
    <3>2. CASE n # 0
      <4>1. n \in 1..k /\ n - 1 \in 0..k
        BY <1>1, <3>2
      <4>2. f[n - 1] \in States
        BY <1>3, <4>1
      <4> QED
        BY <1>3, <1>4, <3>2, <4>1, <4>2
    <3> QED
      BY <3>1, <3>2
  <2>2. f = [n \in 0..k |-> f[n]]
    BY <1>3
  <2> HIDE DEF value
  <2> QED
    BY <2>1, <2>2
<1>6. Solution(chosen)
  <2> HIDE DEF Solution
  <2> QED
    BY <1>5
<1>7. Parses(file) <=> Accepting(chosen[k])
  BY DEF Parses, Accepting
<1> HIDE DEF chosen
<1>8. \A n \in 0..k : chosen[n] = value(chosen, n)
  <2> DEFINE v(n) == value(chosen, n)
  <2>1. chosen = [n \in 0..k |-> v(n)]
    BY <1>6
  <2> HIDE DEF v, value
  <2>2. \A n \in 0..k : chosen[n] = v(n)
    BY <2>1
  <2> QED
    BY <2>2 DEF v
<1>9. Consumed(file, chosen)
  BY <1>1, <1>8 DEF Consumed
<1> QED
  BY <1>7, <1>9

\* The count of image parts, after one more chunk.
LEMMA CountedStep ==
  ASSUME NEW file, NEW n \in Nat, NEW parts \in Nat, Counted(file, n, parts)
  PROVE  Counted(file, n + 1, IF file[n + 1] = "IDAT" THEN parts + 1 ELSE parts)
<1>1. Pieces(file, n + 1) = IF file[n + 1] = "IDAT" THEN Pieces(file, n) \cup {n + 1} ELSE Pieces(file, n)
  BY DEF Pieces
<1>2. Pieces(file, n) \subseteq 1..n /\ 1..n \subseteq 1..(n + 1) /\ n + 1 \in 1..(n + 1)
  BY DEF Pieces
<1>3. ASSUME file[n + 1] # "IDAT" PROVE Counted(file, n + 1, parts)
  BY <1>1, <1>2, <1>3 DEF Counted
<1>4. ASSUME file[n + 1] = "IDAT" PROVE Counted(file, n + 1, parts + 1)
  <2>1. CASE parts = 0
    BY <1>1, <1>2, <1>4, <2>1 DEF Counted
  <2>2. CASE parts = 1
    <3>1. PICK i \in 1..n : Pieces(file, n) = {i}
      BY <2>2 DEF Counted
    <3>2. i < n + 1 /\ i \in 1..(n + 1) /\ Pieces(file, n + 1) = {i, n + 1}
      BY <1>1, <1>4, <3>1
    <3> QED
      BY <1>2, <2>2, <3>2 DEF Counted
  <2>3. CASE parts = 2
    <3>1. PICK i, j \in 1..n : i < j /\ Pieces(file, n) = {i, j}
      BY <2>3 DEF Counted
    <3>2. i # j /\ i # n + 1 /\ j # n + 1 /\ {i, j, n + 1} \subseteq Pieces(file, n + 1)
      BY <1>1, <1>4, <3>1
    <3> QED
      BY <2>3, <3>2 DEF Counted
  <2>4. CASE parts > 2
    BY <1>1, <1>2, <1>4, <2>4 DEF Counted
  <2> QED
    BY <2>1, <2>2, <2>3, <2>4
<1> QED
  BY <1>3, <1>4

\* One turn of the loop keeps the account of what was read.
LEMMA ReadStep ==
  ASSUME NEW file \in Seq(Chunk), NEW n \in Nat, n < Len(file), NEW s, Read(file, n, s)
  PROVE  Read(file, n + 1, Consume(s, file[n + 1], n + 1 = 1, n + 1 = Len(file)))
<1> DEFINE c == file[n + 1]
           t == Consume(s, c, n + 1 = 1, n + 1 = Len(file))
<1>1. Len(file) \in Nat /\ n + 1 \in 1..Len(file) /\ c \in Chunk
  BY LenProperties, ElementOfSeq
<1>2. s \in States /\ t \in States
  BY <1>1, ConsumeType DEF Read
<1>3. ASSUME s.state # "open" PROVE t.state = "error"
  <2>1. t = s
    BY <1>3 DEF Consume
  <2>2. s.state # "end"
    BY <1>1 DEF Read, Told
  <2> QED
    BY <1>2, <1>3, <2>1, <2>2 DEF States
<1> HIDE DEF c
<1> SUFFICES ASSUME s.state = "open", t.state # "error" PROVE Told(file, n + 1, t)
  BY <1>2, <1>3 DEF Read, c
<1>4. Told(file, n, s)
  BY DEF Read
<1>5. Counted(file, n + 1, IF c = "IDAT" THEN s.parts + 1 ELSE s.parts)
  BY <1>2, <1>4, CountedStep DEF Told, c, States
<1>6. \A i \in 1..(n + 1) : i = n + 1 \/ i \in 1..n
  OBVIOUS
<1>7. Fail(s).state = "error"
  BY <1>2 DEF Fail, States
<1>8. /\ n + 1 = 1 <=> c \in Header
      /\ c \notin {"critical", "broken"}
  BY <1>7 DEF Consume, Header
<1>9. CASE c \in Header
  <2>1. n = 0 /\ t = [s EXCEPT !.indexed = c = "indexed"]
    BY <1>8, <1>9 DEF Consume, Header
  <2>2. t.state = "open" /\ t.plte = s.plte /\ t.idat = s.idat
        /\ t.closed = s.closed /\ t.parts = s.parts
    BY <1>2, <2>1 DEF States
  <2>0. t.indexed <=> c = "indexed"
    <3>1. \A b \in BOOLEAN : [s EXCEPT !.indexed = b].indexed = b
      BY <1>2 DEF States
    <3>2. (c = "indexed") \in BOOLEAN
      OBVIOUS
    <3>3. t.indexed = (c = "indexed")
      BY <2>1, <3>1, <3>2
    <3> QED
      BY <3>3, Zenon
  <2>3. c = file[1] /\ c \notin Data /\ c # "PLTE" /\ c # "IEND" /\ c # "IDAT"
    BY <1>9, <2>1 DEF c, Header, Data
  <2>4. ~s.plte /\ ~s.idat /\ ~s.closed
    BY <1>2, <1>4, <2>1 DEF Told, States
  <2>5. Counted(file, n + 1, t.parts)
    BY <1>5, <2>2, <2>3
  <2>6. n + 1 = 1 /\ \A i \in 1..1 : i = 1 /\ file[i] = c
    BY <2>1, <2>3
  <2>7. t.state = "open" /\ ~t.plte /\ ~t.idat /\ ~t.closed
    BY <2>2, <2>4
  <2>8. Counted(file, 1, t.parts)
    BY <2>5, <2>6
  <2>9. \A i \in 1..1 : /\ file[i] \in Header /\ file[i] \notin Data
                       /\ file[i] \notin {"critical", "broken", "PLTE", "IEND"}
    BY <1>8, <1>9, <2>3, <2>6
  <2> HIDE DEF t
  <2>10. Told(file, 1, t)
    <3>1. \A i \in 1..1 : file[i] \in Header <=> i = 1
      BY <2>6, <2>9
    <3>2. t.indexed <=> 1 >= 1 /\ file[1] = "indexed"
      BY <2>0, <2>3
    <3>3. t.plte <=> \E i \in 1..1 : file[i] = "PLTE"
      BY <2>7, <2>9
    <3>4. t.idat <=> \E i \in 1..1 : file[i] \in Data
      BY <2>7, <2>9
    <3>5. t.closed <=> \E i \in 1..1 : \E k \in i..1 : file[i] \in Data /\ file[k] \notin Data
      BY <2>7, <2>9
    <3> QED
      BY <2>6, <2>7, <2>8, <2>9, <3>1, <3>2, <3>3, <3>4, <3>5 DEF Told
  <2> QED
    BY <2>6, <2>10
<1>10. CASE c = "PLTE"
  <2>1. t = [s EXCEPT !.plte = TRUE] /\ ~s.plte /\ ~s.idat
    BY <1>2, <1>7, <1>8, <1>10 DEF Consume, Header, States
  <2>2. t.plte = TRUE /\ t.state = "open" /\ t.indexed = s.indexed /\ t.idat = s.idat
        /\ t.closed = s.closed /\ t.parts = s.parts
    BY <1>2, <2>1 DEF States
  <2>3. Counted(file, n + 1, t.parts)
    BY <1>5, <1>10, <2>2
  <2> HIDE DEF t
  <2>4. n >= 1 /\ c \notin Data /\ c \notin Header
    BY <1>8, <1>10 DEF Data, Header
  <2>5. \A i \in 1..n : file[i] \notin Data /\ file[i] # "PLTE"
    BY <1>4, <2>1 DEF Told
  <2> QED
    BY <1>4, <1>6, <1>10, <2>1, <2>2, <2>3, <2>4, <2>5 DEF Told, c
<1>11. CASE c \in Data
  <2>1. t = [s EXCEPT !.idat = TRUE, !.parts = IF c = "IDAT" THEN @ + 1 ELSE @] /\ ~s.closed
    BY <1>2, <1>7, <1>8, <1>11 DEF Consume, Header, Data, States
  <2>2. t.idat = TRUE /\ t.state = "open" /\ t.indexed = s.indexed /\ t.plte = s.plte
        /\ t.closed = s.closed /\ t.parts = IF c = "IDAT" THEN s.parts + 1 ELSE s.parts
    BY <1>2, <2>1 DEF States
  <2>3. Counted(file, n + 1, t.parts)
    BY <1>5, <2>2
  <2> HIDE DEF t
  <2>4. n >= 1 /\ c \notin {"PLTE", "IEND"} /\ c \notin Header
    BY <1>8, <1>11 DEF Data, Header
  <2>5. \A i \in 1..n : \A k \in i..n : file[i] \in Data => file[k] \in Data
    BY <1>4, <2>1 DEF Told
  <2>6. ASSUME NEW i \in 1..(n + 1), NEW j \in 1..(n + 1), file[i] \in Data, NEW k \in i..j
        PROVE  file[k] \in Data
    <3>1. k = n + 1 \/ (i \in 1..n /\ k \in i..n)
      BY <2>6
    <3> QED
      BY <1>11, <2>5, <2>6, <3>1 DEF c
  <2>7. ASSUME NEW i \in 1..(n + 1), NEW j \in 1..(n + 1), file[i] = "PLTE", file[j] \in Data
        PROVE  i < j
    BY <1>4, <1>6, <2>4, <2>7 DEF Told, c
  <2>8. \A i, j \in 1..(n + 1) : file[i] = "PLTE" /\ file[j] = "PLTE" => i = j
    BY <1>4, <1>6, <2>4 DEF Told, c
  <2> QED
    BY <1>4, <1>6, <1>8, <1>11, <2>1, <2>2, <2>3, <2>4, <2>6, <2>7, <2>8 DEF Told, c
<1>12. CASE c = "IEND"
  <2>1. t = [s EXCEPT !.state = "end"] /\ s.idat /\ n + 1 = Len(file)
    BY <1>2, <1>7, <1>8, <1>12 DEF Consume, Header, States
  <2>2. t.idat = s.idat /\ t.state = "end" /\ t.indexed = s.indexed /\ t.plte = s.plte
        /\ t.parts = s.parts
    BY <1>2, <2>1 DEF States
  <2>3. Counted(file, n + 1, t.parts)
    BY <1>5, <1>12, <2>2
  <2> HIDE DEF t
  <2>4. n >= 1 /\ c \notin Data /\ c # "PLTE" /\ c \notin Header
    BY <1>8, <1>12 DEF Data, Header
  <2>5. ASSUME NEW i \in 1..(n + 1), NEW j \in 1..(n + 1), file[i] \in Data, file[j] \in Data,
               NEW k \in i..j
        PROVE  file[k] \in Data
    <3>1. i \in 1..n /\ j \in 1..n
      BY <1>6, <2>4, <2>5 DEF c
    <3> QED
      BY <1>4, <2>5, <3>1 DEF Told
  <2> QED
    BY <1>4, <1>6, <1>8, <1>12, <2>1, <2>2, <2>3, <2>4, <2>5 DEF Told, c
<1>13. CASE c = "ancillary"
  <2>1. t = [s EXCEPT !.closed = s.idat]
    BY <1>2, <1>7, <1>8, <1>13 DEF Consume, Header, States
  <2>2. t.idat = s.idat /\ t.state = "open" /\ t.indexed = s.indexed /\ t.plte = s.plte
        /\ t.closed = s.idat /\ t.parts = s.parts
    BY <1>2, <2>1 DEF States
  <2>3. Counted(file, n + 1, t.parts)
    BY <1>5, <1>13, <2>2
  <2> HIDE DEF t
  <2>4. n >= 1 /\ c \notin Data /\ c # "PLTE" /\ c \notin Header /\ c # "IEND"
    BY <1>8, <1>13 DEF Data, Header
  <2>5. ASSUME NEW i \in 1..(n + 1), NEW j \in 1..(n + 1), file[i] \in Data, file[j] \in Data,
               NEW k \in i..j
        PROVE  file[k] \in Data
    <3>1. i \in 1..n /\ j \in 1..n
      BY <1>6, <2>4, <2>5 DEF c
    <3> QED
      BY <1>4, <2>5, <3>1 DEF Told
  <2>6. s.idat <=> \E i \in 1..(n + 1) : \E k \in i..(n + 1) : file[i] \in Data /\ file[k] \notin Data
    BY <1>4, <1>6, <2>4 DEF Told, c
  <2>7. /\ t.closed <=> \E i \in 1..(n + 1) : \E k \in i..(n + 1) : file[i] \in Data /\ file[k] \notin Data
        /\ t.idat <=> s.idat
        /\ t.indexed <=> s.indexed
        /\ t.plte <=> s.plte
    BY <2>2, <2>6, Zenon
  <2>8. \A i, j \in 1..(n + 1) : file[i] = "PLTE" /\ file[j] \in Data => i < j
    BY <1>4, <1>6, <2>4 DEF Told, c
  <2>9. /\ \A i \in 1..(n + 1) : file[i] \in Header <=> i = 1
        /\ s.indexed <=> n + 1 >= 1 /\ file[1] = "indexed"
        /\ \A i \in 1..(n + 1) : file[i] \notin {"critical", "broken"}
    BY <1>4, <1>6, <1>8, <2>4 DEF Told, c
  <2>10. /\ s.plte <=> \E i \in 1..(n + 1) : file[i] = "PLTE"
         /\ \A i, j \in 1..(n + 1) : file[i] = "PLTE" /\ file[j] = "PLTE" => i = j
         /\ s.idat <=> \E i \in 1..(n + 1) : file[i] \in Data
    BY <1>4, <1>6, <2>4 DEF Told, c
  <2>11. \A i \in 1..(n + 1) : file[i] # "IEND"
    BY <1>4, <1>6, <2>4 DEF Told, c
  <2> QED
    BY <2>2, <2>3, <2>5, <2>7, <2>8, <2>9, <2>10, <2>11 DEF Told
<1> QED
  BY <1>1, <1>8, <1>9, <1>10, <1>11, <1>12, <1>13 DEF Chunk, Header, Data

\* The account holds after every prefix.
LEMMA ReadAll ==
  ASSUME NEW file \in Seq(Chunk), NEW after, Consumed(file, after)
  PROVE  \A n \in 0..Len(file) : Read(file, n, after[n])
<1> DEFINE S == {n \in Nat : n <= Len(file) => Read(file, n, after[n])}
<1>1. Len(file) \in Nat
  BY LenProperties
<1>2. 0 \in S
  <2>1. after[0] = Fresh /\ Fresh \in States
    BY DEF Consumed, Fresh, States
  <2>2. Told(file, 0, Fresh)
    BY DEF Told, Fresh, Counted, Pieces
  <2> QED
    BY <2>1, <2>2 DEF Read
<1>3. ASSUME NEW n \in Nat, n \in S PROVE n + 1 \in S
  <2> SUFFICES ASSUME n + 1 <= Len(file) PROVE Read(file, n + 1, after[n + 1])
    OBVIOUS
  <2>1. Read(file, n, after[n]) /\ n < Len(file)
    BY <1>1, <1>3
  <2>2. after[n + 1] = Consume(after[n], file[n + 1], n + 1 = 1, n + 1 = Len(file))
    <3>1. n + 1 \in 1..Len(file) /\ (n + 1) - 1 = n
      BY <1>1
    <3> QED
      BY <3>1 DEF Consumed
  <2> QED
    BY <2>1, <2>2, ReadStep
<1> HIDE DEF S
<1>4. Nat \subseteq S
  BY <1>2, <1>3, SetInduction
<1> QED
  BY <1>1, <1>4 DEF S

\* A well-formed file meets no error before its end.
LEMMA WellFormedOpen ==
  ASSUME NEW file \in Seq(Chunk), NEW after, Consumed(file, after), WellFormed(file)
  PROVE  Len(file) >= 1 /\ after[Len(file)].state = "end"
<1> DEFINE k == Len(file)
<1>1. k \in Nat /\ DOMAIN file = 1..k /\ \A i \in 1..k : file[i] \in Chunk
  BY LenProperties, ElementOfSeq
<1>2. /\ \A i \in 1..k : file[i] \in {"IHDR", "indexed"} <=> i = 1
      /\ k >= 1 /\ \A i \in 1..k : file[i] = "IEND" <=> i = k
      /\ \A i \in 1..k : file[i] \notin {"critical", "broken"}
  <2>1. /\ {i \in 1..k : file[i] \in {"IHDR", "indexed"}} = {1}
        /\ {i \in 1..k : file[i] \in {"IEND"}} = {k}
        /\ {i \in 1..k : file[i] \in {"critical", "broken"}} = {}
    BY <1>1 DEF WellFormed, Places
  <2>2. \A i \in 1..k : file[i] \in {"IHDR", "indexed"} <=> i = 1
    BY <2>1
  <2>3. k >= 1
    <3>1. 1 \in 1..k
      BY <2>1
    <3> QED
      BY <1>1, <3>1
  <2>4. \A i \in 1..k : file[i] = "IEND" <=> i = k
    BY <2>1
  <2>5. \A i \in 1..k : file[i] \notin {"critical", "broken"}
    BY <2>1
  <2> QED
    BY <2>2, <2>3, <2>4, <2>5
<1>3. /\ \A i, j \in 1..k : file[i] \in Data /\ file[j] \in Data => \A m \in i..j : file[m] \in Data
      /\ \A i, j \in 1..k : file[i] = "PLTE" /\ file[j] = "PLTE" => i = j
      /\ \A i, j \in 1..k : file[i] = "PLTE" /\ file[j] \in Data => i < j
      /\ \E i \in 1..k : file[i] \in Data
  BY <1>1 DEF WellFormed, Places, Data
<1> HIDE DEF k
<1>4. ASSUME NEW n \in Nat, n < k, Read(file, n, after[n]), after[n].state = "open"
      PROVE  after[n + 1].state = IF n + 1 = k THEN "end" ELSE "open"
  <2> DEFINE c == file[n + 1]
             s == after[n]
  <2>1. n + 1 \in 1..k /\ (n + 1) - 1 = n /\ c \in Chunk
    BY <1>1, <1>4
  <2>2. after[n + 1] = Consume(s, c, n + 1 = 1, n + 1 = k)
    BY <2>1 DEF Consumed, k
  <2>3. s \in States /\ Told(file, n, s)
    BY <1>4 DEF Read
  <2> HIDE DEF s
  <2>4. /\ (n + 1 = 1) <=> c \in {"IHDR", "indexed"}
        /\ c \notin {"critical", "broken"}
        /\ c = "IEND" <=> n + 1 = k
    BY <1>2, <2>1
  <2>5. c = "PLTE" => ~s.plte /\ ~s.idat
    <3>1. ASSUME c = "PLTE", NEW i \in 1..n PROVE file[i] # "PLTE" /\ file[i] \notin Data
      BY <1>1, <1>3, <1>4, <2>1, <3>1
    <3> QED
      BY <2>3, <3>1 DEF Told
  <2>6. c \in Data => ~s.closed
    <3>1. ASSUME c \in Data, NEW i \in 1..n, NEW m \in i..n, file[i] \in Data PROVE file[m] \in Data
      BY <1>1, <1>3, <1>4, <2>1, <3>1
    <3> QED
      BY <1>4, <2>3, <3>1 DEF Told, s
  <2>7. c = "IEND" => s.idat
    <3>1. PICK i \in 1..k : file[i] \in Data
      BY <1>3
    <3>2. ASSUME c = "IEND" PROVE i \in 1..n
      BY <1>2, <1>4, <2>1, <2>4, <3>1, <3>2 DEF Data
    <3> QED
      BY <2>3, <3>1, <3>2 DEF Told
  <2> HIDE DEF c
  <2>8. /\ \A b \in BOOLEAN : [s EXCEPT !.indexed = b].state = s.state /\ [s EXCEPT !.closed = b].state = s.state
        /\ [s EXCEPT !.plte = TRUE].state = s.state
        /\ \A m : [s EXCEPT !.idat = TRUE, !.parts = m].state = s.state
        /\ [s EXCEPT !.state = "end"].state = "end"
        /\ s.idat \in BOOLEAN /\ s.state = "open"
    BY <1>4, <2>3 DEF States, s
  <2> QED
    BY <2>2, <2>4, <2>5, <2>6, <2>7, <2>8 DEF Consume, Data
<1> DEFINE S == {n \in Nat : n < k => after[n].state = "open"}
<1>5. 0 \in S
  BY DEF Consumed, Fresh
<1>6. ASSUME NEW n \in Nat, n \in S PROVE n + 1 \in S
  <2>1. n \in 0..k => Read(file, n, after[n])
    BY ReadAll DEF k
  <2> QED
    BY <1>1, <1>4, <1>6, <2>1
<1> HIDE DEF S
<1>7. k - 1 \in S /\ k - 1 \in Nat /\ k - 1 < k /\ (k - 1) + 1 = k /\ k - 1 \in 0..k
  <2>1. Nat \subseteq S
    BY <1>5, <1>6, SetInduction
  <2> QED
    BY <1>1, <1>2, <2>1
<1>8. Read(file, k - 1, after[k - 1]) /\ after[k - 1].state = "open"
  BY <1>7, ReadAll DEF S, k
<1>9. after[k].state = "end"
  BY <1>4, <1>7, <1>8
<1> QED
  BY <1>2, <1>9 DEF k

\* What the parser accepts is exactly the well-formed pictures, for files of any
\* length (TLC evaluates ParserIsGrammar over the short ones).
THEOREM ParserExact == \A file \in Seq(Chunk) : Parses(file) <=> WellFormed(file)
<1> SUFFICES ASSUME NEW file \in Seq(Chunk) PROVE Parses(file) <=> WellFormed(file)
  OBVIOUS
<1> DEFINE k == Len(file)
<1>1. PICK after : Consumed(file, after) /\ (Parses(file) <=> Accepting(after[k]))
  BY ParsesIs
<1>2. k \in Nat /\ DOMAIN file = 1..k
  BY LenProperties
<1> DEFINE s == after[k]
<1>3. Read(file, k, s)
  <2>1. k \in 0..k
    BY <1>2
  <2> QED
    BY <1>1, <2>1, ReadAll
<1>4. WellFormed(file) => k >= 1 /\ s.state = "end"
  BY <1>1, WellFormedOpen
<1>5. s.state = "end" => k >= 1
  BY <1>3 DEF Read, Told
<1> SUFFICES ASSUME k >= 1, s.state = "end"
             PROVE  (s.indexed => s.plte) /\ RasterExact(s) <=> WellFormed(file)
  BY <1>1, <1>3, <1>4, <1>5 DEF Accepting
<1>6. Told(file, k, s) /\ s \in States
  BY <1>3 DEF Read
<1> HIDE DEF s
<1>7. Pieces(file, k) = Places(file, {"IDAT"})
  BY <1>2 DEF Pieces, Places
<1>8. RasterExact(s) <=> \E i, j \in 1..k : i < j /\ Pieces(file, k) = {i, j}
  <2>1. s.parts \in Nat /\ Counted(file, k, s.parts)
    BY <1>6 DEF Told, States
  <2>2. s.parts = 2 => \E i, j \in 1..k : i < j /\ Pieces(file, k) = {i, j}
    BY <2>1 DEF Counted
  <2>3. ASSUME s.parts # 2, NEW i \in 1..k, NEW j \in 1..k, i < j, Pieces(file, k) = {i, j}
        PROVE  FALSE
    <3>1. i \in Pieces(file, k) /\ j \in Pieces(file, k) /\ i # j /\ \A m \in Pieces(file, k) : m = i \/ m = j
      BY <1>2, <2>3
    <3>2. s.parts # 0
      BY <2>1, <3>1 DEF Counted
    <3>3. s.parts # 1
      BY <2>1, <3>1 DEF Counted
    <3>4. \E x, y, z \in Pieces(file, k) : x # y /\ x # z /\ y # z
      BY <2>1, <2>3, <3>2, <3>3 DEF Counted
    <3> QED
      BY <3>1, <3>4
  <2> QED
    BY <2>2, <2>3 DEF RasterExact, RasterParts
<1>9. /\ Places(file, {"IHDR", "indexed"}) = {1}
      /\ Places(file, {"IEND"}) = {k}
      /\ Places(file, {"critical", "broken"}) = {}
  <2>1. \A i \in 1..k : /\ file[i] \in {"IHDR", "indexed"} <=> i = 1
                       /\ file[i] \notin {"critical", "broken"}
    BY <1>6 DEF Told, Header
  <2>2. \A i \in 1..k : file[i] = "IEND" <=> i = k
    BY <1>6 DEF Told
  <2>3. 1 \in 1..k /\ k \in 1..k
    BY <1>2
  <2>4. Places(file, {"IHDR", "indexed"}) = {1} /\ Places(file, {"critical", "broken"}) = {}
    BY <1>2, <2>1, <2>3 DEF Places
  <2>5. Places(file, {"IEND"}) = {k}
    <3>1. Places(file, {"IEND"}) = {i \in 1..k : file[i] = "IEND"}
      BY <1>2 DEF Places
    <3> HIDE DEF k
    <3>2. {i \in 1..k : file[i] = "IEND"} = {k}
      BY <2>2, <2>3
    <3> QED
      BY <3>1, <3>2
  <2> QED
    BY <2>4, <2>5
<1>10. /\ \A i, j \in Places(file, Data) : \A m \in i..j : m \in Places(file, Data)
       /\ \A i, j \in Places(file, {"PLTE"}) : i = j
       /\ \A i \in Places(file, {"PLTE"}), j \in Places(file, Data) : i < j
  <2>1. /\ \A i, j \in 1..k : file[i] = "PLTE" /\ file[j] = "PLTE" => i = j
        /\ \A i, j \in 1..k : file[i] = "PLTE" /\ file[j] \in Data => i < j
        /\ \A i, j \in 1..k : file[i] \in Data /\ file[j] \in Data => \A m \in i..j : file[m] \in Data
    BY <1>6 DEF Told
  <2>2. \A i, kinds : i \in Places(file, kinds) <=> i \in 1..k /\ file[i] \in kinds
    BY <1>2 DEF Places
  <2>3. ASSUME NEW i \in Places(file, Data), NEW j \in Places(file, Data), NEW m \in i..j
        PROVE  m \in Places(file, Data)
    <3>1. i \in 1..k /\ j \in 1..k /\ file[i] \in Data /\ file[j] \in Data
      BY <2>2
    <3>2. m \in 1..k
      BY <1>2, <3>1
    <3> QED
      BY <2>1, <2>2, <3>1, <3>2
  <2> QED
    BY <2>1, <2>2, <2>3
<1>11. (s.indexed => s.plte) <=> (file[1] = "indexed" => Places(file, {"PLTE"}) # {})
  BY <1>2, <1>6 DEF Told, Places
<1>12. (\E i, j \in 1..k : i < j /\ Pieces(file, k) = {i, j})
         <=> \E i \in Places(file, Data) : \E j \in Places(file, Data) :
               i < j /\ Places(file, {"IDAT"}) = {i, j}
  <2>1. Places(file, {"IDAT"}) \subseteq Places(file, Data) /\ Places(file, Data) \subseteq 1..k
    BY <1>2 DEF Places, Data
  <2> QED
    BY <1>7, <2>1
<1> HIDE DEF k
<1> QED
  BY <1>8, <1>9, <1>10, <1>11, <1>12 DEF WellFormed, Data, k

-----------------------------------------------------------------------------
(* What the calls do to the files *)

\* The picture of a durable round, under its own name.
IsReferenced(p) == IsPicture(p) /\ p[3][2] = Plain /\ p[3][1] \in referenced

\* The entry itself moves to the new name.
LEMMA DestSelf ==
  ASSUME NEW from \in Paths, NEW to \in Paths, Len(from) = Len(to)
  PROVE  Under(from, from) /\ Dest(from, to, from) = to
<1>1. Len(from) \in Nat /\ Under(from, from)
  BY PathIs DEF Under
<1>2. /\ Dest(from, to, from) \in Paths /\ Len(Dest(from, to, from)) = Len(from)
      /\ \A i \in 1..Len(from) : Dest(from, to, from)[i] = IF i <= Len(to) THEN to[i] ELSE from[i]
  BY <1>1, DestIs
<1>3. \A i \in 1..Len(from) : Dest(from, to, from)[i] = to[i]
  BY <1>1, <1>2
<1> QED
  BY <1>1, <1>2, <1>3, SamePath

\* Two entries of one length, one above the other, are the same.
LEMMA UnderSame ==
  ASSUME NEW p \in Paths, NEW q \in Paths, Under(p, q), Len(p) = Len(q)
  PROVE  p = q
BY SamePath DEF Under

\* Nothing is below a picture or a draft.
LEMMA NothingBelowFile ==
  ASSUME Tree, NEW path, Shaped(path), ~IsDirectory(path)
  PROVE  Below(path) = {}
<1>1. path \in Paths /\ Len(path) \in 2..5 /\ Len(path) \in {3, 5} /\ (Len(path) = 3 => path[1][1] = "public")
  BY DEF Shaped, IsDirectory
<1>2. Below(path) = {p \in DOMAIN fs : Under(path, p) /\ Len(path) < Len(p)}
  BY <1>1, TreePaths, BelowIs
<1>3. ASSUME NEW p \in DOMAIN fs, Under(path, p), Len(path) < Len(p) PROVE FALSE
  <2>1. Len(p) \in 2..5 /\ (p[1][1] = "public" => Len(p) <= 3)
    BY DEF Tree, Shaped
  <2>2. p[1] = path[1]
    BY <1>1, <1>3 DEF Under
  <2>3. CASE Len(path) = 3
    <3>1. p[1][1] = "public"
      BY <1>1, <2>2, <2>3
    <3>2. Len(p) <= 3
      BY <2>1, <3>1
    <3> QED
      BY <1>3, <2>1, <2>3, <3>2
  <2>4. CASE Len(path) = 5
    <3>1. \A n \in 2..5 : ~(5 < n)
      OBVIOUS
    <3> QED
      BY <1>3, <2>1, <2>4, <3>1
  <2> QED
    BY <1>1, <2>3, <2>4
<1> QED
  BY <1>2, <1>3

\* An entry is written: a directory, or a file that is a whole picture if it is
\* one under its own name.
LEMMA FilesAdded ==
  ASSUME Files, NEW path, NEW what, Shaped(path),
         IF IsDirectory(path) THEN what = Dir ELSE what \in Drafts \cup {Part},
         Len(path) > 2 => Exists(Front(path)),
         IsPicture(path) => path[3][2] # Plain,
         fs' = With(path, what), referenced' = referenced
  PROVE  Files'
<1>1. /\ DOMAIN fs' = DOMAIN fs \cup {path}
      /\ \A p \in DOMAIN fs' : fs'[p] = IF p = path THEN what ELSE fs[p]
  BY DEF With
<1>2. Tree'
  BY TreeAdded DEF Files
<1>3. WholePictures'
  BY <1>1 DEF Files, WholePictures
<1>4. Pictured'
  BY <1>1 DEF Files, Pictured
<1> QED
  BY <1>2, <1>3, <1>4 DEF Files

\* An entry with nothing below it goes.
LEMMA FilesRemoved ==
  ASSUME Files, NEW path \in Paths, Below(path) = {}, ~IsReferenced(path),
         fs' = Without(path), referenced' = referenced
  PROVE  Files'
<1>1. DOMAIN fs' = DOMAIN fs \ {path} /\ \A p \in DOMAIN fs' : fs'[p] = fs[p]
  BY DEF Without
<1>2. Tree'
  BY TreeRemoved DEF Files
<1>3. WholePictures'
  BY <1>1 DEF Files, WholePictures
<1>4. Pictured'
  <2> SUFFICES ASSUME NEW a \in referenced
               PROVE  \E p \in DOMAIN fs' : IsPicture(p) /\ p[3] = <<a, Plain>>
    BY DEF Pictured
  <2>1. PICK p \in DOMAIN fs : IsPicture(p) /\ p[3] = <<a, Plain>>
    BY DEF Files, Pictured
  <2>2. p # path
    BY <2>1 DEF IsReferenced
  <2> QED
    BY <1>1, <2>1, <2>2
<1> QED
  BY <1>2, <1>3, <1>4 DEF Files

\* An entry changes its mark, with everything below it.
LEMMA FilesMoved ==
  ASSUME Files, NEW from, NEW to, Remarks(from, to), Exists(from), ~IsReferenced(from),
         IsPicture(from) /\ to[3][2] = Plain => WellFormed(fs[from]),
         fs' = Renamed(from, to), referenced' = referenced
  PROVE  Files'
<1>1. DOMAIN fs \subseteq Paths /\ from \in Paths /\ to \in Paths /\ Len(from) = Len(to) /\ Len(from) \in 2..5
  BY TreePaths DEF Remarks, Shaped, Files
<1>2. Arrives(from, to, fs') /\ Stays(from, to, fs') /\ Comes(from, to, fs')
  BY <1>1, RenamedIs
<1>3. Tree'
  BY TreeRenamed DEF Files
<1>4. ASSUME NEW p \in DOMAIN fs, Under(from, p), IsPicture(p), Len(from) # 2
      PROVE  p = from /\ Dest(from, to, p) = to /\ IsPicture(from)
  <2>1. p \in Paths /\ Len(p) = 3
    BY <1>1, <1>4 DEF IsPicture
  <2>2. Len(from) = Len(p)
    BY <1>1, <1>4, <2>1 DEF Under
  <2>3. p = from
    BY <1>1, <1>4, <2>1, <2>2, UnderSame
  <2> QED
    BY <1>1, <1>4, <2>3, DestSelf
<1>5. ASSUME NEW p \in DOMAIN fs, Under(from, p)
      PROVE  LET q == Dest(from, to, p)
             IN  IsPicture(q) = IsPicture(p) /\ (IsPicture(p) /\ Len(from) = 2 => q[3] = p[3])
  <2>1. Shaped(p)
    BY DEF Files, Tree
  <2> DEFINE q == Dest(from, to, p)
  <2>2. IsPicture(q) = IsPicture(p) /\ \A i \in 1..Len(p) : i # Len(from) => q[i] = p[i]
    BY <1>5, <2>1, DestShaped
  <2>3. IsPicture(p) => 3 \in 1..Len(p)
    BY DEF IsPicture
  <2> HIDE DEF q
  <2>4. IsPicture(p) /\ Len(from) = 2 => q[3] = p[3]
    BY <2>2, <2>3
  <2> QED
    BY <2>2, <2>4 DEF q
<1>6. WholePictures'
  <2> SUFFICES ASSUME NEW q \in DOMAIN fs', IsPicture(q), q[3][2] = Plain PROVE WellFormed(fs'[q])
    BY DEF WholePictures
  <2>1. CASE q \in DOMAIN fs /\ fs'[q] = fs[q]
    BY <2>1 DEF Files, WholePictures
  <2>2. ASSUME NEW p \in DOMAIN fs, Under(from, p), q = Dest(from, to, p), fs'[q] = fs[p]
        PROVE  WellFormed(fs'[q])
    <3>1. IsPicture(p)
      BY <1>5, <2>2
    <3>2. CASE Len(from) = 2
      BY <1>5, <2>2, <3>1, <3>2 DEF Files, WholePictures
    <3>3. CASE Len(from) # 2
      BY <1>4, <2>2, <3>1, <3>3
    <3> QED
      BY <3>2, <3>3
  <2> QED
    BY <1>2, <2>1, <2>2 DEF Comes
<1>7. Pictured'
  <2> SUFFICES ASSUME NEW a \in referenced
               PROVE  \E p \in DOMAIN fs' : IsPicture(p) /\ p[3] = <<a, Plain>>
    BY DEF Pictured
  <2>1. PICK p \in DOMAIN fs : IsPicture(p) /\ p[3] = <<a, Plain>>
    BY DEF Files, Pictured
  <2>2. CASE ~Under(from, p)
    BY <1>2, <2>1, <2>2 DEF Stays
  <2>3. CASE Under(from, p)
    <3>1. Len(from) = 2
      BY <1>4, <2>1, <2>3 DEF IsReferenced
    <3> QED
      BY <1>2, <1>5, <2>1, <2>3, <3>1 DEF Arrives
  <2> QED
    BY <2>2, <2>3
<1> QED
  BY <1>3, <1>6, <1>7 DEF Files

\* No reconciliation is going on.
LEMMA IdleSweep ==
  ASSUME sweep' = NoSweep, server' # "up" => lock' = Nobody
  PROVE  Sweeping'
BY EmptySeq DEF Sweeping, NoSweep

-----------------------------------------------------------------------------
(* The steps of the server and of the agents *)

\* The places of an attempt are told from each other and from those of others.
LEMMA Apart ==
  ASSUME NEW a \in Attempts, NEW b \in Attempts
  PROVE  /\ Draft(a) \notin {Private(b), Workspace(b), Output(b), Public(b), Temporary(b), Final(b)}
         /\ Final(a) \notin {Private(b), Workspace(b), Output(b), Public(b), Temporary(b)}
         /\ Temporary(a) # Public(b)
         /\ Final(a) = Final(b) => a = b
         /\ Draft(a) = Draft(b) => a = b
<1>1. /\ Len(Draft(a)) = 5 /\ Len(Private(b)) = 2 /\ Len(Workspace(b)) = 3 /\ Len(Output(b)) = 4
      /\ Len(Public(b)) = 2 /\ Len(Temporary(b)) = 3 /\ Len(Final(b)) = 3
      /\ Len(Final(a)) = 3 /\ Len(Temporary(a)) = 3
  BY RootPlaces, WorkspacePlaces, PicturePlaces DEF IsPicture
<1>2. Final(a)[1][1] = "public" /\ Workspace(b)[1][1] = "private"
  BY WorkspacePlaces, PicturePlaces DEF IsPicture
<1>3. /\ Final(a)[3] = <<a, Plain>> /\ Final(b)[3] = <<b, Plain>> /\ Temporary(b)[3] = <<b, Temp>>
      /\ Draft(a)[3] = <<a, Plain>> /\ Draft(b)[3] = <<b, Plain>>
  BY WorkspacePlaces, PicturePlaces
<1>4. Plain # Temp
  BY DEF Plain, Temp
<1>5. Draft(a) \notin {Private(b), Workspace(b), Output(b), Public(b), Temporary(b), Final(b)}
  BY <1>1
<1>6. Final(a) # Workspace(b) /\ Final(a) # Temporary(b)
  BY <1>2, <1>3, <1>4
<1>7. Final(a) = Final(b) => a = b
  BY <1>3
<1>8. Draft(a) = Draft(b) => a = b
  BY <1>3
<1> QED
  BY <1>1, <1>5, <1>6, <1>7, <1>8

\* The files among the places, and the directories.
LEMMA PlaceKinds ==
  ASSUME Files, NEW a \in Attempts
  PROVE  /\ Draft(a) \in Paths /\ Below(Draft(a)) = {} /\ ~IsPicture(Draft(a))
         /\ Final(a) \in Paths /\ Below(Final(a)) = {} /\ (IsReferenced(Final(a)) => a \in referenced)
         /\ Temporary(a) \in Paths /\ Below(Temporary(a)) = {} /\ ~IsReferenced(Temporary(a))
         /\ \A path \in {Output(a), Workspace(a), Private(a), Public(a)} : Shaped(path) /\ IsDirectory(path)
<1>1. Shaped(Draft(a)) /\ Shaped(Final(a)) /\ Shaped(Temporary(a))
  BY WorkspacePlaces, PicturePlaces
<1>2. ~IsDirectory(Draft(a)) /\ ~IsPicture(Draft(a))
  BY WorkspacePlaces DEF IsDirectory, IsPicture
<1>3. ~IsDirectory(Final(a)) /\ ~IsDirectory(Temporary(a))
  BY PicturePlaces DEF IsDirectory, IsPicture
<1>4. ~IsReferenced(Temporary(a)) /\ (IsReferenced(Final(a)) => a \in referenced)
  BY PicturePlaces DEF IsReferenced, Plain, Temp
<1>5. \A path : Shaped(path) /\ ~IsDirectory(path) => Below(path) = {}
  BY NothingBelowFile DEF Files
<1>6. Shaped(Output(a)) /\ Shaped(Workspace(a)) /\ Shaped(Private(a)) /\ Shaped(Public(a))
  BY WorkspacePlaces, PicturePlaces
<1>7. IsDirectory(Output(a)) /\ IsDirectory(Workspace(a)) /\ IsDirectory(Private(a)) /\ IsDirectory(Public(a))
  BY RootPlaces, WorkspacePlaces DEF IsDirectory
<1>8. Draft(a) \in Paths /\ Final(a) \in Paths /\ Temporary(a) \in Paths
  BY <1>1 DEF Shaped
<1> QED
  BY <1>1, <1>2, <1>3, <1>4, <1>5, <1>6, <1>7, <1>8

\* With adds or replaces one entry.
LEMMA WithIs ==
  ASSUME NEW path, NEW what, fs' = With(path, what)
  PROVE  /\ DOMAIN fs' = DOMAIN fs \cup {path}
         /\ fs'[path] = what
         /\ \A p \in DOMAIN fs : p # path => fs'[p] = fs[p]
BY DEF With

\* Without removes one entry.
LEMMA WithoutIs ==
  ASSUME NEW path, fs' = Without(path)
  PROVE  DOMAIN fs' = DOMAIN fs \ {path} /\ \A p \in DOMAIN fs' : fs'[p] = fs[p]
BY DEF Without

\* mkdir with exist_ok leaves everything else.
LEMMA Ensured ==
  ASSUME Files, NEW path, Shaped(path), Len(path) = 2, fs' = EnsureDir(path), referenced' = referenced
  PROVE  Files' /\ DOMAIN fs' = DOMAIN fs \cup {path} /\ \A p \in DOMAIN fs : fs'[p] = fs[p]
<1>1. CASE Exists(path)
  <2>1. fs' = fs
    BY <1>1 DEF EnsureDir
  <2> QED
    BY <1>1, <2>1 DEF Files, Tree, WholePictures, Pictured, Exists
<1>2. CASE ~Exists(path)
  <2>1. fs' = With(path, Dir)
    BY <1>2 DEF EnsureDir
  <2>2. IsDirectory(path) /\ ~IsPicture(path) /\ ~(Len(path) > 2)
    BY DEF IsDirectory, IsPicture
  <2>3. Files'
    BY <2>1, <2>2, FilesAdded
  <2>4. /\ DOMAIN fs' = DOMAIN fs \cup {path}
        /\ \A p \in DOMAIN fs : p # path => fs'[p] = fs[p]
    <3>1. ASSUME NEW what, fs' = With(path, what)
          PROVE  /\ DOMAIN fs' = DOMAIN fs \cup {path}
                 /\ \A p \in DOMAIN fs : p # path => fs'[p] = fs[p]
      BY <3>1 DEF With
    <3> QED
      BY <2>1, <3>1
  <2>5. \A p \in DOMAIN fs : p # path
    BY <1>2 DEF Exists
  <2> QED
    BY <2>3, <2>4, <2>5
<1> QED
  BY <1>1, <1>2

\* rmdir with its failure ignored.
LEMMA RemovedIfEmpty ==
  ASSUME Files, NEW path, Shaped(path), IsDirectory(path), fs' = RemoveIfEmpty(path),
         referenced' = referenced
  PROVE  Files' /\ DOMAIN fs \ {path} \subseteq DOMAIN fs' /\ DOMAIN fs' \subseteq DOMAIN fs
           /\ \A p \in DOMAIN fs' : fs'[p] = fs[p]
<1>1. CASE Exists(path) /\ Below(path) = {}
  <2>1. fs' = Without(path)
    BY <1>1 DEF RemoveIfEmpty
  <2>2. path \in Paths /\ ~IsReferenced(path)
    BY DEF Shaped, IsDirectory, IsPicture, IsReferenced
  <2>3. Files'
    BY <1>1, <2>1, <2>2, FilesRemoved
  <2> QED
    BY <2>1, <2>3, WithoutIs
<1>2. CASE ~(Exists(path) /\ Below(path) = {})
  <2>1. fs' = fs
    BY <1>2 DEF RemoveIfEmpty
  <2> QED
    BY <2>1 DEF Files, Tree, WholePictures, Pictured, Exists
<1> QED
  BY <1>1, <1>2

\* prepare makes directories, each in one that is there.
LEMMA PrepareKeeps ==
  ASSUME ArtifactInv, NEW a \in Attempts, Prepare(a)
  PROVE  ArtifactInv'
<1>0. server = "up" /\ UNCHANGED <<server, starts, referenced, sweep, late>>
  BY DEF Prepare, Enter, At
<1>1. Sweeping'
  BY <1>0, IdleSweep DEF ArtifactInv, Sweeping
<1>2. Kinds'
  BY <1>0 DEF ArtifactInv, Kinds, Prepare, Goto, Leave, Stage
<1>3. Files' /\ DOMAIN fs \subseteq DOMAIN fs'
  <2>1. ASSUME fs' = EnsureDir(Private(a)) PROVE Files' /\ DOMAIN fs \subseteq DOMAIN fs'
    BY <1>0, <2>1, Ensured, RootPlaces, WorkspacePlaces DEF ArtifactInv
  <2>2. ASSUME fs' = With(Workspace(a), Dir), At(a, "make workspace") PROVE Files' /\ DOMAIN fs \subseteq DOMAIN fs'
    <3>1. Exists(Private(a))
      BY <2>2, NobodyAssumption DEF ArtifactInv, Locked, At
    <3>2. Shaped(Workspace(a)) /\ Front(Workspace(a)) = Private(a)
            /\ IsDirectory(Workspace(a)) /\ ~IsPicture(Workspace(a))
      BY WorkspacePlaces DEF IsDirectory, IsPicture
    <3> QED
      BY <1>0, <2>2, <3>1, <3>2, FilesAdded, WithIs DEF ArtifactInv
  <2>3. ASSUME fs' = With(Output(a), Dir), At(a, "make output") PROVE Files' /\ DOMAIN fs \subseteq DOMAIN fs'
    <3>1. Exists(Workspace(a))
      BY <2>3, NobodyAssumption DEF ArtifactInv, Locked, At
    <3>2. Shaped(Output(a)) /\ Front(Output(a)) = Workspace(a)
            /\ IsDirectory(Output(a)) /\ ~IsPicture(Output(a))
      BY WorkspacePlaces DEF IsDirectory, IsPicture
    <3> QED
      BY <1>0, <2>3, <3>1, <3>2, FilesAdded, WithIs DEF ArtifactInv
  <2> QED
    BY <2>1, <2>2, <2>3 DEF Prepare
<1>4. Lives'
  BY <1>0, <1>3 DEF ArtifactInv, Lives, Kinds, Locked, Prepare, Enter, At, Stage, Exists
<1>5. Locked'
  <2>1. CASE Leave
    BY <2>1, NobodyAssumption DEF Leave, Locked
  <2>2. ASSUME Goto(a, "make workspace"), Stage(a, "preparing"), fs' = EnsureDir(Private(a)) PROVE Locked'
    <3>1. Exists(Private(a))' /\ life'[a] = "preparing"
      BY <1>0, <2>2, Ensured, RootPlaces, WorkspacePlaces DEF ArtifactInv, Kinds, Stage, Exists
    <3> QED
      BY <2>2, <3>1, NobodyAssumption DEF Locked, Goto
  <2>3. ASSUME At(a, "make workspace"), Goto(a, "make output"), UNCHANGED life, fs' = With(Workspace(a), Dir)
        PROVE  Locked'
    <3>1. Exists(Workspace(a))' /\ life'[a] = "preparing"
      BY <2>3, WithIs DEF ArtifactInv, Locked, At, Exists
    <3> QED
      BY <2>3, <3>1, NobodyAssumption DEF Locked, Goto
  <2> QED
    BY <2>1, <2>2, <2>3 DEF Prepare
<1> QED
  BY <1>1, <1>2, <1>3, <1>4, <1>5 DEF ArtifactInv

\* The agent writes a draft where none is.
LEMMA DrawKeeps ==
  ASSUME ArtifactInv, NEW a \in Attempts, Draw(a)
  PROVE  ArtifactInv'
<1>1. PICK file \in Drafts : fs' = With(Draft(a), file)
  BY DEF Draw
<1>2. UNCHANGED <<server, starts, life, agents, referenced, lock, pc, sweep>> /\ ~Exists(Draft(a)) /\ Exists(Output(a))
  BY DEF Draw
<1>3. Sweeping'
  <2>1. DOMAIN fs' = DOMAIN fs \cup {Draft(a)}
    BY <1>1, WithIs
  <2>2. \A p : Where(p)' = Where(p)
    BY <1>2 DEF Where
  <2> QED
    BY <1>2, <2>1, <2>2 DEF ArtifactInv, Sweeping, Unwanted, Exists
<1>4. Kinds'
  BY <1>2 DEF ArtifactInv, Kinds, Draw
<1>5. Files'
  <2>1. Shaped(Draft(a)) /\ ~IsDirectory(Draft(a)) /\ ~IsPicture(Draft(a)) /\ Front(Draft(a)) = Output(a)
    BY WorkspacePlaces DEF IsDirectory, IsPicture
  <2> QED
    BY <1>1, <1>2, <2>1, FilesAdded DEF ArtifactInv
<1>6. DOMAIN fs \subseteq DOMAIN fs' /\ \A p \in DOMAIN fs : fs'[p] = fs[p]
  BY <1>1, <1>2, WithIs DEF Exists
<1>7. Lives'
  BY <1>2, <1>6 DEF ArtifactInv, Lives, Exists
<1>8. Locked'
  BY <1>2, <1>6 DEF ArtifactInv, Locked, Exists
<1> QED
  BY <1>3, <1>4, <1>5, <1>7, <1>8 DEF ArtifactInv

\* Steps that leave the files and the reconciliation alone.
LEMMA FilesSame ==
  ASSUME Files, UNCHANGED <<fs, referenced>>
  PROVE  Files'
BY DEF Files, Tree, WholePictures, Pictured, Exists

\* The same for what the reconciliation knows.
LEMMA SweepingSame ==
  ASSUME Sweeping, UNCHANGED <<fs, referenced, server, starts, lock, sweep>>
  PROVE  Sweeping'
<1>1. \A p : /\ (Unwanted(p))' <=> Unwanted(p)
             /\ (Exists(Where(p)))' <=> Exists(Where(p))
  BY DEF Unwanted, Where, Exists
<1> QED
  BY <1>1 DEF Sweeping

\* The lock's methods do not end while an agent draws.
LEMMA AgentEndsKeeps ==
  ASSUME ArtifactInv, NEW a \in Attempts, AgentEnds(a)
  PROVE  ArtifactInv'
<1>1. UNCHANGED <<fs, server, starts, referenced, lock, pc, sweep>>
  BY DEF AgentEnds
<1>2. Files' /\ Sweeping'
  BY <1>1, FilesSame, SweepingSame DEF ArtifactInv
<1>3. Kinds'
  BY <1>1 DEF ArtifactInv, Kinds, AgentEnds, Stage
<1>4. \A b \in Attempts : life'[b] = IF b = a /\ life[a] = "drawing" THEN "drawn" ELSE life[b]
  BY DEF ArtifactInv, Kinds, AgentEnds, Stage
<1>5. Lives'
  BY <1>1, <1>4 DEF ArtifactInv, Lives, Exists
<1>6. Locked'
  <2>1. ASSUME NEW b \in Attempts, lock = b PROVE life'[b] = life[b]
    BY <1>4, <2>1 DEF ArtifactInv, Locked
  <2> QED
    BY <1>1, <2>1 DEF ArtifactInv, Locked, Exists
<1> QED
  BY <1>2, <1>3, <1>5, <1>6 DEF ArtifactInv

\* A draft that parses is a well-formed picture.
LEMMA DraftWhole ==
  ASSUME Files, NEW a \in Attempts, Exists(Draft(a)), Parses(fs[Draft(a)])
  PROVE  WellFormed(fs[Draft(a)]) /\ fs[Draft(a)] \in Drafts \cup {Part}
<1>1. ~IsDirectory(Draft(a))
  BY WorkspacePlaces DEF IsDirectory
<1>2. fs[Draft(a)] \in Drafts \cup {Part}
  BY <1>1 DEF Files, Tree, Exists
<1>3. fs[Draft(a)] \in Seq(Chunk)
  BY <1>2, DraftsAssumption, EmptySeq DEF Part
<1> QED
  BY <1>2, <1>3, ParserExact

\* publish renames a picture that parsed.
LEMMA PublishKeeps ==
  ASSUME ArtifactInv, NEW a \in Attempts, Publish(a)
  PROVE  ArtifactInv'
<1>0. server = "up" /\ UNCHANGED <<server, starts, agents, referenced, sweep, late>>
  BY DEF Publish, Enter, At
<1>1. Sweeping'
  BY <1>0, IdleSweep DEF ArtifactInv, Sweeping
<1>2. Kinds'
  BY <1>0 DEF ArtifactInv, Kinds, Publish, Goto, Leave, Stage
<1>t. /\ Shaped(Temporary(a)) /\ ~IsDirectory(Temporary(a)) /\ Temporary(a)[3][2] # Plain
      /\ Len(Temporary(a)) = 3 /\ Front(Temporary(a)) = Public(a)
      /\ IsPicture(Temporary(a)) /\ ~IsReferenced(Temporary(a))
  BY PicturePlaces DEF IsDirectory, IsPicture, IsReferenced, Plain, Temp
<1>l. ASSUME lock = a, pc \in {"create", "fill", "replace"}
      PROVE  /\ life[a] = "drawn" /\ Exists(Public(a)) /\ Exists(Draft(a)) /\ Parses(fs[Draft(a)])
             /\ pc # "create" => Exists(Temporary(a))
             /\ pc = "replace" => fs[Temporary(a)] = fs[Draft(a)]
  BY <1>l DEF ArtifactInv, Locked
<1>3. ASSUME Enter(a, {"drawn"}), Exists(Draft(a)), Parses(fs[Draft(a)]),
             fs' = EnsureDir(Public(a)), Goto(a, "create"), UNCHANGED life
      PROVE  Files' /\ Lives' /\ Locked'
  <2>1. Files' /\ DOMAIN fs' = DOMAIN fs \cup {Public(a)} /\ \A p \in DOMAIN fs : fs'[p] = fs[p]
    BY <1>0, <1>3, Ensured, RootPlaces, PicturePlaces DEF ArtifactInv
  <2>2. Lives'
    BY <1>0, <1>3, <2>1 DEF ArtifactInv, Lives, Exists
  <2>3. Locked'
    BY <1>3, <2>1, NobodyAssumption DEF Locked, Goto, Enter, Exists
  <2> QED
    BY <2>1, <2>2, <2>3
<1>4. ASSUME NEW what \in Drafts \cup {Part}, lock = a, pc \in {"create", "fill"},
             fs' = With(Temporary(a), what), UNCHANGED life,
             \/ Goto(a, "fill")
             \/ Goto(a, "replace") /\ what = fs[Draft(a)]
      PROVE  Files' /\ Lives' /\ Locked'
  <2>1. /\ DOMAIN fs' = DOMAIN fs \cup {Temporary(a)} /\ fs'[Temporary(a)] = what
        /\ \A p \in DOMAIN fs : p # Temporary(a) => fs'[p] = fs[p]
    BY <1>4, WithIs
  <2>2. Files'
    BY <1>0, <1>4, <1>t, <1>l, FilesAdded DEF ArtifactInv
  <2>3. Lives'
    BY <1>0, <1>4, <2>1 DEF ArtifactInv, Lives, Exists
  <2>4. fs'[Draft(a)] = fs[Draft(a)]
    BY <1>4, <1>l, <2>1, Apart DEF Exists
  <2>5. Locked'
    BY <1>4, <1>l, <2>1, <2>4, NobodyAssumption DEF Locked, Goto, Exists
  <2> QED
    BY <2>2, <2>3, <2>5
<1>5. ASSUME At(a, "replace"), ~Exists(Final(a)), fs' = Renamed(Temporary(a), Final(a)),
             Leave, Stage(a, "published")
      PROVE  Files' /\ Lives' /\ Locked'
  <2>1. Exists(Temporary(a)) /\ WellFormed(fs[Temporary(a)])
    BY <1>5, <1>l, DraftWhole DEF At, ArtifactInv
  <2>2. Remarks(Temporary(a), Final(a))
    <3>1. /\ Temporary(a)[1] = Final(a)[1] /\ Temporary(a)[2] = Final(a)[2]
          /\ Temporary(a)[3] = <<a, Temp>> /\ Final(a)[3] = <<a, Plain>>
          /\ Final(a) \in Paths /\ Len(Final(a)) = 3
      <4>1. /\ \A i \in 1..2 : Final(a)[i] = Public(a)[i] /\ Temporary(a)[i] = Public(a)[i]
        BY PicturePlaces, RootPlaces, FrontIs DEF Shaped, IsPicture
      <4>2. 1 \in 1..2 /\ 2 \in 1..2
        OBVIOUS
      <4> QED
        BY <4>1, <4>2, PicturePlaces DEF Shaped, IsPicture
    <3>2. \A i \in 1..3 : i # 3 => i = 1 \/ i = 2
      OBVIOUS
    <3> QED
      BY <1>t, <3>1, <3>2 DEF Remarks
  <2>3. Files'
    BY <1>0, <1>5, <1>t, <2>1, <2>2, FilesMoved DEF ArtifactInv
  <2>4. /\ DOMAIN fs \subseteq Paths /\ Temporary(a) \in Paths /\ Final(a) \in Paths
        /\ Len(Temporary(a)) = Len(Final(a))
    BY <2>2, TreePaths DEF Remarks, Shaped, ArtifactInv, Files
  <2>5. Arrives(Temporary(a), Final(a), fs') /\ Stays(Temporary(a), Final(a), fs')
    BY <1>5, <2>1, <2>4, RenamedIs
  <2>6. Final(a) \in DOMAIN fs'
    BY <2>1, <2>4, <2>5, DestSelf DEF Arrives, Exists
  <2>7. ASSUME NEW b \in Attempts, Exists(Final(b)) PROVE Final(b) \in DOMAIN fs'
    <3>1. Final(b) \in Paths /\ Len(Final(b)) = 3
      BY PicturePlaces DEF IsPicture, Shaped
    <3>2. ~Under(Temporary(a), Final(b))
      BY <1>t, <2>4, <3>1, UnderSame, Apart
    <3> QED
      BY <2>5, <2>7, <3>2 DEF Stays, Exists
  <2>8. \A b \in Attempts : life'[b] = IF b = a THEN "published" ELSE life[b]
    BY <1>5 DEF ArtifactInv, Kinds, Stage
  <2>9. life[a] = "drawn"
    BY <1>5, <1>l DEF At
  <2>10. Lives'
    BY <1>0, <2>6, <2>7, <2>8, <2>9 DEF ArtifactInv, Lives, Exists
  <2>11. Locked'
    BY <1>5, NobodyAssumption DEF Leave, Locked
  <2> QED
    BY <2>3, <2>10, <2>11
<1>6. Files' /\ Lives' /\ Locked'
  <2>1. CASE At(a, "fill") /\ fs' = With(Temporary(a), fs[Draft(a)]) /\ Goto(a, "replace") /\ UNCHANGED life
    <3>1. fs[Draft(a)] \in Drafts \cup {Part}
      BY <1>l, <2>1, DraftWhole DEF At, ArtifactInv
    <3> QED
      BY <1>4, <2>1, <3>1 DEF At
  <2>2. CASE At(a, "create") /\ fs' = With(Temporary(a), Part) /\ Goto(a, "fill") /\ UNCHANGED life
    BY <1>4, <2>2 DEF At
  <2> QED
    BY <1>3, <1>5, <2>1, <2>2 DEF Publish
<1> QED
  BY <1>1, <1>2, <1>6 DEF ArtifactInv

\* A method that fails takes at most its temporary file with it.
LEMMA RaiseKeeps ==
  ASSUME ArtifactInv, NEW a \in Attempts, Raise(a)
  PROVE  ArtifactInv'
<1>0. server = "up" /\ UNCHANGED <<server, starts, agents, referenced, sweep, late>>
  BY DEF Raise, Enter
<1>1. Sweeping'
  BY <1>0, IdleSweep DEF ArtifactInv, Sweeping
<1>2. Kinds'
  BY <1>0 DEF ArtifactInv, Kinds, Raise, Enter, Leave, Stage
<1>t. /\ Temporary(a) \in Paths /\ Below(Temporary(a)) = {} /\ ~IsReferenced(Temporary(a))
  BY PlaceKinds DEF ArtifactInv
<1>3. Files' /\ DOMAIN fs \ {Temporary(a)} \subseteq DOMAIN fs' /\ DOMAIN fs' \subseteq DOMAIN fs
  <2>1. CASE fs' = fs
    BY <1>0, <2>1, FilesSame DEF ArtifactInv
  <2>2. CASE fs' = Without(Temporary(a))
    BY <1>0, <1>t, <2>2, FilesRemoved, WithoutIs DEF ArtifactInv
  <2> QED
    BY <2>1, <2>2 DEF Raise
<1>4. lock' = Nobody /\ pc' = "none"
  BY DEF Raise, Enter, Leave, ArtifactInv, Locked
<1>5. Locked'
  BY <1>4, NobodyAssumption DEF Locked
<1>6. /\ life[a] # "committed" /\ life'[a] \in {"over", "failed"}
      /\ \A b \in Attempts : b # a => life'[b] = life[b]
  <2>1. life[a] # "committed"
    BY DEF Raise, Enter, ArtifactInv, Locked
  <2> QED
    BY <2>1 DEF Raise, Stage, ArtifactInv, Kinds
<1>7. Lives'
  <2>1. ASSUME NEW b \in Attempts, Exists(Final(b)) PROVE Final(b) \in DOMAIN fs'
    BY <1>3, <2>1, Apart DEF Exists
  <2> QED
    BY <1>0, <1>6, <2>1 DEF ArtifactInv, Lives, Exists
<1> QED
  BY <1>1, <1>2, <1>3, <1>5, <1>7 DEF ArtifactInv

RemovalCalls ==
  {"unlink draft", "rmdir output", "rmdir workspace", "rmdir private round", "unlink picture",
   "rmdir public round"}

\* The removal goes from call to call in the order of the code.
LEMMA Calls ==
  /\ Len(Removal) = 6
  /\ \A i \in 1..6 : i = 1 \/ i = 2 \/ i = 3 \/ i = 4 \/ i = 5 \/ i = 6
  /\ Removal[1] = "unlink draft" /\ Removal[2] = "rmdir output" /\ Removal[3] = "rmdir workspace"
  /\ Removal[4] = "rmdir private round" /\ Removal[5] = "unlink picture"
  /\ Removal[6] = "rmdir public round"
BY DEF Removal

\* One call of it.
LEMMA RemovalStep ==
  ASSUME ArtifactInv, NEW a \in Attempts, RemoveOwned(a)
  PROVE  /\ server = "up" /\ UNCHANGED <<server, starts, agents, referenced, sweep, late>>
         /\ \E call \in RemovalCalls :
              /\ fs' = Effect(a, call)
              /\ life[a] \in {"published", "failed"}
              /\ call \in {"unlink picture", "rmdir public round"} => life[a] = "failed"
              /\ \/ Leave /\ Stage(a, IF life[a] = "published" THEN "clean" ELSE "over")
                 \/ /\ UNCHANGED life /\ lock' = a
                    /\ \/ pc' \in {"rmdir output", "rmdir workspace", "rmdir private round"}
                       \/ pc' \in {"unlink picture", "rmdir public round"} /\ life[a] = "failed"
<1>1. PICK i \in 1..6 :
        /\ IF i = 1 THEN Enter(a, {"published", "failed"}) ELSE At(a, Removal[i])
        /\ fs' = Effect(a, Removal[i])
        /\ IF i = 6 \/ (i = 4 /\ life[a] = "published")
           THEN Leave /\ Stage(a, IF life[a] = "published" THEN "clean" ELSE "over")
           ELSE Goto(a, Removal[i + 1]) /\ UNCHANGED life
  BY Calls DEF RemoveOwned
<1>2. server = "up" /\ UNCHANGED <<server, starts, agents, referenced, sweep, late>>
  BY <1>1 DEF RemoveOwned, Enter, At
<1>3. /\ Removal[i] \in RemovalCalls
      /\ Removal[i] \in {"unlink picture", "rmdir public round"} <=> i = 5 \/ i = 6
  BY Calls DEF RemovalCalls
<1>4. ASSUME i # 6
      PROVE  /\ Removal[i + 1] \in RemovalCalls \ {"unlink draft"}
             /\ Removal[i + 1] \in {"unlink picture", "rmdir public round"} => i \in {4, 5}
  <2>1. ASSUME NEW j \in 1..6, j # 1
        PROVE  /\ Removal[j] \in RemovalCalls \ {"unlink draft"}
               /\ Removal[j] \in {"unlink picture", "rmdir public round"} => j \in {5, 6}
    BY <2>1, Calls DEF RemovalCalls
  <2>2. i + 1 \in 1..6 /\ i + 1 # 1 /\ (i + 1 \in {5, 6} => i \in {4, 5})
    BY <1>4
  <2> QED
    BY <2>1, <2>2
<1>5. life[a] \in {"published", "failed"} /\ (i \in {5, 6} => life[a] = "failed")
  <2>1. CASE i = 1
    BY <1>1, <2>1 DEF Enter
  <2>2. CASE i # 1
    <3>1. lock = a /\ pc = Removal[i] /\ pc # "unlink draft"
      <4>1. i = 2 \/ i = 3 \/ i = 4 \/ i = 5 \/ i = 6
        BY <2>2
      <4> QED
        BY <1>1, <2>2, <4>1, Calls DEF At
    <3> QED
      BY <1>3, <3>1 DEF RemovalCalls, ArtifactInv, Locked
  <2> QED
    BY <2>1, <2>2
<1>6. \/ Leave /\ Stage(a, IF life[a] = "published" THEN "clean" ELSE "over")
      \/ /\ UNCHANGED life /\ lock' = a
         /\ \/ pc' \in {"rmdir output", "rmdir workspace", "rmdir private round"}
            \/ pc' \in {"unlink picture", "rmdir public round"} /\ life[a] = "failed"
  <2>1. ASSUME ~(i = 6 \/ (i = 4 /\ life[a] = "published"))
        PROVE  UNCHANGED life /\ lock' = a /\ pc' = Removal[i + 1] /\ (i \in {4, 5} => life[a] = "failed")
    BY <1>1, <1>5, <2>1 DEF Goto
  <2> QED
    BY <1>1, <1>4, <2>1 DEF RemovalCalls
<1> QED
  BY <1>1, <1>2, <1>3, <1>5, <1>6

\* A call removes at most one entry, which the attempt owns or shares, and of
\* what it shares only what is empty.
LEMMA EffectIs ==
  ASSUME Files, NEW a \in Attempts, a \notin referenced, referenced' = referenced,
         NEW call \in RemovalCalls,
         fs' = Effect(a, call)
  PROVE  /\ Files'
         /\ DOMAIN fs' \subseteq DOMAIN fs /\ \A p \in DOMAIN fs' : fs'[p] = fs[p]
         /\ \E path \in {Draft(a), Output(a), Workspace(a), Private(a), Final(a), Public(a)} :
              /\ DOMAIN fs \ {path} \subseteq DOMAIN fs'
              /\ path = Final(a) => call = "unlink picture"
<1>1. CASE call = "unlink draft"
  <2>1. fs' = IF Exists(Draft(a)) THEN Without(Draft(a)) ELSE fs
    BY <1>1 DEF Effect
  <2>2. Draft(a) \in Paths /\ Below(Draft(a)) = {} /\ ~IsReferenced(Draft(a))
    BY PlaceKinds DEF IsReferenced
  <2>3. Files' /\ DOMAIN fs' \subseteq DOMAIN fs /\ (\A p \in DOMAIN fs' : fs'[p] = fs[p])
          /\ DOMAIN fs \ {Draft(a)} \subseteq DOMAIN fs'
    BY <2>1, <2>2, FilesRemoved, FilesSame, WithoutIs
  <2> QED
    BY <2>3, Apart
<1>2. CASE call = "unlink picture"
  <2>1. fs' = IF Exists(Final(a)) THEN Without(Final(a)) ELSE fs
    BY <1>2 DEF Effect
  <2>2. Final(a) \in Paths /\ Below(Final(a)) = {} /\ ~IsReferenced(Final(a))
    BY PlaceKinds
  <2>3. Files' /\ DOMAIN fs' \subseteq DOMAIN fs /\ (\A p \in DOMAIN fs' : fs'[p] = fs[p])
          /\ DOMAIN fs \ {Final(a)} \subseteq DOMAIN fs'
    BY <2>1, <2>2, FilesRemoved, FilesSame, WithoutIs
  <2> QED
    BY <1>2, <2>3
<1>3. CASE call \in {"rmdir output", "rmdir workspace", "rmdir private round", "rmdir public round"}
  <2>1. PICK path \in {Output(a), Workspace(a), Private(a), Public(a)} : fs' = RemoveIfEmpty(path)
    BY <1>3 DEF Effect
  <2>2. Shaped(path) /\ IsDirectory(path)
    BY PlaceKinds
  <2>3. Files' /\ DOMAIN fs' \subseteq DOMAIN fs /\ (\A p \in DOMAIN fs' : fs'[p] = fs[p])
          /\ DOMAIN fs \ {path} \subseteq DOMAIN fs'
    BY <2>1, <2>2, RemovedIfEmpty
  <2> QED
    BY <2>3, Apart
<1> QED
  BY <1>1, <1>2, <1>3 DEF RemovalCalls

\* cleanup_workspace and discard, call by call.
LEMMA RemoveOwnedKeeps ==
  ASSUME ArtifactInv, NEW a \in Attempts, RemoveOwned(a)
  PROVE  ArtifactInv'
<1>0. server = "up" /\ UNCHANGED <<server, starts, agents, referenced, sweep, late>>
  BY RemovalStep
<1>1. PICK call \in RemovalCalls :
        /\ fs' = Effect(a, call)
        /\ life[a] \in {"published", "failed"}
        /\ call \in {"unlink picture", "rmdir public round"} => life[a] = "failed"
        /\ \/ Leave /\ Stage(a, IF life[a] = "published" THEN "clean" ELSE "over")
           \/ /\ UNCHANGED life /\ lock' = a
              /\ \/ pc' \in {"rmdir output", "rmdir workspace", "rmdir private round"}
                 \/ pc' \in {"unlink picture", "rmdir public round"} /\ life[a] = "failed"
  BY RemovalStep
<1>2. Sweeping'
  BY <1>0, IdleSweep DEF ArtifactInv, Sweeping
<1>3. Kinds'
  BY <1>0, <1>1 DEF ArtifactInv, Kinds, Leave, Stage
<1>4. a \notin referenced
  BY <1>1 DEF ArtifactInv, Lives
<1>5. Files'
  BY <1>0, <1>1, <1>4, EffectIs DEF ArtifactInv
<1>6. PICK path \in {Draft(a), Output(a), Workspace(a), Private(a), Final(a), Public(a)} :
        /\ DOMAIN fs \ {path} \subseteq DOMAIN fs'
        /\ path = Final(a) => call = "unlink picture"
  BY <1>0, <1>1, <1>4, EffectIs DEF ArtifactInv
<1>7. ASSUME NEW b \in Attempts, Exists(Final(b)), b = a => life[a] = "published"
      PROVE  Final(b) \in DOMAIN fs'
  BY <1>1, <1>6, <1>7, Apart DEF Exists
<1>8. /\ \A b \in Attempts : b # a => life'[b] = life[b]
      /\ life'[a] = life[a] \/ life'[a] = IF life[a] = "published" THEN "clean" ELSE "over"
  BY <1>1 DEF ArtifactInv, Kinds, Stage
<1>9. Lives'
  BY <1>0, <1>1, <1>4, <1>7, <1>8 DEF ArtifactInv, Lives, Exists
<1>10. Locked'
  BY <1>1, NobodyAssumption DEF Locked, Leave
<1> QED
  BY <1>2, <1>3, <1>5, <1>9, <1>10 DEF ArtifactInv

\* A commit finds the picture where publish left it.
LEMMA CommitKeeps ==
  ASSUME ArtifactInv, NEW a \in Attempts, Commit(a)
  PROVE  ArtifactInv'
<1>1. /\ server = "up" /\ life[a] = "clean" /\ referenced' = referenced \cup {a}
      /\ UNCHANGED <<fs, server, starts, agents, lock, pc, sweep, late>>
  BY DEF Commit
<1>2. \A b \in Attempts : life'[b] = IF b = a THEN "committed" ELSE life[b]
  BY DEF ArtifactInv, Kinds, Commit, Stage
<1>3. Sweeping'
  BY <1>1, IdleSweep DEF ArtifactInv, Sweeping
<1>4. Kinds'
  BY <1>1 DEF ArtifactInv, Kinds, Commit, Stage
<1>5. Files'
  <2>1. Final(a) \in DOMAIN fs /\ IsPicture(Final(a)) /\ Final(a)[3] = <<a, Plain>>
    BY <1>1, PicturePlaces DEF ArtifactInv, Lives, Exists
  <2>2. Pictured'
    BY <1>1, <2>1 DEF ArtifactInv, Files, Pictured
  <2> QED
    BY <1>1, <2>2 DEF ArtifactInv, Files, Tree, WholePictures, Exists
<1>6. Lives'
  BY <1>1, <1>2 DEF ArtifactInv, Lives, Exists
<1>7. Locked'
  BY <1>1, <1>2 DEF ArtifactInv, Locked, Exists
<1> QED
  BY <1>3, <1>4, <1>5, <1>6, <1>7 DEF ArtifactInv

\* A failure outside the store's methods.
LEMMA AbortKeeps ==
  ASSUME ArtifactInv, NEW a \in Attempts, Abort(a)
  PROVE  ArtifactInv'
<1>1. /\ server = "up" /\ lock # a /\ life[a] # "committed"
      /\ UNCHANGED <<fs, server, starts, agents, referenced, lock, pc, sweep, late>>
  BY DEF Abort
<1>2. life'[a] \in {"failed", "over"} /\ \A b \in Attempts : b # a => life'[b] = life[b]
  BY DEF ArtifactInv, Kinds, Abort, Stage
<1>3. Sweeping' /\ Files'
  BY <1>1, FilesSame, SweepingSame DEF ArtifactInv
<1>4. Kinds'
  BY <1>1 DEF ArtifactInv, Kinds, Abort, Stage
<1>5. Lives'
  BY <1>1, <1>2 DEF ArtifactInv, Lives, Exists
<1>6. Locked'
  BY <1>1, <1>2 DEF ArtifactInv, Locked, Exists
<1> QED
  BY <1>3, <1>4, <1>5, <1>6 DEF ArtifactInv

\* The files survive the process.
LEMMA CrashKeeps ==
  ASSUME ArtifactInv, Crash
  PROVE  ArtifactInv'
<1>1. /\ server' = "down" /\ lock' = Nobody /\ pc' = "none" /\ sweep' = NoSweep
      /\ UNCHANGED <<fs, starts, agents, referenced, late>>
      /\ \A a \in Attempts : life'[a] = IF life[a] \in {"new", "committed"} THEN life[a] ELSE "over"
  BY DEF Crash, Leave
<1>2. Sweeping' /\ Files'
  BY <1>1, FilesSame, IdleSweep DEF ArtifactInv
<1>3. Kinds'
  BY <1>1 DEF ArtifactInv, Kinds, Crash
<1>4. Lives'
  BY <1>1 DEF ArtifactInv, Lives
<1>5. Locked'
  BY <1>1, NobodyAssumption DEF Locked
<1> QED
  BY <1>2, <1>3, <1>4, <1>5 DEF ArtifactInv

\* What is planned is unwanted.
LEMMA StartKeeps ==
  ASSUME ArtifactInv, Start
  PROVE  ArtifactInv'
<1>1. /\ server = "down" /\ lock = Nobody /\ server' \in {"down", "starting"}
      /\ UNCHANGED <<fs, life, agents, referenced, lock, pc>>
      /\ sweep = NoSweep /\ sweep' \in {NoSweep, [NoSweep EXCEPT !.todo = Planned]}
      /\ sweep' # NoSweep => server' = "starting"
  BY DEF Start, ArtifactInv, Sweeping
<1>2. Files'
  BY <1>1, FilesSame DEF ArtifactInv
<1>3. Kinds'
  BY <1>1, StartsAssumption DEF ArtifactInv, Kinds, Start
<1>4. Lives'
  BY <1>1 DEF ArtifactInv, Lives, Exists
<1>5. Locked'
  BY <1>1, NobodyAssumption DEF Locked, ArtifactInv
<1>6. Sweeping'
  <2>1. sweep'.held = <<>> /\ sweep'.tidy = <<>> /\ sweep'.todo \subseteq Planned
    BY <1>1 DEF NoSweep
  <2>2. \A p \in Planned : Unwanted(p)' /\ Len(p) >= 3
    BY <1>1 DEF Planned, Unwanted, ArtifactInv, Files, Tree, IsPicture
  <2> QED
    BY <1>1, <2>1, <2>2, EmptySeq DEF Sweeping
<1> QED
  BY <1>2, <1>3, <1>4, <1>5, <1>6 DEF ArtifactInv

-----------------------------------------------------------------------------
(* The steps of the reconciliation *)

\* Where, for any captured paths and any start.
WhereIn(held, n, path) ==
  [i \in 1..Len(path) |->
     IF \E j \in 1..Len(held) : held[j] = SubSeq(path, 1, i) THEN <<path[i][1], n>> ELSE path[i]]

\* The components that are captured carry the mark of the start.
LEMMA WhereIs ==
  ASSUME NEW held \in Seq(Paths), NEW n \in Int, NEW path \in Paths
  PROVE  /\ WhereIn(held, n, path) \in Paths /\ Len(WhereIn(held, n, path)) = Len(path)
         /\ \A i \in 1..Len(path) :
              WhereIn(held, n, path)[i] =
                IF \E j \in 1..Len(held) : Len(held[j]) = i /\ Under(held[j], path)
                THEN <<path[i][1], n>> ELSE path[i]
<1> DEFINE k == Len(path)
           w == WhereIn(held, n, path)
<1>1. k \in Nat /\ \A i \in 1..k : path[i] \in Names \X Int
  BY PathIs
<1>2. \A j \in 1..Len(held) : held[j] \in Paths /\ Len(held[j]) \in Nat
  BY ElementOfSeq, PathIs
<1>3. ASSUME NEW i \in 1..k
      PROVE  /\ SubSeq(path, 1, i) \in Paths /\ Len(SubSeq(path, 1, i)) = i
             /\ \A m \in 1..i : SubSeq(path, 1, i)[m] = path[m]
  <2> DEFINE t == SubSeq(path, 1, i)
  <2>1. 1 \in Int /\ i \in Int /\ \A m \in 1..i : path[m] \in Names \X Int
    BY <1>1
  <2>2. /\ t \in Paths /\ Len(t) = IF 1 <= i THEN i - 1 + 1 ELSE 0
        /\ \A m \in 1..(i - 1 + 1) : t[m] = path[1 + m - 1]
    BY <2>1, SubSeqProperties DEF Paths
  <2> HIDE DEF t
  <2>3. i - 1 + 1 = i /\ 1 <= i /\ \A m \in 1..i : 1 + m - 1 = m
    BY <1>1
  <2>4. t \in Paths /\ Len(t) = i /\ \A m \in 1..i : t[m] = path[m]
    BY <2>2, <2>3
  <2> QED
    BY <2>4 DEF t
<1>4. ASSUME NEW i \in 1..k, NEW j \in 1..Len(held)
      PROVE  held[j] = SubSeq(path, 1, i) <=> Len(held[j]) = i /\ Under(held[j], path)
  <2> DEFINE t == SubSeq(path, 1, i)
             h == held[j]
  <2>1. t \in Paths /\ Len(t) = i /\ (\A m \in 1..i : t[m] = path[m]) /\ h \in Paths
    BY <1>2, <1>3
  <2> HIDE DEF t, h
  <2>2. h = t => Len(h) = i /\ Under(h, path)
    BY <1>1, <2>1 DEF Under
  <2>3. Len(h) = i /\ Under(h, path) => h = t
    BY <1>1, <2>1, SamePath DEF Under
  <2> QED
    BY <2>2, <2>3 DEF t, h
<1>5. w = [i \in 1..k |-> IF \E j \in 1..Len(held) : held[j] = SubSeq(path, 1, i)
                          THEN <<path[i][1], n>> ELSE path[i]]
  BY DEF WhereIn
<1>6. \A i \in 1..k : w[i] = IF \E j \in 1..Len(held) : held[j] = SubSeq(path, 1, i)
                             THEN <<path[i][1], n>> ELSE path[i]
  BY <1>5
<1>7. \A i \in 1..k : w[i] = IF \E j \in 1..Len(held) : Len(held[j]) = i /\ Under(held[j], path)
                             THEN <<path[i][1], n>> ELSE path[i]
  BY <1>4, <1>6
<1>8. DOMAIN w = 1..k
  BY <1>5
<1> HIDE DEF w, k
<1>9. \A i \in 1..k : w[i] \in Names \X Int
  <2> SUFFICES ASSUME NEW i \in 1..k PROVE w[i] \in Names \X Int
    OBVIOUS
  <2>1. path[i] \in Names \X Int /\ <<path[i][1], n>> \in Names \X Int
    BY <1>1
  <2>2. w[i] = <<path[i][1], n>> \/ w[i] = path[i]
    BY <1>7
  <2> QED
    BY <2>1, <2>2
<1>10. w \in [1..k -> Names \X Int]
  <2>1. w = [i \in 1..k |-> w[i]]
    BY <1>5, <1>8
  <2> QED
    BY <1>9, <2>1
<1>11. w \in Paths /\ Len(w) = k
  BY <1>1, <1>8, <1>10, IsASeq, LenProperties DEF Paths
<1> QED
  BY <1>7, <1>11 DEF w, k

\* One more captured path marks its own place, and everything below it.
LEMMA WhereMore ==
  ASSUME NEW held \in Seq(Paths), NEW n \in Int, NEW p \in Paths, NEW q \in Paths
  PROVE  \A i \in 1..Len(q) :
           WhereIn(Append(held, p), n, q)[i] =
             IF i = Len(p) /\ Under(p, q) THEN <<q[i][1], n>> ELSE WhereIn(held, n, q)[i]
<1> DEFINE more == Append(held, p)
<1>1. /\ more \in Seq(Paths) /\ Len(more) = Len(held) + 1 /\ Len(held) \in Nat
      /\ \A j \in 1..Len(held) : more[j] = held[j]
      /\ more[Len(held) + 1] = p
  BY AppendProperties, LenProperties
<1> HIDE DEF more
<1>2. ASSUME NEW i \in 1..Len(q)
      PROVE  (\E j \in 1..Len(more) : Len(more[j]) = i /\ Under(more[j], q))
               <=> \/ i = Len(p) /\ Under(p, q)
                   \/ \E j \in 1..Len(held) : Len(held[j]) = i /\ Under(held[j], q)
  <2>1. \A j \in 1..Len(more) : j = Len(held) + 1 \/ j \in 1..Len(held)
    BY <1>1
  <2>2. 1..Len(held) \subseteq 1..Len(more) /\ Len(held) + 1 \in 1..Len(more)
    BY <1>1
  <2> QED
    BY <1>1, <2>1, <2>2
<1>3. \A i \in 1..Len(q) : WhereIn(more, n, q)[i] =
           IF \E j \in 1..Len(more) : Len(more[j]) = i /\ Under(more[j], q) THEN <<q[i][1], n>> ELSE q[i]
  BY <1>1, WhereIs
<1>4. \A i \in 1..Len(q) : WhereIn(held, n, q)[i] =
           IF \E j \in 1..Len(held) : Len(held[j]) = i /\ Under(held[j], q) THEN <<q[i][1], n>> ELSE q[i]
  BY WhereIs
<1> QED
  BY <1>2, <1>3, <1>4 DEF more

\* A longer captured path does not count for where a shorter path is.
LEMMA WhereShorter ==
  ASSUME NEW held \in Seq(Paths), NEW n \in Int, NEW p \in Paths, NEW q \in Paths, Len(q) < Len(p)
  PROVE  WhereIn(Append(held, p), n, q) = WhereIn(held, n, q)
<1>1. Len(q) \in Nat /\ Len(p) \in Nat /\ Append(held, p) \in Seq(Paths)
  BY PathIs, AppendProperties
<1>2. ~Under(p, q)
  BY <1>1 DEF Under
<1>3. \A i \in 1..Len(q) : WhereIn(Append(held, p), n, q)[i] = WhereIn(held, n, q)[i]
  BY <1>2, WhereMore
<1>4. /\ WhereIn(Append(held, p), n, q) \in Paths /\ Len(WhereIn(Append(held, p), n, q)) = Len(q)
      /\ WhereIn(held, n, q) \in Paths /\ Len(WhereIn(held, n, q)) = Len(q)
  BY <1>1, WhereIs
<1> QED
  BY <1>3, <1>4, SamePath

\* A captured path has the mark of the start at its end, and is else where it was.
LEMMA WhereCaptured ==
  ASSUME NEW held \in Seq(Paths), NEW n \in Int, NEW p \in Paths, Len(p) > 0
  PROVE  LET w == WhereIn(Append(held, p), n, p)
             u == WhereIn(held, n, p)
         IN  /\ w[Len(p)] = <<p[Len(p)][1], n>>
             /\ \A i \in 1..Len(p) : i # Len(p) => w[i] = u[i]
<1>1. Len(p) \in 1..Len(p) /\ Under(p, p)
  BY PathIs DEF Under
<1> QED
  BY <1>1, WhereMore

\* The last captured path, and those before it.
LEMMA FrontLast ==
  ASSUME NEW s \in Seq(Paths), s # <<>>
  PROVE  /\ Len(s) \in Nat \ {0} /\ Last(s) = s[Len(s)] /\ Last(s) \in Paths
         /\ Front(s) \in Seq(Paths) /\ Len(Front(s)) = Len(s) - 1
         /\ \A i \in 1..(Len(s) - 1) : Front(s)[i] = s[i]
         /\ s = Append(Front(s), Last(s))
<1>1. Len(s) \in Nat \ {0}
  BY LenProperties, EmptySeq
<1> DEFINE n == Len(s) - 1
<1>2. /\ Front(s) \in Seq(Paths) /\ Len(Front(s)) = IF 1 <= n THEN n - 1 + 1 ELSE 0
      /\ \A i \in 1..(n - 1 + 1) : Front(s)[i] = s[1 + i - 1]
  <2>1. 1 \in Int /\ n \in Int /\ \A i \in 1..n : s[i] \in Paths
    BY <1>1, ElementOfSeq
  <2> QED
    BY <2>1, SubSeqProperties DEF Front
<1>3. n \in Int /\ n >= 0
  BY <1>1
<1> HIDE DEF n
<1>4. n - 1 + 1 = n /\ \A i \in 1..n : 1 + i - 1 = i
  BY <1>3
<1>5. /\ Front(s) \in Seq(Paths) /\ Len(Front(s)) = n /\ \A i \in 1..n : Front(s)[i] = s[i]
  BY <1>2, <1>3, <1>4
<1>6. Last(s) = s[Len(s)] /\ Last(s) \in Paths
  BY <1>1, ElementOfSeq DEF Last
<1>7. s = Append(Front(s), Last(s))
  <2> DEFINE t == Append(Front(s), Last(s))
  <2>1. t \in Seq(Paths) /\ Len(t) = n + 1 /\ (\A i \in 1..n : t[i] = Front(s)[i]) /\ t[n + 1] = Last(s)
    BY <1>5, <1>6, AppendProperties
  <2> HIDE DEF t
  <2>2. Len(s) = n + 1
    BY <1>1 DEF n
  <2>3. \A i \in 1..Len(s) : s[i] = t[i]
    BY <1>3, <1>5, <1>6, <2>1, <2>2
  <2>4. s = t
    BY <2>1, <2>2, <2>3, SeqEqual
  <2> QED
    BY <2>4 DEF t
<1> QED
  BY <1>1, <1>5, <1>6, <1>7 DEF n

\* The last component of an entry gets another mark.
LEMMA Remarked ==
  ASSUME NEW at, Shaped(at), NEW n \in Int
  PROVE  LET to == Append(Front(at), <<at[Len(at)][1], n>>)
         IN  /\ Remarks(at, to) /\ to[Len(at)] = <<at[Len(at)][1], n>>
             /\ IsPicture(at) => to[3][2] = n
<1> DEFINE c == <<at[Len(at)][1], n>>
           to == Append(Front(at), c)
<1>1. at \in Paths /\ Len(at) \in 2..5
  BY DEF Shaped
<1>2. Len(at) > 0 /\ Len(at) \in 1..Len(at) /\ Len(at) \in Nat
  BY <1>1
<1>3. /\ Front(at) \in Paths /\ Len(Front(at)) = Len(at) - 1
      /\ \A i \in 1..(Len(at) - 1) : Front(at)[i] = at[i]
  BY <1>1, <1>2, FrontIs
<1>4. c \in Names \X Int
  <2>1. at[Len(at)] \in Names \X Int
    BY <1>1, <1>2, PathIs
  <2> QED
    BY <2>1
<1> HIDE DEF c
<1>5. /\ to \in Paths /\ Len(to) = Len(at)
      /\ \A i \in 1..(Len(at) - 1) : to[i] = at[i]
      /\ to[Len(at)] = c
  <2>1. /\ to \in Paths /\ Len(to) = Len(Front(at)) + 1 /\ to[Len(Front(at)) + 1] = c
        /\ \A i \in 1..Len(Front(at)) : to[i] = Front(at)[i]
    BY <1>3, <1>4, AppendIs
  <2>2. Len(Front(at)) + 1 = Len(at)
    BY <1>2, <1>3
  <2> QED
    BY <1>3, <2>1, <2>2
<1> HIDE DEF to
<1>6. \A i \in 1..Len(at) : i # Len(at) => i \in 1..(Len(at) - 1)
  BY <1>2
<1>7. Remarks(at, to)
  BY <1>5, <1>6 DEF Remarks, c
<1>8. IsPicture(at) => to[3][2] = n
  BY <1>5 DEF IsPicture, c
<1> QED
  BY <1>5, <1>7, <1>8 DEF to, c

\* An unwanted path is still of its kind where it is now.
LEMMA CapturedPlace ==
  ASSUME Kinds, Files, sweep.held \in Seq(Paths), NEW p, Unwanted(p)
  PROVE  /\ p \in Paths /\ Where(p) \in Paths /\ Len(Where(p)) = Len(p) /\ Len(p) \in 2..5
         /\ Where(p) = WhereIn(sweep.held, starts, p) /\ starts \in Nat \ {0}
         /\ \A i \in 1..Len(p) : Where(p)[i][1] = p[i][1]
         /\ IsPicture(Where(p)) <=> IsPicture(p)
         /\ ~IsReferenced(Where(p))
         /\ Exists(Where(p)) => Shaped(Where(p))
<1>1. p \in Paths /\ Len(p) \in 2..5 /\ (IsPicture(p) => p[3][1] \notin referenced)
  BY DEF Unwanted, Shaped
<1>2. starts \in Nat \ {0} /\ starts \in Int
  BY StartsAssumption DEF Kinds
<1>3. Where(p) = WhereIn(sweep.held, starts, p)
  BY DEF Where, WhereIn
<1> DEFINE at == Where(p)
<1>4. at \in Paths /\ Len(at) = Len(p) /\ \A i \in 1..Len(p) : at[i][1] = p[i][1]
  <2> DEFINE w == WhereIn(sweep.held, starts, p)
  <2>0. /\ w \in Paths /\ Len(w) = Len(p)
        /\ \A i \in 1..Len(p) : w[i] =
             IF \E j \in 1..Len(sweep.held) : Len(sweep.held[j]) = i /\ Under(sweep.held[j], p)
             THEN <<p[i][1], starts>> ELSE p[i]
    BY <1>1, <1>2, WhereIs
  <2> HIDE DEF w
  <2>1. w \in Paths /\ Len(w) = Len(p) /\ \A i \in 1..Len(p) : w[i] \in {<<p[i][1], starts>>, p[i]}
    BY <2>0
  <2>2. \A i \in 1..Len(p) : w[i][1] = p[i][1]
    BY <2>1
  <2> QED
    BY <1>3, <2>1, <2>2 DEF w
<1> HIDE DEF at
<1>5. IsPicture(at) <=> IsPicture(p)
  <2>1. 1 \in 1..Len(p)
    BY <1>1
  <2> QED
    BY <1>4, <2>1 DEF IsPicture
<1>6. ~IsReferenced(at)
  <2>1. IsPicture(p) => 3 \in 1..Len(p)
    BY DEF IsPicture
  <2> QED
    BY <1>1, <1>4, <1>5, <2>1 DEF IsReferenced
<1>7. Exists(at) => Shaped(at)
  BY DEF at, Files, Tree, Exists
<1> QED
  BY <1>1, <1>2, <1>3, <1>4, <1>5, <1>6, <1>7 DEF at

\* What the steps of the reconciliation leave to be shown: the files, and where
\* they are.
LEMMA StartingKeeps ==
  ASSUME ArtifactInv, server = "starting", UNCHANGED <<starts, life, agents, referenced, lock, pc, late>>,
         server' \in {"starting", "up"}, Files', Sweeping'
  PROVE  ArtifactInv'
<1>1. lock = Nobody
  BY DEF ArtifactInv, Sweeping
<1>2. Kinds'
  BY DEF ArtifactInv, Kinds
<1>3. Lives'
  BY DEF ArtifactInv, Lives
<1>4. Locked'
  BY <1>1, NobodyAssumption DEF ArtifactInv, Locked
<1> QED
  BY <1>2, <1>3, <1>4 DEF ArtifactInv

\* A capture renames an entry into its quarantine name and remembers it.
LEMMA CaptureKeeps ==
  ASSUME ArtifactInv, server = "starting", UNCHANGED <<server, starts, life, agents, referenced, lock, pc, late>>,
         NEW p, Unwanted(p), Capture(p),
         \/ sweep.held = <<>> /\ Len(p) \in {2, 3}
         \/ sweep.held # <<>> /\ Front(p) = Last(sweep.held) /\ Len(p) > 3
  PROVE  ArtifactInv'
<1> PICK held : held = sweep.held
  OBVIOUS
<1> PICK at : at = Where(p)
  OBVIOUS
<1> PICK to : to = Append(Front(at), <<at[Len(at)][1], starts>>)
  OBVIOUS
<1>1. /\ p \in Paths /\ at \in Paths /\ Len(at) = Len(p) /\ Len(p) \in 2..5
      /\ at = WhereIn(held, starts, p) /\ starts \in Nat \ {0}
      /\ \A i \in 1..Len(p) : at[i][1] = p[i][1]
      /\ ~IsReferenced(at)
      /\ Exists(at) => Shaped(at)
  BY CapturedPlace DEF ArtifactInv, Sweeping
<1>2. held \in Seq(Paths) /\ \A j \in 1..Len(held) : held[j] \in Paths
  BY ElementOfSeq DEF ArtifactInv, Sweeping
<1>3. /\ \A j \in 1..Len(held) : Len(held[j]) < Len(p)
      /\ held # <<>> => /\ held[Len(held)] = Front(p) /\ Len(p) = Len(held) + 3
                        /\ \A j \in 1..Len(held) : Len(held[j]) = j + 2
  <2>1. CASE held = <<>>
    BY <2>1, EmptySeq
  <2>2. CASE held # <<>>
    <3>1. Front(p) = held[Len(held)] /\ Len(p) > 3 /\ Len(held) \in Nat \ {0}
      BY <1>2, <2>2, FrontLast
    <3>2. Len(held[Len(held)]) = Len(p) - 1
      <4>1. Len(p) > 0
        BY <1>1, <3>1
      <4> QED
        BY <1>1, <3>1, <4>1, FrontIs
    <3>3. ~(Len(held) = 1 /\ Len(held[1]) = 2)
      <4> SUFFICES ASSUME Len(held) = 1, Len(held[1]) = 2 PROVE FALSE
        OBVIOUS
      <4>1. Len(p) - 1 = 2
        BY <3>2
      <4>2. Len(p) \in Nat
        BY <1>1, PathIs
      <4>3. \A n \in Nat : n > 3 => n - 1 # 2
        OBVIOUS
      <4> QED
        BY <3>1, <4>1, <4>2, <4>3
    <3>4. \A j \in 1..Len(held) : Len(held[j]) = j + 2
      BY <3>3 DEF ArtifactInv, Sweeping
    <3>5. Len(p) = Len(held) + 3
      <4>1. Len(held) \in 1..Len(held)
        BY <3>1
      <4>2. Len(held[Len(held)]) = Len(held) + 2
        BY <3>4, <4>1
      <4> QED
        BY <1>1, <3>1, <3>2, <4>2
    <3>6. \A j \in 1..Len(held) : Len(held[j]) < Len(p)
      BY <3>1, <3>4, <3>5
    <3> QED
      BY <3>1, <3>4, <3>5, <3>6
  <2> QED
    BY <2>1, <2>2
<1>4. /\ fs' = IF Exists(at) THEN Renamed(at, to) ELSE fs
      /\ sweep'.todo = sweep.todo \ {p} /\ sweep'.tidy = <<>>
      /\ sweep'.held = IF Exists(at) THEN Append(held, p) ELSE held
  BY DEF Capture, Last
<1>5. \A q : Unwanted(q)' <=> Unwanted(q)
  BY DEF Unwanted
<1>6. \A q : Where(q)' = WhereIn(sweep'.held, starts, q) /\ Where(q) = WhereIn(held, starts, q)
  BY DEF Where, WhereIn
<1>7. \A q \in sweep'.todo : Unwanted(q) /\ Len(q) >= 3
  BY <1>4 DEF ArtifactInv, Sweeping
<1>8. ASSUME ~Exists(at) PROVE Files' /\ Sweeping'
  <2>1. fs' = fs /\ sweep'.held = sweep.held /\ \A q : Where(q)' = Where(q)
    BY <1>4, <1>6, <1>8
  <2>2. Files'
    BY <2>1, FilesSame DEF ArtifactInv
  <2> QED
    BY <1>4, <1>5, <1>7, <2>1, <2>2 DEF ArtifactInv, Sweeping, Exists
<1>9. ASSUME Exists(at) PROVE Files' /\ Sweeping'
  <2>0. Shaped(at) /\ starts \in Int /\ starts # Plain
    BY <1>1, <1>9 DEF Plain
  <2> PICK more : more = Append(held, p)
    OBVIOUS
  <2>1. fs' = Renamed(at, to) /\ sweep'.held = more
    BY <1>4, <1>9
  <2>2. /\ Remarks(at, to) /\ to[Len(at)] = <<at[Len(at)][1], starts>>
        /\ IsPicture(at) => to[3][2] = starts
    BY <2>0, Remarked
  <2>3. Files'
    BY <1>1, <1>9, <2>0, <2>1, <2>2, FilesMoved DEF ArtifactInv
  <2>4. DOMAIN fs \subseteq Paths /\ to \in Paths /\ Len(at) = Len(to)
    BY <2>2, TreePaths DEF Remarks, ArtifactInv, Files
  <2>5. Arrives(at, to, fs') /\ Stays(at, to, fs')
    BY <1>1, <1>9, <2>1, <2>4, RenamedIs
  <2>6. ASSUME NEW j \in 1..Len(held)
        PROVE  Unwanted(held[j]) /\ WhereIn(more, starts, held[j]) \in DOMAIN fs'
    <3>1. Unwanted(held[j]) /\ Where(held[j]) \in DOMAIN fs
      BY DEF ArtifactInv, Sweeping, Exists
    <3>2. WhereIn(more, starts, held[j]) = Where(held[j])
      <4>1. WhereIn(Append(held, p), starts, held[j]) = WhereIn(held, starts, held[j])
        BY <1>1, <1>2, <1>3, <2>0, WhereShorter
      <4> QED
        BY <1>6, <4>1
    <3>3. Len(Where(held[j])) = Len(held[j])
      BY <3>1, CapturedPlace DEF ArtifactInv, Sweeping
    <3>4. ~Under(at, Where(held[j]))
      <4>1. Len(held[j]) \in Nat /\ Len(p) \in Nat /\ Len(held[j]) < Len(p)
        BY <1>1, <1>2, <1>3, PathIs
      <4> QED
        BY <1>1, <3>3, <4>1 DEF Under
    <3> QED
      BY <2>5, <3>1, <3>2, <3>4 DEF Stays
  <2>7. WhereIn(more, starts, p) = to
    <3>1. Len(p) > 0 /\ Len(p) \in 1..Len(p)
      BY <1>1
    <3>2. more \in Seq(Paths)
      BY <1>1, <1>2, AppendProperties
    <3>3. WhereIn(more, starts, p) \in Paths /\ Len(WhereIn(more, starts, p)) = Len(p)
      BY <1>1, <2>0, <3>2, WhereIs
    <3>4. /\ WhereIn(more, starts, p)[Len(p)] = <<p[Len(p)][1], starts>>
          /\ \A i \in 1..Len(p) : i # Len(p) => WhereIn(more, starts, p)[i] = at[i]
      BY <1>1, <1>2, <2>0, <3>1, WhereCaptured
    <3>5. at[Len(p)][1] = p[Len(p)][1]
      BY <1>1, <3>1
    <3>6. \A i \in 1..Len(p) : WhereIn(more, starts, p)[i] = to[i]
      BY <1>1, <2>2, <3>4, <3>5 DEF Remarks
    <3> QED
      BY <1>1, <2>4, <3>3, <3>6, SamePath
  <2>8. to \in DOMAIN fs'
    BY <1>1, <1>9, <2>4, <2>5, DestSelf DEF Arrives, Exists
  <2>9. /\ more \in Seq(Paths) /\ Len(more) = Len(held) + 1 /\ Len(held) \in Nat
        /\ \A j \in 1..Len(held) : more[j] = held[j]
        /\ more[Len(held) + 1] = p
    BY <1>1, <1>2, AppendProperties, LenProperties
  <2>10. ASSUME NEW i \in 1..Len(more) PROVE Unwanted(more[i]) /\ WhereIn(more, starts, more[i]) \in DOMAIN fs'
    <3>1. CASE i = Len(held) + 1
      BY <2>7, <2>8, <2>9, <3>1
    <3>2. CASE i # Len(held) + 1
      <4>1. i \in 1..Len(held) /\ more[i] = held[i]
        BY <2>9, <3>2
      <4> QED
        BY <2>6, <4>1
    <3> QED
      BY <3>1, <3>2
  <2>11. \A i \in 2..Len(more) : more[i - 1] = Front(more[i])
    <3>1. \A i \in 2..Len(held) : held[i - 1] = Front(held[i])
      BY DEF ArtifactInv, Sweeping
    <3>2. ASSUME NEW i \in 2..Len(more) PROVE more[i - 1] = Front(more[i])
      <4>1. CASE i = Len(held) + 1
        <5>1. held # <<>> /\ i - 1 = Len(held) /\ Len(held) \in 1..Len(held)
          BY <2>9, <4>1, EmptySeq
        <5> QED
          BY <1>3, <2>9, <4>1, <5>1
      <4>2. CASE i # Len(held) + 1
        <5>1. i \in 2..Len(held) /\ i \in 1..Len(held) /\ i - 1 \in 1..Len(held)
          BY <2>9, <4>2
        <5> QED
          BY <2>9, <3>1, <5>1
      <4> QED
        BY <4>1, <4>2
    <3> QED
      BY <3>2
  <2>12. \/ \A i \in 1..Len(more) : Len(more[i]) = i + 2
         \/ Len(more) = 1 /\ Len(more[1]) = 2
    <3>1. CASE held = <<>>
      <4>1. Len(held) = 0 /\ Len(p) \in {2, 3}
        BY <3>1
      <4> QED
        BY <2>9, <4>1
    <3>2. CASE held # <<>>
      <4>1. ASSUME NEW i \in 1..Len(more) PROVE Len(more[i]) = i + 2
        <5>1. CASE i = Len(held) + 1
          BY <1>3, <2>9, <3>2, <5>1
        <5>2. CASE i # Len(held) + 1
          <6>1. i \in 1..Len(held)
            BY <2>9, <5>2
          <6> QED
            BY <1>3, <2>9, <3>2, <6>1
        <5> QED
          BY <5>1, <5>2
      <4> QED
        BY <4>1
    <3> QED
      BY <3>1, <3>2
  <2>13. Sweeping'
    <3>1. sweep'.held = more /\ more \in Seq(Paths) /\ sweep'.tidy = <<>> /\ server' = "starting" /\ lock' = Nobody
      BY <1>4, <2>1, <2>9 DEF ArtifactInv, Sweeping
    <3>2. \A i \in 1..Len(sweep'.held) : /\ Unwanted(sweep.held[i])'
                                         /\ Where(sweep.held[i])' \in DOMAIN fs'
      BY <1>5, <1>6, <2>10, <3>1
    <3> QED
      BY <1>5, <1>7, <2>11, <2>12, <3>1, <3>2 DEF Sweeping, Exists
  <2> QED
    BY <2>3, <2>13
<1> QED
  BY <1>8, <1>9, StartingKeeps

\* What is captured last, and what the end of its removal does.
LEMMA FinishIs ==
  ASSUME ArtifactInv, Finish, NEW p, p = Last(sweep.held), NEW at, at = Where(p),
         NEW held, held = sweep.held, NEW less, less = Front(held)
  PROVE  /\ held # <<>> /\ Due = {}
         /\ fs' = IF Below(at) = {} THEN Without(at) ELSE Renamed(at, Append(Front(at), Last(p)))
         /\ sweep'.todo = sweep.todo /\ sweep'.held = less
         /\ sweep'.tidy = IF Below(at) = {} /\ Len(p) = 3 THEN Front(p) ELSE <<>>
         /\ Len(held) \in Nat \ {0} /\ p = held[Len(held)] /\ p \in Paths
         /\ less \in Seq(Paths) /\ Len(less) = Len(held) - 1
         /\ \A i \in 1..(Len(held) - 1) : less[i] = held[i]
         /\ held = Append(less, p)
         /\ Unwanted(p) /\ Exists(at)
         /\ at \in Paths /\ Len(at) = Len(p) /\ Len(p) \in 2..5
         /\ starts \in Nat \ {0}
         /\ \A i \in 1..Len(p) : at[i][1] = p[i][1]
         /\ ~IsReferenced(at) /\ Shaped(at)
         /\ \A j \in 1..Len(less) : Len(less[j]) < Len(p) /\ Len(less[j]) = j + 2
         /\ less # <<>> => Len(p) = Len(less) + 3
<1>1. /\ held # <<>> /\ Due = {}
      /\ fs' = IF Below(at) = {} THEN Without(at) ELSE Renamed(at, Append(Front(at), Last(p)))
      /\ sweep'.todo = sweep.todo /\ sweep'.held = less
      /\ sweep'.tidy = IF Below(at) = {} /\ Len(p) = 3 THEN Front(p) ELSE <<>>
  BY DEF Finish
<1>2. /\ Len(held) \in Nat \ {0} /\ p = held[Len(held)] /\ p \in Paths
      /\ less \in Seq(Paths) /\ Len(less) = Len(held) - 1
      /\ \A i \in 1..(Len(held) - 1) : less[i] = held[i]
      /\ held = Append(less, p)
  BY <1>1, FrontLast DEF ArtifactInv, Sweeping
<1>3. Unwanted(p) /\ Exists(at)
  <2>1. Len(held) \in 1..Len(held)
    BY <1>2
  <2> QED
    BY <1>2, <2>1 DEF ArtifactInv, Sweeping
<1>4. /\ at \in Paths /\ Len(at) = Len(p) /\ Len(p) \in 2..5
      /\ starts \in Nat \ {0}
      /\ \A i \in 1..Len(p) : at[i][1] = p[i][1]
      /\ ~IsReferenced(at) /\ Shaped(at)
  BY <1>3, CapturedPlace DEF ArtifactInv, Sweeping
<1>5. /\ \A j \in 1..Len(less) : Len(less[j]) < Len(p) /\ Len(less[j]) = j + 2
      /\ less # <<>> => Len(p) = Len(less) + 3
  <2>1. CASE \A i \in 1..Len(held) : Len(held[i]) = i + 2
    <3>1. Len(held) \in 1..Len(held) /\ Len(p) = Len(held) + 2
      BY <1>2, <2>1
    <3>2. ASSUME NEW j \in 1..Len(less) PROVE Len(less[j]) < Len(p) /\ Len(less[j]) = j + 2
      BY <1>2, <2>1, <3>1
    <3>3. Len(p) = Len(less) + 3
      BY <1>2, <3>1
    <3> QED
      BY <3>2, <3>3
  <2>2. CASE Len(held) = 1
    <3>1. Len(less) = 0
      BY <1>2, <2>2
    <3> QED
      BY <1>2, <3>1, EmptySeq
  <2> QED
    BY <2>1, <2>2 DEF ArtifactInv, Sweeping
<1> QED
  BY <1>1, <1>2, <1>3, <1>4, <1>5

\* A captured entry is removed, or gets its name back when it is not empty.
LEMMA FinishKeeps ==
  ASSUME ArtifactInv, server = "starting", UNCHANGED <<server, starts, life, agents, referenced, lock, pc, late>>,
         Finish
  PROVE  ArtifactInv'
<1> PICK p : p = Last(sweep.held)
  OBVIOUS
<1> PICK at : at = Where(p)
  OBVIOUS
<1> PICK held : held = sweep.held
  OBVIOUS
<1> PICK less : less = Front(held)
  OBVIOUS
<1>1. /\ held # <<>> /\ Due = {}
      /\ fs' = IF Below(at) = {} THEN Without(at) ELSE Renamed(at, Append(Front(at), Last(p)))
      /\ sweep'.todo = sweep.todo /\ sweep'.held = less
      /\ sweep'.tidy = IF Below(at) = {} /\ Len(p) = 3 THEN Front(p) ELSE <<>>
  BY FinishIs
<1>2. /\ Len(held) \in Nat \ {0} /\ p = held[Len(held)] /\ p \in Paths
      /\ less \in Seq(Paths) /\ Len(less) = Len(held) - 1
      /\ \A i \in 1..(Len(held) - 1) : less[i] = held[i]
      /\ held = Append(less, p)
  BY FinishIs
<1>3. Unwanted(p) /\ Exists(at)
  BY FinishIs
<1>4. /\ at \in Paths /\ Len(at) = Len(p) /\ Len(p) \in 2..5
      /\ starts \in Nat \ {0}
      /\ \A i \in 1..Len(p) : at[i][1] = p[i][1]
      /\ ~IsReferenced(at) /\ Shaped(at)
  BY FinishIs
<1>5. /\ \A j \in 1..Len(less) : Len(less[j]) < Len(p) /\ Len(less[j]) = j + 2
      /\ less # <<>> => Len(p) = Len(less) + 3
  BY FinishIs
<1>6. \A q : Where(q)' = WhereIn(less, starts, q) /\ Where(q) = WhereIn(held, starts, q)
  BY <1>1 DEF Where, WhereIn
<1>7. \A q : Unwanted(q)' <=> Unwanted(q)
  BY DEF Unwanted
<1>8. Files' /\ \A q \in DOMAIN fs : Len(q) < Len(p) => q \in DOMAIN fs'
  <2>1. CASE Below(at) = {}
    <3>1. fs' = Without(at)
      BY <1>1, <2>1
    <3>2. Files'
      BY <1>4, <2>1, <3>1, FilesRemoved DEF ArtifactInv
    <3>3. Len(p) \in Nat
      BY <1>2, PathIs
    <3>4. \A n \in Nat : ~(n < n)
      OBVIOUS
    <3>5. \A q \in DOMAIN fs : Len(q) < Len(p) => q # at
      BY <1>4, <3>3, <3>4
    <3> QED
      BY <3>1, <3>2, <3>5, WithoutIs
  <2>2. CASE Below(at) # {}
    <3> PICK to : to = Append(Front(at), <<at[Len(at)][1], Plain>>)
      OBVIOUS
    <3>1. Last(p) = <<at[Len(at)][1], Plain>>
      <4>0. \A n \in 2..5 : n \in 1..n
        OBVIOUS
      <4>1. Len(p) \in 1..Len(p)
        BY <1>4, <4>0
      <4>2. p[Len(p)] \in Names \X Int /\ p[Len(p)][2] = Plain
        BY <1>2, <1>3, <4>1, PathIs DEF Unwanted, Canonical
      <4>3. Last(p) = <<p[Len(p)][1], p[Len(p)][2]>>
        BY <4>2 DEF Last
      <4> QED
        BY <1>4, <4>1, <4>2, <4>3
    <3>2. fs' = Renamed(at, to)
      BY <1>1, <2>2, <3>1
    <3>3. Remarks(at, to)
      BY <1>4, Remarked DEF Plain
    <3>4. ~IsPicture(at)
      <4>1. IsPicture(at) => ~IsDirectory(at)
        BY DEF IsPicture, IsDirectory
      <4> QED
        BY <1>4, <2>2, <4>1, NothingBelowFile DEF ArtifactInv, Files
    <3>5. Files'
      BY <1>3, <1>4, <3>2, <3>3, <3>4, FilesMoved DEF ArtifactInv
    <3>6. DOMAIN fs \subseteq Paths /\ to \in Paths /\ Len(at) = Len(to)
      BY <3>3, TreePaths DEF Remarks, ArtifactInv, Files
    <3>7. Stays(at, to, fs')
      BY <1>3, <1>4, <3>2, <3>6, RenamedIs
    <3>8. ASSUME NEW q \in DOMAIN fs, Len(q) < Len(p) PROVE q \in DOMAIN fs'
      <4>1. Len(q) \in Nat /\ Len(p) \in Nat
        BY <1>2, <3>6, PathIs
      <4>2. ~Under(at, q)
        BY <1>4, <3>8, <4>1 DEF Under
      <4> QED
        BY <3>7, <4>2 DEF Stays
    <3> QED
      BY <3>5, <3>8
  <2> QED
    BY <2>1, <2>2
<1>9. ASSUME NEW j \in 1..Len(less)
      PROVE  Unwanted(less[j]) /\ WhereIn(less, starts, less[j]) \in DOMAIN fs'
  <2>1. j \in 1..Len(held) /\ less[j] = held[j] /\ less[j] \in Paths
    BY <1>2, ElementOfSeq
  <2>2. Unwanted(less[j]) /\ Where(less[j]) \in DOMAIN fs
    BY <2>1 DEF ArtifactInv, Sweeping, Exists
  <2>3. WhereIn(held, starts, less[j]) = WhereIn(less, starts, less[j])
    <3>1. starts \in Int
      BY <1>4
    <3>2. WhereIn(Append(less, p), starts, less[j]) = WhereIn(less, starts, less[j])
      BY <1>2, <1>5, <2>1, <3>1, WhereShorter
    <3> QED
      BY <1>2, <3>2
  <2>4. Len(Where(less[j])) = Len(less[j])
    BY <2>2, CapturedPlace DEF ArtifactInv, Sweeping
  <2> QED
    BY <1>5, <1>6, <1>8, <2>2, <2>3, <2>4
<1>10. sweep'.tidy # <<>> => less = <<>> /\ Unwanted(sweep'.tidy) /\ Len(sweep'.tidy) = 2
  <2> SUFFICES ASSUME Len(p) = 3 PROVE less = <<>> /\ Unwanted(Front(p)) /\ Len(Front(p)) = 2
    BY <1>1
  <2>1. less = <<>>
    <3>1. Len(less) = 0
      <4>1. less # <<>> => Len(less) \in Nat \ {0}
        BY <1>2, EmptySeq, LenProperties
      <4> QED
        BY <1>5, <4>1, EmptySeq
    <3> QED
      BY <1>2, <3>1, EmptySeq
  <2>2. /\ Front(p) \in Paths /\ Len(Front(p)) = 2 /\ Front(p)[1] = p[1] /\ Front(p)[2] = p[2]
    <3>1. Len(p) > 0 /\ 1 \in 1..(Len(p) - 1) /\ 2 \in 1..(Len(p) - 1) /\ Len(p) - 1 = 2
      OBVIOUS
    <3> QED
      BY <1>2, <3>1, FrontIs
  <2>3. Canonical(Front(p))
    <3>1. p[1][2] = Plain /\ p[2][2] = Plain
      BY <1>3 DEF Unwanted, Canonical
    <3> QED
      BY <2>2, <3>1 DEF Canonical
  <2>4. Shaped(Front(p))
    BY <1>3, <2>2 DEF Unwanted, Shaped
  <2> QED
    BY <2>1, <2>2, <2>3, <2>4 DEF Unwanted, IsPicture
<1>11. Sweeping'
  <2>1. /\ sweep'.held = less /\ less \in Seq(Paths) /\ sweep'.todo = sweep.todo
        /\ server' = "starting" /\ lock' = Nobody
    BY <1>1, <1>2 DEF ArtifactInv, Sweeping
  <2>2. \A i \in 1..Len(sweep'.held) : Unwanted(sweep.held[i])' /\ Where(sweep.held[i])' \in DOMAIN fs'
    BY <1>6, <1>7, <1>9, <2>1
  <2>3. \A i \in 2..Len(less) : less[i - 1] = Front(less[i])
    <3>1. \A i \in 2..Len(held) : held[i - 1] = Front(held[i])
      BY DEF ArtifactInv, Sweeping
    <3>2. ASSUME NEW i \in 2..Len(less) PROVE less[i - 1] = Front(less[i])
      <4>1. i \in 2..Len(held) /\ i \in 1..(Len(held) - 1) /\ i - 1 \in 1..(Len(held) - 1)
        BY <1>2
      <4> QED
        BY <1>2, <3>1, <4>1
    <3> QED
      BY <3>2
  <2>4. \A q \in sweep'.todo : Unwanted(q)' /\ Len(q) >= 3
    BY <1>7, <2>1 DEF ArtifactInv, Sweeping
  <2>5. sweep'.tidy # <<>> => less = <<>> /\ Unwanted(sweep.tidy)' /\ Len(sweep'.tidy) = 2
    BY <1>7, <1>10
  <2> QED
    BY <1>5, <2>1, <2>2, <2>3, <2>4, <2>5 DEF Sweeping, Exists
<1> QED
  BY <1>8, <1>11, StartingKeeps

\* One step of the reconciliation.
LEMMA SweepKeeps ==
  ASSUME ArtifactInv, SweepStep
  PROVE  ArtifactInv'
<1>1. server = "starting" /\ UNCHANGED <<starts, life, agents, referenced, lock, pc, late>>
  BY DEF SweepStep
<1>2. ASSUME UNCHANGED server, NEW p \in Due, Capture(p) PROVE ArtifactInv'
  <2>1. p \in sweep.todo /\ Unwanted(p)
    BY <1>2 DEF Due, ArtifactInv, Sweeping
  <2>2. \/ sweep.held = <<>> /\ Len(p) = 3
        \/ sweep.held # <<>> /\ Front(p) = Last(sweep.held) /\ Len(p) > 3
    BY <1>2 DEF Due
  <2> QED
    BY <1>1, <1>2, <2>1, <2>2, CaptureKeeps
<1>3. ASSUME UNCHANGED server, sweep.tidy # <<>>, Capture(sweep.tidy) PROVE ArtifactInv'
  <2> PICK p : p = sweep.tidy
    OBVIOUS
  <2>1. Unwanted(p) /\ Len(p) = 2 /\ sweep.held = <<>> /\ Capture(p)
    BY <1>3 DEF ArtifactInv, Sweeping
  <2> QED
    BY <1>1, <1>3, <2>1, CaptureKeeps
<1>4. ASSUME UNCHANGED server, Finish PROVE ArtifactInv'
  BY <1>1, <1>4, FinishKeeps
<1>5. ASSUME SweepDone PROVE ArtifactInv'
  <2>1. server' = "up" /\ sweep' = NoSweep /\ UNCHANGED fs
    BY <1>5 DEF SweepDone
  <2>2. Files' /\ Sweeping'
    BY <1>1, <2>1, FilesSame, IdleSweep DEF ArtifactInv
  <2> QED
    BY <1>1, <2>1, <2>2, StartingKeeps
<1> QED
  BY <1>2, <1>3, <1>4, <1>5 DEF SweepStep

-----------------------------------------------------------------------------
(* The properties of the runs *)

\* The first state has no entries.
LEMMA InitKeeps == Init => ArtifactInv
<1> SUFFICES ASSUME Init PROVE ArtifactInv
  OBVIOUS
<1>1. Kinds
  BY StartsAssumption DEF Init, Kinds
<1>2. Files
  BY DEF Init, Files, Tree, WholePictures, Pictured
<1>3. Sweeping
  BY EmptySeq DEF Init, Sweeping, NoSweep
<1>4. Locked /\ Lives
  BY NobodyAssumption DEF Init, Locked, Lives
<1> QED
  BY <1>1, <1>2, <1>3, <1>4 DEF ArtifactInv

\* Every step keeps the invariant.
LEMMA StepKeeps == ArtifactInv /\ [Next]_vars => ArtifactInv'
<1> SUFFICES ASSUME ArtifactInv, [Next]_vars PROVE ArtifactInv'
  OBVIOUS
<1>1. ASSUME NEW a \in Attempts,
             \/ Prepare(a) \/ Draw(a) \/ AgentEnds(a) \/ Publish(a) \/ Raise(a)
             \/ RemoveOwned(a) \/ Commit(a) \/ Abort(a)
      PROVE  ArtifactInv'
  BY <1>1, PrepareKeeps, DrawKeeps, AgentEndsKeeps, PublishKeeps, RaiseKeeps, RemoveOwnedKeeps,
     CommitKeeps, AbortKeeps
<1>2. CASE UNCHANGED vars
  <2>1. UNCHANGED <<fs, server, starts, life, agents, referenced, lock, pc, sweep, late>>
    BY <1>2 DEF vars
  <2>2. Files' /\ Sweeping'
    BY <2>1, FilesSame, SweepingSame DEF ArtifactInv
  <2>3. Kinds'
    BY <2>1 DEF ArtifactInv, Kinds
  <2>4. Locked'
    BY <2>1 DEF ArtifactInv, Locked, Exists
  <2>5. Lives'
    BY <2>1 DEF ArtifactInv, Lives, Exists
  <2> QED
    BY <2>2, <2>3, <2>4, <2>5 DEF ArtifactInv
<1> QED
  BY <1>1, <1>2, CrashKeeps, StartKeeps, SweepKeeps DEF Next

\* The inductive invariant.
THEOREM ArtifactInvariant == Spec => []ArtifactInv
BY InitKeeps, StepKeeps, PTL DEF Spec

\* The filesystem is a tree of directories and files, whatever calls are cut short.
THEOREM Typed == Spec => []TypeOK
<1>1. ArtifactInv => TypeOK
  BY TreeTyped DEF ArtifactInv, Files
<1> QED
  BY <1>1, ArtifactInvariant, PTL

\* What the static mount finds under a public name is a whole picture.
THEOREM PicturesWhole == Spec => []PublicIsWhole
<1>1. ArtifactInv => PublicIsWhole
  BY PicturePlaces DEF ArtifactInv, Files, WholePictures, PublicIsWhole, Exists
<1> QED
  BY <1>1, ArtifactInvariant, PTL

\* No sequence of failures, crashes and reconciliations deletes the picture of a
\* durable round.
THEOREM ReferencesKept == Spec => []ReferencedKept
<1>1. ArtifactInv => ReferencedKept
  <2> SUFFICES ASSUME ArtifactInv, NEW a \in referenced
               PROVE  \E p \in DOMAIN fs :
                        Len(p) = 3 /\ p[1] = Public(a)[1] /\ p[3] = <<a, Plain>> /\ WellFormed(fs[p])
    BY DEF ReferencedKept
  <2>1. PICK p \in DOMAIN fs : IsPicture(p) /\ p[3] = <<a, Plain>>
    BY DEF ArtifactInv, Files, Pictured
  <2>2. Shaped(p) /\ WellFormed(fs[p])
    BY <2>1 DEF ArtifactInv, Files, Tree, WholePictures
  <2>3. a \in Attempts
    BY DEF ArtifactInv, Kinds
  <2>4. p[1] = Public(a)[1]
    BY <2>1, <2>2, <2>3, RootPlaces DEF Shaped, IsPicture
  <2> QED
    BY <2>1, <2>2, <2>4 DEF IsPicture
<1> QED
  BY <1>1, ArtifactInvariant, PTL

\* The method that takes or holds the lock touches its own attempt's files only.
THEOREM OthersAlone == Spec => OthersUntouched
<1> DEFINE Kept(a) ==
      \A p \in DOMAIN fs : (Len(p) >= 3 /\ p[3][1] # a) => p \in DOMAIN fs' /\ fs'[p] = fs[p]
<1>1. ASSUME ArtifactInv, [Next]_vars, NEW a \in Attempts, a \in {lock, lock'}, server' = "up"
      PROVE  Kept(a)
  <2>1. a # Nobody /\ (lock = a => server = "up")
    BY <1>1, NobodyAssumption DEF ArtifactInv, Sweeping
  <2>2. ASSUME NEW path \in {Draft(a), Output(a), Workspace(a), Private(a), Final(a), Public(a), Temporary(a)},
               DOMAIN fs \ {path} \subseteq DOMAIN fs',
               \A p \in DOMAIN fs : p # path => fs'[p] = fs[p]
        PROVE  Kept(a)
    <3>1. Len(path) < 3 \/ path[3][1] = a
      BY RootPlaces, WorkspacePlaces, PicturePlaces
    <3> QED
      BY <2>2, <3>1
  <2>3. CASE fs' = fs
    BY <2>3
  <2> HIDE DEF Kept
  <2>4. ASSUME NEW path \in {Draft(a), Output(a), Workspace(a), Private(a), Final(a), Public(a), Temporary(a)},
               NEW what, fs' = With(path, what)
        PROVE  Kept(a)
    BY <2>2, <2>4, WithIs
  <2>5. ASSUME NEW path \in {Draft(a), Output(a), Workspace(a), Private(a), Final(a), Public(a), Temporary(a)},
               fs' \in {Without(path), EnsureDir(path), RemoveIfEmpty(path)}
        PROVE  Kept(a)
    <3>1. CASE fs' = Without(path)
      BY <2>2, <3>1, WithoutIs
    <3> QED
      BY <2>3, <2>4, <2>5, <3>1 DEF EnsureDir, RemoveIfEmpty
  <2>6. ASSUME NEW b \in Attempts, Prepare(b) \/ Publish(b) \/ RemoveOwned(b) PROVE b = a
    <3>1. CASE lock = a
      BY <2>1, <2>6, <3>1 DEF Prepare, Publish, RemoveOwned, Enter, At
    <3>2. lock' \in {b, Nobody}
      BY <2>6 DEF Prepare, Publish, RemoveOwned, Goto, Leave
    <3> QED
      BY <1>1, <2>1, <3>1, <3>2
  <2>7. ASSUME NEW b \in Attempts, Prepare(b) PROVE Kept(a)
    <3>1. b = a
      BY <2>6, <2>7
    <3> QED
      BY <2>4, <2>5, <2>7, <3>1 DEF Prepare
  <2>8. ASSUME NEW b \in Attempts, Draw(b) PROVE Kept(a)
    <3>1. PICK file \in Drafts : fs' = With(Draft(b), file)
      BY <2>8 DEF Draw
    <3>2. DOMAIN fs \subseteq DOMAIN fs' /\ \A p \in DOMAIN fs : fs'[p] = fs[p]
      BY <2>8, <3>1, WithIs DEF Draw, Exists
    <3> QED
      BY <3>2 DEF Kept
  <2>9. ASSUME NEW b \in Attempts, Publish(b) PROVE Kept(a)
    <3>1. b = a
      BY <2>6, <2>9
    <3>2. CASE fs' = Renamed(Temporary(a), Final(a)) /\ At(a, "replace")
      <4>1. Exists(Temporary(a))
        BY <1>1, <3>2 DEF At, ArtifactInv, Locked
      <4>2. /\ DOMAIN fs \subseteq Paths /\ Temporary(a) \in Paths /\ Final(a) \in Paths
            /\ Len(Temporary(a)) = 3 /\ Len(Final(a)) = 3
        BY <1>1, TreePaths, PicturePlaces DEF ArtifactInv, Files, Shaped, IsPicture
      <4>3. Stays(Temporary(a), Final(a), fs')
        BY <3>2, <4>1, <4>2, RenamedIs
      <4>4. ASSUME NEW p \in DOMAIN fs, Len(p) >= 3, p[3][1] # a
            PROVE  p \in DOMAIN fs' /\ fs'[p] = fs[p]
        <5>1. 3 \in 1..3 /\ Temporary(a)[3] = <<a, Temp>> /\ Final(a)[3] = <<a, Plain>>
          BY PicturePlaces
        <5>2. ~Under(Temporary(a), p) /\ ~Under(Final(a), p)
          BY <4>2, <4>4, <5>1 DEF Under
        <5> QED
          BY <4>3, <5>2 DEF Stays
      <4> QED
        BY <4>4 DEF Kept
    <3> QED
      BY <2>4, <2>5, <2>9, <3>1, <3>2 DEF Publish
  <2>10. ASSUME NEW b \in Attempts, Raise(b) PROVE Kept(a)
    <3>1. fs' = fs \/ (b = a /\ fs' = Without(Temporary(a)))
      BY <1>1, <2>1, <2>10 DEF Raise, Leave
    <3> QED
      BY <2>3, <2>5, <3>1 DEF Kept
  <2>11. ASSUME NEW b \in Attempts, RemoveOwned(b) PROVE Kept(a)
    <3>1. b = a
      BY <2>6, <2>11
    <3>2. PICK call \in RemovalCalls : fs' = Effect(a, call)
      BY <1>1, <2>11, <3>1, RemovalStep
    <3>3. a \notin referenced /\ referenced' = referenced
      BY <1>1, <2>11, <3>1, RemovalStep DEF ArtifactInv, Lives
    <3>4. /\ \A p \in DOMAIN fs' : fs'[p] = fs[p]
          /\ \E path \in {Draft(a), Output(a), Workspace(a), Private(a), Final(a), Public(a)} :
               DOMAIN fs \ {path} \subseteq DOMAIN fs'
      BY <1>1, <3>2, <3>3, EffectIs DEF ArtifactInv
    <3> QED
      BY <2>2, <3>4
  <2>12. ASSUME NEW b \in Attempts, AgentEnds(b) \/ Commit(b) \/ Abort(b) PROVE fs' = fs
    BY <2>12 DEF AgentEnds, Commit, Abort
  <2>13. ASSUME Crash \/ Start \/ SweepStep PROVE FALSE
    BY <1>1, <2>1, <2>13 DEF Crash, Leave, Start, SweepStep
  <2>14. CASE UNCHANGED vars
    BY <2>3, <2>14 DEF vars
  <2> QED
    BY <1>1, <2>3, <2>7, <2>8, <2>9, <2>10, <2>11, <2>12, <2>13, <2>14 DEF Next
<1>2. ArtifactInv /\ [Next]_vars =>
        [\A a \in Attempts : a \in {lock, lock'} /\ server' = "up" =>
           \A p \in DOMAIN fs : (Len(p) >= 3 /\ p[3][1] # a) => p \in DOMAIN fs' /\ fs'[p] = fs[p]]_vars
  BY <1>1
<1> QED
  BY <1>2, ArtifactInvariant, PTL DEF Spec, OthersUntouched

-----------------------------------------------------------------------------
(* What a start leaves *)

\* The name an entry had when this start planned, whatever this start captured.
Home(e) == [i \in 1..Len(e) |-> IF e[i][2] = starts THEN <<e[i][1], Plain>> ELSE e[i]]

\* No quarantine name of a start to come is in use.
Past == \A e \in DOMAIN fs : \A i \in 1..Len(e) : e[i][2] <= starts

\* The captured paths tell where every entry is.
Placed == \A e \in DOMAIN fs : Where(Home(e)) = e

\* Below p is a quarantine name of an earlier start.
IsStale(p) == \E q \in DOMAIN fs : Under(p, Home(q)) /\ ~Canonical(Home(q))

\* This start will remove the entry yet, or has a reason to leave it.
Owed(p) ==
  \/ p \in sweep.todo
  \/ \E k \in 1..Len(sweep.held) : sweep.held[k] = p
  \/ IF IsPicture(p) THEN p[3][1] \in referenced ELSE p[3][1] \in late \/ IsStale(p)

Accounted == \A e \in DOMAIN fs : Canonical(Home(e)) /\ Len(e) >= 3 => Owed(Home(e))

Accounts == Past /\ (server = "starting" => Placed /\ Accounted)

\* The home of an entry, component by component.
LEMMA HomeIs ==
  ASSUME NEW e \in Paths
  PROVE  /\ Home(e) \in Paths /\ Len(Home(e)) = Len(e)
         /\ \A i \in 1..Len(e) : Home(e)[i] = IF e[i][2] = starts THEN <<e[i][1], Plain>> ELSE e[i]
<1> DEFINE k == Len(e)
           h == Home(e)
<1>1. k \in Nat /\ \A i \in 1..k : e[i] \in Names \X Int
  BY PathIs
<1>2. h = [i \in 1..k |-> IF e[i][2] = starts THEN <<e[i][1], Plain>> ELSE e[i]]
  BY DEF Home
<1>3. /\ DOMAIN h = 1..k
      /\ \A i \in 1..k : h[i] = IF e[i][2] = starts THEN <<e[i][1], Plain>> ELSE e[i]
  BY <1>2
<1> HIDE DEF h, k
<1>4. \A i \in 1..k : h[i] \in Names \X Int
  <2> SUFFICES ASSUME NEW i \in 1..k PROVE h[i] \in Names \X Int
    OBVIOUS
  <2>1. e[i] \in Names \X Int /\ <<e[i][1], Plain>> \in Names \X Int
    BY <1>1 DEF Plain
  <2>2. h[i] = <<e[i][1], Plain>> \/ h[i] = e[i]
    BY <1>3
  <2> QED
    BY <2>1, <2>2
<1>5. h \in [1..k -> Names \X Int]
  <2>1. h = [i \in 1..k |-> h[i]]
    BY <1>2, <1>3
  <2> QED
    BY <1>4, <2>1
<1>6. h \in Paths /\ Len(h) = k
  BY <1>1, <1>3, <1>5, IsASeq, LenProperties DEF Paths
<1> QED
  BY <1>3, <1>6 DEF h, k

\* The names of the components stay.
LEMMA HomeNames ==
  ASSUME NEW e \in Paths
  PROVE  \A i \in 1..Len(e) : Home(e)[i][1] = e[i][1]
<1> SUFFICES ASSUME NEW i \in 1..Len(e) PROVE Home(e)[i][1] = e[i][1]
  OBVIOUS
<1>1. Home(e)[i] = <<e[i][1], Plain>> \/ Home(e)[i] = e[i]
  BY HomeIs
<1> QED
  BY <1>1

\* A planned path is the home of the entry it is the place of.
LEMMA HomeWhere ==
  ASSUME NEW held \in Seq(Paths), NEW p \in Paths, Canonical(p), starts \in Int
  PROVE  Home(WhereIn(held, starts, p)) = p
<1> DEFINE w == WhereIn(held, starts, p)
<1>1. /\ w \in Paths /\ Len(w) = Len(p)
      /\ \A i \in 1..Len(p) : w[i] = <<p[i][1], starts>> \/ w[i] = p[i]
  BY WhereIs
<1> HIDE DEF w
<1>2. ASSUME NEW i \in 1..Len(p) PROVE Home(w)[i] = p[i]
  <2>1. p[i] = <<p[i][1], Plain>>
    BY PathIs DEF Canonical
  <2>2. Home(w)[i] = IF w[i][2] = starts THEN <<w[i][1], Plain>> ELSE w[i]
    BY <1>1, HomeIs
  <2>3. CASE w[i] = <<p[i][1], starts>>
    BY <2>1, <2>2, <2>3
  <2>4. CASE w[i] = p[i]
    BY <2>1, <2>2, <2>4
  <2> QED
    BY <1>1, <2>3, <2>4
<1>3. Home(w) = p
  BY <1>1, <1>2, HomeIs, SamePath
<1> QED
  BY <1>3 DEF w

\* What is below an entry has its home below that of the entry.
LEMMA HomeUnder ==
  ASSUME NEW e \in Paths, NEW d \in Paths, Under(e, d)
  PROVE  Under(Home(e), Home(d))
<1>1. Len(e) \in Nat /\ Len(d) \in Nat /\ Len(e) <= Len(d) /\ \A i \in 1..Len(e) : d[i] = e[i]
  BY PathIs DEF Under
<1>2. Len(Home(e)) = Len(e) /\ Len(Home(d)) = Len(d)
  BY HomeIs
<1>3. ASSUME NEW i \in 1..Len(e) PROVE Home(d)[i] = Home(e)[i]
  <2>1. i \in 1..Len(d) /\ d[i] = e[i]
    BY <1>1
  <2>2. Home(e)[i] = IF e[i][2] = starts THEN <<e[i][1], Plain>> ELSE e[i]
    BY HomeIs
  <2>3. Home(d)[i] = IF d[i][2] = starts THEN <<d[i][1], Plain>> ELSE d[i]
    BY <2>1, HomeIs
  <2> QED
    BY <2>1, <2>2, <2>3
<1> QED
  BY <1>1, <1>2, <1>3 DEF Under

\* What is below a path is found below its place.
LEMMA WhereUnder ==
  ASSUME NEW held \in Seq(Paths), NEW n \in Int, NEW p \in Paths, NEW q \in Paths, Under(p, q)
  PROVE  Under(WhereIn(held, n, p), WhereIn(held, n, q))
<1>1. Len(p) \in Nat /\ Len(q) \in Nat /\ Len(p) <= Len(q) /\ \A i \in 1..Len(p) : q[i] = p[i]
  BY PathIs DEF Under
<1>2. Len(WhereIn(held, n, p)) = Len(p) /\ Len(WhereIn(held, n, q)) = Len(q)
  BY WhereIs
<1>3. ASSUME NEW i \in 1..Len(p) PROVE WhereIn(held, n, q)[i] = WhereIn(held, n, p)[i]
  <2>1. i \in 1..Len(q) /\ q[i] = p[i]
    BY <1>1
  <2>2. ASSUME NEW j \in 1..Len(held), Len(held[j]) = i
        PROVE  Under(held[j], q) <=> Under(held[j], p)
    <3>1. i <= Len(p) /\ i <= Len(q) /\ \A m \in 1..i : q[m] = p[m]
      BY <1>1
    <3> QED
      BY <2>2, <3>1 DEF Under
  <2>3. (\E j \in 1..Len(held) : Len(held[j]) = i /\ Under(held[j], q))
          <=> (\E j \in 1..Len(held) : Len(held[j]) = i /\ Under(held[j], p))
    BY <2>2
  <2>4. WhereIn(held, n, p)[i] =
          IF \E j \in 1..Len(held) : Len(held[j]) = i /\ Under(held[j], p) THEN <<p[i][1], n>> ELSE p[i]
    BY WhereIs
  <2>5. WhereIn(held, n, q)[i] =
          IF \E j \in 1..Len(held) : Len(held[j]) = i /\ Under(held[j], q) THEN <<q[i][1], n>> ELSE q[i]
    BY <2>1, WhereIs
  <2> QED
    BY <2>1, <2>3, <2>4, <2>5
<1> QED
  BY <1>1, <1>2, <1>3 DEF Under

\* Between the plain name and the quarantine name of this start, a rename leaves
\* every home alone.
LEMMA HomeDest ==
  ASSUME NEW at \in Paths, NEW to \in Paths, Len(at) = Len(to), Len(at) > 0,
         \A i \in 1..Len(at) : i # Len(at) => to[i] = at[i],
         at[Len(at)][2] \in {starts, Plain}, to[Len(at)][2] \in {starts, Plain},
         to[Len(at)][1] = at[Len(at)][1],
         NEW e \in Paths, Under(at, e)
  PROVE  Home(Dest(at, to, e)) = Home(e)
<1> DEFINE d == Dest(at, to, e)
<1>1. /\ d \in Paths /\ Len(d) = Len(e) /\ Len(e) \in Nat /\ Len(at) \in Nat
      /\ \A i \in 1..Len(e) : d[i] = IF i <= Len(to) THEN to[i] ELSE e[i]
      /\ \A i \in 1..Len(at) : e[i] = at[i]
  BY DestIs, PathIs DEF Under
<1> HIDE DEF d
<1>2. ASSUME NEW i \in 1..Len(e) PROVE Home(d)[i] = Home(e)[i]
  <2>1. /\ Home(e)[i] = IF e[i][2] = starts THEN <<e[i][1], Plain>> ELSE e[i]
        /\ Home(d)[i] = IF d[i][2] = starts THEN <<d[i][1], Plain>> ELSE d[i]
    BY <1>1, HomeIs
  <2>2. CASE i = Len(at)
    <3>1. e[i] = at[i] /\ d[i] = to[i]
      BY <1>1, <2>2
    <3>2. e[i] \in Names \X Int /\ d[i] \in Names \X Int
      BY <1>1, PathIs
    <3>3. e[i] = <<e[i][1], e[i][2]>> /\ d[i] = <<d[i][1], d[i][2]>>
      BY <3>2
    <3>4. Home(e)[i] = <<e[i][1], Plain>> /\ Home(d)[i] = <<d[i][1], Plain>>
      BY <2>1, <2>2, <3>1, <3>3
    <3>5. d[i][1] = e[i][1]
      BY <2>2, <3>1
    <3> QED
      BY <3>4, <3>5
  <2>3. CASE i # Len(at)
    <3>1. d[i] = e[i]
      BY <1>1, <2>3
    <3> QED
      BY <2>1, <3>1
  <2> QED
    BY <2>2, <2>3
<1>3. Home(d) = Home(e)
  BY <1>1, <1>2, HomeIs, SamePath
<1> QED
  BY <1>3 DEF d

\* A rename between the plain name and the quarantine name of this start moves
\* entries and leaves every home what it was.
LEMMA RenamedHomes ==
  ASSUME Files, NEW at, Shaped(at), Exists(at), NEW to, Remarks(at, to), starts \in Nat \ {0},
         at[Len(at)][2] \in {starts, Plain}, to[Len(at)][2] \in {starts, Plain},
         fs' = Renamed(at, to), starts' = starts
  PROVE  /\ \A d \in DOMAIN fs' : \E e \in DOMAIN fs :
              /\ d \in Paths /\ Len(d) = Len(e) /\ Home(d) = Home(e)
              /\ IF Under(at, e) THEN d = Dest(at, to, e) ELSE d = e
         /\ \A e \in DOMAIN fs : \E d \in DOMAIN fs' : Home(d) = Home(e)
         /\ Past => Past'
<1>1. /\ DOMAIN fs \subseteq Paths /\ at \in Paths /\ to \in Paths /\ Len(at) = Len(to)
      /\ Len(at) \in 2..5 /\ Len(at) > 0 /\ Len(at) \in Nat /\ Len(at) \in 1..Len(at)
  <2>1. \A n \in 2..5 : n > 0 /\ n \in Nat /\ n \in 1..n
    OBVIOUS
  <2> QED
    BY <2>1, TreePaths DEF Remarks, Shaped, Files
<1>2. Arrives(at, to, fs') /\ Stays(at, to, fs') /\ Comes(at, to, fs')
  BY <1>1, RenamedIs
<1>3. /\ \A i \in 1..Len(at) : i # Len(at) => to[i] = at[i]
      /\ to[Len(at)][1] = at[Len(at)][1]
  BY <1>1 DEF Remarks
<1>4. ASSUME NEW e \in DOMAIN fs, Under(at, e) PROVE Home(Dest(at, to, e)) = Home(e)
  BY <1>1, <1>3, <1>4, HomeDest
<1>5. \A d \in DOMAIN fs' : \E e \in DOMAIN fs :
        /\ d \in Paths /\ Len(d) = Len(e) /\ Home(d) = Home(e)
        /\ IF Under(at, e) THEN d = Dest(at, to, e) ELSE d = e
  <2> SUFFICES ASSUME NEW d \in DOMAIN fs'
               PROVE  \E e \in DOMAIN fs :
                        /\ d \in Paths /\ Len(d) = Len(e) /\ Home(d) = Home(e)
                        /\ IF Under(at, e) THEN d = Dest(at, to, e) ELSE d = e
    OBVIOUS
  <2>1. CASE d \in DOMAIN fs /\ ~Under(at, d)
    BY <1>1, <2>1
  <2>2. ASSUME NEW e \in DOMAIN fs, Under(at, e), d = Dest(at, to, e)
        PROVE  d \in Paths /\ Len(d) = Len(e) /\ Home(d) = Home(e)
    BY <1>1, <1>4, <2>2, DestIs
  <2> QED
    BY <1>2, <2>1, <2>2 DEF Comes
<1>6. \A e \in DOMAIN fs : \E d \in DOMAIN fs' : Home(d) = Home(e)
  BY <1>2, <1>4 DEF Arrives, Stays
<1>7. ASSUME Past PROVE Past'
  <2> SUFFICES ASSUME NEW d \in DOMAIN fs', NEW i \in 1..Len(d) PROVE d[i][2] <= starts
    BY DEF Past
  <2>1. PICK e \in DOMAIN fs :
          /\ d \in Paths /\ Len(d) = Len(e)
          /\ IF Under(at, e) THEN d = Dest(at, to, e) ELSE d = e
    BY <1>5
  <2>2. e[i][2] <= starts
    BY <1>7, <2>1 DEF Past
  <2>3. CASE ~Under(at, e)
    BY <2>1, <2>2, <2>3
  <2>4. CASE Under(at, e)
    <3>1. d[i] = IF i <= Len(to) THEN to[i] ELSE e[i]
      BY <1>1, <2>1, <2>4, DestIs
    <3>2. CASE ~(i <= Len(to))
      BY <2>2, <3>1, <3>2
    <3>3. CASE i = Len(at)
      <4>1. d[i] = to[i] /\ to[i][2] \in {starts, Plain}
        BY <1>1, <3>1, <3>3
      <4> QED
        BY <4>1 DEF Plain
    <3>4. CASE i <= Len(to) /\ i # Len(at)
      <4>1. i \in 1..Len(at)
        BY <1>1, <3>4
      <4>2. d[i] = at[i]
        BY <1>3, <3>1, <3>4, <4>1
      <4> QED
        BY <1>7, <4>1, <4>2 DEF Past, Exists
    <3> QED
      BY <3>2, <3>3, <3>4
  <2> QED
    BY <2>3, <2>4
<1> QED
  BY <1>5, <1>6, <1>7

\* A stale entry is stale as long as the homes are the same.
LEMMA StaleKept ==
  ASSUME NEW p, IsStale(p), starts' = starts,
         \A e \in DOMAIN fs : ~Canonical(Home(e)) => \E d \in DOMAIN fs' : Home(d) = Home(e)
  PROVE  IsStale(p)'
<1>1. PICK e \in DOMAIN fs : Under(p, Home(e)) /\ ~Canonical(Home(e))
  BY DEF IsStale
<1>2. PICK d \in DOMAIN fs' : Home(d) = Home(e)
  BY <1>1
<1>3. Home(d)' = Home(d)
  BY DEF Home
<1> QED
  BY <1>1, <1>2, <1>3 DEF IsStale

\* A planned path that is captured keeps its mark at the end.
LEMMA PlaceMark ==
  ASSUME NEW held \in Seq(Paths), NEW p \in Paths, Canonical(p), starts \in Int
  PROVE  \A i \in 1..Len(p) : WhereIn(held, starts, p)[i][2] \in {starts, Plain}
<1> SUFFICES ASSUME NEW i \in 1..Len(p) PROVE WhereIn(held, starts, p)[i][2] \in {starts, Plain}
  OBVIOUS
<1>1. WhereIn(held, starts, p)[i] = <<p[i][1], starts>> \/ WhereIn(held, starts, p)[i] = p[i]
  BY WhereIs
<1>2. p[i][2] = Plain
  BY DEF Canonical
<1> QED
  BY <1>1, <1>2

\* What has its home below a planned path is found below the place of that path,
\* and the other way round.
LEMMA HomesBelow ==
  ASSUME NEW held \in Seq(Paths), NEW p \in Paths, Canonical(p), starts \in Int,
         NEW e \in Paths, WhereIn(held, starts, Home(e)) = e
  PROVE  Under(WhereIn(held, starts, p), e) <=> Under(p, Home(e))
<1>1. Home(WhereIn(held, starts, p)) = p
  BY HomeWhere
<1>2. WhereIn(held, starts, p) \in Paths /\ Home(e) \in Paths
  BY WhereIs, HomeIs
<1>3. Under(WhereIn(held, starts, p), e) => Under(p, Home(e))
  BY <1>1, <1>2, HomeUnder
<1>4. Under(p, Home(e)) => Under(WhereIn(held, starts, p), WhereIn(held, starts, Home(e)))
  BY <1>2, WhereUnder
<1> QED
  BY <1>3, <1>4

\* A capture keeps the account: what it moves it remembers, and what it does not
\* find is nowhere.
LEMMA CaptureAccounts ==
  ASSUME ArtifactInv, Accounts, server = "starting", UNCHANGED <<server, starts, referenced, late>>,
         NEW p, Unwanted(p), Capture(p)
  PROVE  Accounts'
<1>h. PICK held : held = sweep.held
  OBVIOUS
<1>a. PICK at : at = Where(p)
  OBVIOUS
<1>t. PICK to : to = Append(Front(at), <<at[Len(at)][1], starts>>)
  OBVIOUS
<1>1. /\ p \in Paths /\ at \in Paths /\ Len(at) = Len(p) /\ Len(p) \in 2..5 /\ Canonical(p)
      /\ at = WhereIn(held, starts, p) /\ starts \in Nat \ {0} /\ starts \in Int
      /\ \A i \in 1..Len(p) : at[i][1] = p[i][1]
      /\ Exists(at) => Shaped(at)
  BY <1>h, <1>a, CapturedPlace DEF ArtifactInv, Sweeping, Unwanted
<1>2. held \in Seq(Paths) /\ DOMAIN fs \subseteq Paths
  BY <1>h, TreePaths DEF ArtifactInv, Sweeping, Files
<1>3. /\ fs' = IF Exists(at) THEN Renamed(at, to) ELSE fs
      /\ sweep'.todo = sweep.todo \ {p}
      /\ sweep'.held = IF Exists(at) THEN Append(held, p) ELSE held
  BY <1>h, <1>a, <1>t DEF Capture, Last
<1>4. \A q : /\ Where(q)' = WhereIn(sweep'.held, starts, q) /\ Where(q) = WhereIn(held, starts, q)
             /\ Home(q)' = Home(q)
  BY <1>h DEF Where, WhereIn, Home
<1>5. Past /\ Placed /\ Accounted
  BY DEF Accounts
<1>6. ASSUME NEW e \in DOMAIN fs
      PROVE  /\ e \in Paths /\ Home(e) \in Paths /\ Len(Home(e)) = Len(e)
             /\ WhereIn(held, starts, Home(e)) = e
             /\ Under(at, e) <=> Under(p, Home(e))
  <2>1. e \in Paths /\ WhereIn(held, starts, Home(e)) = e
    BY <1>2, <1>4, <1>5 DEF Placed
  <2> QED
    BY <1>1, <1>2, <2>1, HomeIs, HomesBelow
<1>7. ASSUME ~Exists(at) PROVE Accounts'
  <2>1. fs' = fs /\ sweep'.held = held
    BY <1>3, <1>7, <1>h
  <2>2. Past'
    BY <1>5, <2>1 DEF Past
  <2>3. Placed'
    BY <1>4, <1>6, <2>1 DEF Placed
  <2>4. ASSUME NEW e \in DOMAIN fs, Canonical(Home(e)), Len(e) >= 3 PROVE Owed(Home(e))'
    <3> PICK q : q = Home(e)
      OBVIOUS
    <3>1. q # p
      BY <1>1, <1>6, <1>7 DEF Exists
    <3>2. Owed(q)
      BY <1>5, <2>4 DEF Accounted
    <3>3. IsStale(q) => IsStale(q)'
      BY <2>1, StaleKept
    <3>4. Owed(q)'
      BY <1>3, <1>h, <2>1, <3>1, <3>2, <3>3 DEF Owed
    <3>5. Home(e)' = q
      BY <1>4
    <3> QED
      BY <3>4, <3>5 DEF Owed, IsStale, IsPicture
  <2>5. Accounted'
    BY <1>4, <2>1, <2>4 DEF Accounted
  <2> QED
    BY <2>2, <2>3, <2>5 DEF Accounts
<1>8. ASSUME Exists(at) PROVE Accounts'
  <2>m. PICK more : more = Append(held, p)
    OBVIOUS
  <2>1. fs' = Renamed(at, to) /\ sweep'.held = more
    BY <1>3, <1>8, <2>m
  <2>2. Remarks(at, to) /\ to[Len(at)] = <<at[Len(at)][1], starts>>
    BY <1>1, <1>8, <1>t, Remarked
  <2>3. at[Len(at)][2] \in {starts, Plain} /\ to[Len(at)][2] \in {starts, Plain}
    <3>1. \A n \in 2..5 : n \in 1..n
      OBVIOUS
    <3>2. Len(at) \in 1..Len(p)
      BY <1>1, <3>1
    <3>3. at[Len(at)][2] \in {starts, Plain}
      BY <1>1, <1>2, <3>2, PlaceMark
    <3>4. to[Len(at)][2] = starts
      BY <2>2
    <3> QED
      BY <3>3, <3>4
  <2>4. /\ \A d \in DOMAIN fs' : \E e \in DOMAIN fs :
              /\ d \in Paths /\ Len(d) = Len(e) /\ Home(d) = Home(e)
              /\ IF Under(at, e) THEN d = Dest(at, to, e) ELSE d = e
        /\ \A e \in DOMAIN fs : \E d \in DOMAIN fs' : Home(d) = Home(e)
        /\ Past'
    <3>1. Files /\ Shaped(at) /\ Past /\ starts \in Nat \ {0} /\ starts' = starts
      BY <1>1, <1>5, <1>8 DEF ArtifactInv
    <3>2. Remarks(at, to) /\ fs' = Renamed(at, to)
      BY <2>1, <2>2
    <3> QED
      BY <1>8, <2>3, <3>1, <3>2, RenamedHomes
  <2>5. /\ more \in Seq(Paths) /\ Len(more) = Len(held) + 1 /\ Len(held) \in Nat
        /\ \A j \in 1..Len(held) : more[j] = held[j]
        /\ more[Len(held) + 1] = p
    BY <1>1, <1>2, <2>m, AppendProperties, LenProperties
  <2>6. Placed'
    <3> SUFFICES ASSUME NEW d \in DOMAIN fs' PROVE WhereIn(more, starts, Home(d)) = d
      BY <1>4, <2>1 DEF Placed
    <3>1. PICK e \in DOMAIN fs :
            /\ d \in Paths /\ Len(d) = Len(e) /\ Home(d) = Home(e)
            /\ IF Under(at, e) THEN d = Dest(at, to, e) ELSE d = e
      BY <2>4
    <3> PICK q : q = Home(e)
      OBVIOUS
    <3>2. /\ q \in Paths /\ Len(q) = Len(e) /\ e \in Paths /\ WhereIn(held, starts, q) = e
          /\ Under(at, e) <=> Under(p, q)
      BY <1>6
    <3>3. WhereIn(more, starts, q) \in Paths /\ Len(WhereIn(more, starts, q)) = Len(q)
      BY <1>1, <2>5, <3>2, WhereIs
    <3>4. ASSUME NEW i \in 1..Len(q) PROVE WhereIn(more, starts, q)[i] = d[i]
      <4>1. WhereIn(more, starts, q)[i] =
              IF i = Len(p) /\ Under(p, q) THEN <<q[i][1], starts>> ELSE e[i]
        BY <1>1, <1>2, <2>m, <3>2, WhereMore
      <4>2. CASE ~Under(at, e)
        BY <3>1, <3>2, <4>1, <4>2
      <4>3. CASE Under(at, e)
        <5>1. d[i] = IF i <= Len(to) THEN to[i] ELSE e[i]
          <6>1. at \in Paths /\ to \in Paths /\ Len(at) = Len(to) /\ e \in Paths
            BY <1>1, <2>2, <3>2 DEF Remarks
          <6>2. i \in 1..Len(e) /\ d = Dest(at, to, e)
            BY <3>1, <3>2, <4>3
          <6>3. Dest(at, to, e)[i] = IF i <= Len(to) THEN to[i] ELSE e[i]
            BY <4>3, <6>1, <6>2, DestIs
          <6> QED
            BY <6>2, <6>3
        <5>2. CASE i = Len(p)
          <6>1. e[i] = at[i] /\ q[i][1] = e[i][1]
            <7>1. q[i][1] = e[i][1]
              BY <3>2, HomeNames
            <7>2. i \in 1..Len(at)
              BY <1>1, <5>2
            <7> QED
              BY <4>3, <7>1, <7>2 DEF Under
          <6>2. d[i] = <<at[i][1], starts>>
            <7>1. Len(to) = Len(p) /\ Len(p) \in Nat
              BY <1>1, <2>2, PathIs DEF Remarks
            <7>2. i <= Len(to)
              BY <5>2, <7>1
            <7> QED
              BY <1>1, <2>2, <5>1, <5>2, <7>2
          <6> QED
            BY <3>2, <4>1, <4>3, <5>2, <6>1, <6>2
        <5>3. CASE i # Len(p) /\ i <= Len(to)
          <6>1. i \in 1..Len(at) /\ i # Len(at)
            BY <1>1, <2>2, <5>3 DEF Remarks
          <6>2. to[i] = at[i] /\ e[i] = at[i]
            BY <2>2, <4>3, <6>1 DEF Remarks, Under
          <6> QED
            BY <4>1, <5>1, <5>3, <6>2
        <5>4. CASE ~(i <= Len(to))
          <6>1. i # Len(p)
            BY <1>1, <2>2, <5>4 DEF Remarks
          <6> QED
            BY <4>1, <5>1, <5>4, <6>1
        <5> QED
          BY <5>2, <5>3, <5>4
      <4> QED
        BY <4>2, <4>3
    <3>5. WhereIn(more, starts, q) = d
      BY <3>1, <3>2, <3>3, <3>4, SamePath
    <3> QED
      BY <3>1, <3>5
  <2>7. ASSUME NEW d \in DOMAIN fs', Canonical(Home(d)), Len(d) >= 3 PROVE Owed(Home(d))'
    <3>1. PICK e \in DOMAIN fs : Len(d) = Len(e) /\ Home(d) = Home(e)
      BY <2>4
    <3> PICK q : q = Home(d)
      OBVIOUS
    <3>2. Owed(q)
      BY <1>5, <2>7, <3>1 DEF Accounted
    <3>3. IsStale(q) => IsStale(q)'
      BY <2>4, StaleKept
    <3>4. (q \in sweep.todo \/ \E k \in 1..Len(held) : held[k] = q)
            => q \in sweep'.todo \/ \E k \in 1..Len(more) : more[k] = q
      <4>1. Len(held) + 1 \in 1..Len(more) /\ 1..Len(held) \subseteq 1..Len(more)
        BY <2>5
      <4> QED
        BY <1>3, <2>5, <4>1
    <3>5. Owed(q)'
      BY <1>h, <2>1, <3>2, <3>3, <3>4 DEF Owed
    <3>6. Home(d)' = q
      BY <1>4
    <3> QED
      BY <3>5, <3>6 DEF Owed, IsStale, IsPicture
  <2>8. Accounted'
    BY <1>4, <2>7 DEF Accounted
  <2> QED
    BY <2>4, <2>6, <2>8 DEF Accounts
<1> QED
  BY <1>7, <1>8

\* Below the entry whose removal ends there is one that is stale, or a child that
\* this start owes.
LEMMA ChildOf ==
  ASSUME Tree, NEW at, Shaped(at), Len(at) >= 3, Below(at) # {}
  PROVE  \E c \in DOMAIN fs : Under(at, c) /\ Len(c) = Len(at) + 1
<1>1. DOMAIN fs \subseteq Paths /\ at \in Paths /\ Len(at) \in Nat
  BY TreePaths, PathIs DEF Shaped
<1>2. PICK e \in DOMAIN fs : Under(at, e) /\ Len(at) < Len(e)
  BY <1>1, BelowIs
<1>3. e \in Paths /\ Len(e) \in 2..5 /\ Len(e) \in Nat
  BY <1>2, PathIs DEF Tree, Shaped
<1>4. CASE Len(e) = Len(at) + 1
  BY <1>2, <1>4
<1>5. CASE Len(e) # Len(at) + 1
  <2>1. Len(at) = 3 /\ Len(e) = 5
    <3>1. \A m, n \in 2..5 : m >= 3 /\ m < n /\ n # m + 1 => m = 3 /\ n = 5
      OBVIOUS
    <3>2. Len(at) \in 2..5
      BY DEF Shaped
    <3> QED
      BY <1>2, <1>3, <1>5, <3>1, <3>2
  <2>2. Front(e) \in DOMAIN fs
    <3>1. Len(e) > 2
      BY <2>1
    <3> QED
      BY <1>2, <3>1 DEF Tree, Exists
  <2>3. Len(Front(e)) = 4 /\ \A i \in 1..4 : Front(e)[i] = e[i]
    <3>1. Len(e) > 0 /\ Len(e) - 1 = 4
      BY <2>1
    <3> QED
      BY <1>3, <3>1, FrontIs
  <2>4. Under(at, Front(e))
    BY <1>2, <2>1, <2>3 DEF Under
  <2> QED
    BY <2>1, <2>2, <2>3, <2>4
<1> QED
  BY <1>4, <1>5

\* What gets its plain name back is out of the captured paths.
LEMMA WhereLess ==
  ASSUME NEW less \in Seq(Paths), NEW n \in Int, NEW p \in Paths, NEW q \in Paths,
         \A j \in 1..Len(less) : Len(less[j]) < Len(p)
  PROVE  \A i \in 1..Len(q) :
           WhereIn(less, n, q)[i] =
             IF i = Len(p) /\ Under(p, q) THEN q[i] ELSE WhereIn(Append(less, p), n, q)[i]
<1> SUFFICES ASSUME NEW i \in 1..Len(q)
             PROVE  WhereIn(less, n, q)[i] =
                      IF i = Len(p) /\ Under(p, q) THEN q[i] ELSE WhereIn(Append(less, p), n, q)[i]
  OBVIOUS
<1>1. WhereIn(Append(less, p), n, q)[i] =
        IF i = Len(p) /\ Under(p, q) THEN <<q[i][1], n>> ELSE WhereIn(less, n, q)[i]
  BY WhereMore
<1>2. ASSUME i = Len(p) PROVE WhereIn(less, n, q)[i] = q[i]
  <2>1. Len(p) \in Nat
    BY PathIs
  <2>2. \A j \in 1..Len(less) : Len(less[j]) # i
    BY <1>2, <2>1
  <2>3. WhereIn(less, n, q)[i] =
          IF \E j \in 1..Len(less) : Len(less[j]) = i /\ Under(less[j], q) THEN <<q[i][1], n>> ELSE q[i]
    BY WhereIs
  <2> QED
    BY <2>2, <2>3
<1> QED
  BY <1>1, <1>2

\* The end of a removal keeps the account: what is gone has nothing below it, and
\* what stays has a reason below it.
LEMMA FinishAccounts ==
  ASSUME ArtifactInv, Accounts, server = "starting", UNCHANGED <<server, starts, referenced, late>>,
         Finish
  PROVE  Accounts'
<1>p. PICK p : p = Last(sweep.held)
  OBVIOUS
<1>a. PICK at : at = Where(p)
  OBVIOUS
<1>h. PICK held : held = sweep.held
  OBVIOUS
<1>l. PICK less : less = Front(held)
  OBVIOUS
<1>1. /\ held # <<>> /\ Due = {} /\ p = Last(held)
      /\ fs' = IF Below(at) = {} THEN Without(at) ELSE Renamed(at, Append(Front(at), Last(p)))
      /\ sweep'.todo = sweep.todo /\ sweep'.held = less
  BY <1>p, <1>a, <1>h, <1>l, FinishIs
<1>2. /\ Len(held) \in Nat \ {0} /\ p = held[Len(held)] /\ p \in Paths
      /\ less \in Seq(Paths) /\ Len(less) = Len(held) - 1
      /\ \A i \in 1..(Len(held) - 1) : less[i] = held[i]
      /\ held = Append(less, p) /\ held \in Seq(Paths)
  BY <1>p, <1>a, <1>h, <1>l, FinishIs DEF ArtifactInv, Sweeping
<1>3. Canonical(p) /\ Exists(at) /\ Shaped(p)
  BY <1>p, <1>a, <1>h, <1>l, FinishIs DEF Unwanted
<1>4. /\ at \in Paths /\ Len(at) = Len(p) /\ Len(p) \in 2..5
      /\ starts \in Nat \ {0} /\ starts \in Int
      /\ \A i \in 1..Len(p) : at[i][1] = p[i][1]
      /\ Shaped(at)
  BY <1>p, <1>a, <1>h, <1>l, FinishIs
<1>5. \A j \in 1..Len(less) : Len(less[j]) < Len(p)
  BY <1>p, <1>a, <1>h, <1>l, FinishIs
<1>6. \A q : /\ Where(q)' = WhereIn(less, starts, q) /\ Where(q) = WhereIn(held, starts, q)
             /\ Home(q)' = Home(q)
  BY <1>1, <1>h DEF Where, WhereIn, Home
<1>7. Past /\ Placed /\ Accounted /\ Files /\ DOMAIN fs \subseteq Paths
  BY TreePaths DEF Accounts, ArtifactInv, Files
<1>8. ASSUME NEW e \in DOMAIN fs
      PROVE  /\ e \in Paths /\ Home(e) \in Paths /\ Len(Home(e)) = Len(e)
             /\ WhereIn(held, starts, Home(e)) = e
             /\ Under(at, e) <=> Under(p, Home(e))
  <2>1. e \in Paths /\ WhereIn(held, starts, Home(e)) = e
    BY <1>6, <1>7 DEF Placed
  <2>2. at = WhereIn(held, starts, p)
    BY <1>6, <1>a
  <2> QED
    BY <1>2, <1>3, <1>4, <2>1, <2>2, HomeIs, HomesBelow
<1>9. Home(at) = p
  BY <1>2, <1>3, <1>4, <1>6, <1>a, HomeWhere
<1>10. \A q : (\E k \in 1..Len(held) : held[k] = q) => q = p \/ \E k \in 1..Len(less) : less[k] = q
  <2>1. \A k \in 1..Len(held) : k = Len(held) \/ (k \in 1..Len(less) /\ k \in 1..(Len(held) - 1))
    BY <1>2
  <2> QED
    BY <1>2, <2>1
<1>11. ASSUME NEW d \in DOMAIN fs', NEW e \in DOMAIN fs, Home(d) = Home(e), Len(d) = Len(e),
              Canonical(Home(d)), Len(d) >= 3,
              Home(d) # p \/ (IF IsPicture(p) THEN FALSE ELSE p[3][1] \in late \/ IsStale(p)),
              \A x \in DOMAIN fs : ~Canonical(Home(x)) => \E y \in DOMAIN fs' : Home(y) = Home(x)
       PROVE  Owed(Home(d))'
  <2> PICK q : q = Home(d)
    OBVIOUS
  <2>1. Owed(q)
    BY <1>7, <1>11 DEF Accounted
  <2>2. IsStale(q) => IsStale(q)'
    BY <1>11, StaleKept
  <2>3. \/ q \in sweep.todo \/ \E k \in 1..Len(less) : less[k] = q
        \/ IF IsPicture(q) THEN q[3][1] \in referenced ELSE q[3][1] \in late \/ IsStale(q)
    BY <1>10, <1>11, <1>h, <2>1 DEF Owed
  <2>4. Owed(q)'
    BY <1>1, <2>2, <2>3 DEF Owed
  <2>5. Home(d)' = q
    BY <1>6
  <2> QED
    BY <2>4, <2>5 DEF Owed, IsStale, IsPicture
<1>w. ASSUME NEW q \in Paths, NEW i \in 1..Len(q)
      PROVE  WhereIn(less, starts, q)[i] =
               IF i = Len(p) /\ Under(p, q) THEN q[i] ELSE WhereIn(held, starts, q)[i]
  <2>1. less \in Seq(Paths) /\ p \in Paths /\ starts \in Int /\ held = Append(less, p)
    BY <1>2, <1>4
  <2>2. WhereIn(less, starts, q)[i] =
          IF i = Len(p) /\ Under(p, q) THEN q[i] ELSE WhereIn(Append(less, p), starts, q)[i]
    BY <1>5, <2>1, WhereLess
  <2> QED
    BY <2>1, <2>2
<1>12. ASSUME Below(at) = {} PROVE Accounts'
  <2>1. DOMAIN fs' = DOMAIN fs \ {at}
    BY <1>1, <1>12, WithoutIs
  <2>2. Past'
    BY <1>7, <2>1 DEF Past
  <2>3. ASSUME NEW e \in DOMAIN fs' PROVE ~Under(at, e)
    <3>1. e \in DOMAIN fs /\ e # at /\ e \in Paths /\ Len(e) \in Nat /\ Len(at) \in Nat
      BY <1>4, <1>7, <2>1, PathIs
    <3>2. ~(Under(at, e) /\ Len(at) < Len(e))
      BY <1>4, <1>7, <1>12, <3>1, BelowIs
    <3>3. Under(at, e) /\ Len(at) = Len(e) => e = at
      BY <1>4, <3>1, SamePath DEF Under
    <3>4. Under(at, e) => Len(at) = Len(e)
      BY <3>1, <3>2 DEF Under
    <3> QED
      BY <3>1, <3>3, <3>4
  <2>4. Placed'
    <3> SUFFICES ASSUME NEW e \in DOMAIN fs' PROVE WhereIn(less, starts, Home(e)) = e
      BY <1>6 DEF Placed
    <3> PICK q : q = Home(e)
      OBVIOUS
    <3>1. q \in Paths /\ Len(q) = Len(e) /\ e \in Paths /\ WhereIn(held, starts, q) = e /\ ~Under(p, q)
      BY <1>8, <2>1, <2>3
    <3>2. \A i \in 1..Len(q) : WhereIn(less, starts, q)[i] = e[i]
      BY <1>w, <3>1
    <3>3. WhereIn(less, starts, q) \in Paths /\ Len(WhereIn(less, starts, q)) = Len(q)
      BY <1>2, <1>4, <3>1, WhereIs
    <3>4. WhereIn(less, starts, q) = e
      BY <3>1, <3>2, <3>3, SamePath
    <3> QED
      BY <3>4
  <2>5. ASSUME NEW d \in DOMAIN fs', Canonical(Home(d)), Len(d) >= 3 PROVE Owed(Home(d))'
    <3>1. d \in DOMAIN fs /\ Home(d) # p
      <4>1. Under(p, p)
        BY <1>2, PathIs DEF Under
      <4> QED
        BY <1>8, <2>1, <2>3, <4>1
    <3>2. \A x \in DOMAIN fs : ~Canonical(Home(x)) => \E y \in DOMAIN fs' : Home(y) = Home(x)
      BY <1>3, <1>9, <2>1
    <3> QED
      BY <1>11, <2>5, <3>1, <3>2
  <2>6. Accounted'
    BY <1>6, <2>5 DEF Accounted
  <2> QED
    BY <2>2, <2>4, <2>6 DEF Accounts
<1>13. ASSUME Below(at) # {} PROVE Accounts'
  <2>t. PICK to : to = Append(Front(at), <<at[Len(at)][1], Plain>>)
    OBVIOUS
  <2>0. Len(p) \in 1..Len(p) /\ Len(p) \in Nat
    <3>1. \A n \in 2..5 : n \in 1..n /\ n \in Nat
      OBVIOUS
    <3> QED
      BY <1>4, <3>1
  <2>1. Last(p) = <<at[Len(at)][1], Plain>> /\ p[Len(p)] = <<at[Len(at)][1], Plain>>
    <3>1. p[Len(p)] \in Names \X Int /\ p[Len(p)][2] = Plain
      BY <1>2, <1>3, <2>0, PathIs DEF Canonical
    <3>2. Last(p) = p[Len(p)] /\ p[Len(p)] = <<p[Len(p)][1], p[Len(p)][2]>>
      BY <3>1 DEF Last
    <3> QED
      BY <1>4, <2>0, <3>1, <3>2
  <2>2. fs' = Renamed(at, to)
    BY <1>1, <1>13, <2>1, <2>t
  <2>3. Remarks(at, to) /\ to[Len(at)] = <<at[Len(at)][1], Plain>>
    <3>1. Plain \in Int
      BY DEF Plain
    <3> QED
      BY <1>4, <2>t, <3>1, Remarked
  <2>4. at[Len(at)][2] \in {starts, Plain} /\ to[Len(at)][2] \in {starts, Plain}
    <3>1. at = WhereIn(held, starts, p)
      BY <1>6, <1>a
    <3>2. at[Len(at)][2] \in {starts, Plain}
      BY <1>2, <1>3, <1>4, <2>0, <3>1, PlaceMark
    <3>3. to[Len(at)][2] = Plain
      BY <2>3
    <3> QED
      BY <3>2, <3>3
  <2>5. /\ \A d \in DOMAIN fs' : \E e \in DOMAIN fs :
              /\ d \in Paths /\ Len(d) = Len(e) /\ Home(d) = Home(e)
              /\ IF Under(at, e) THEN d = Dest(at, to, e) ELSE d = e
        /\ \A e \in DOMAIN fs : \E d \in DOMAIN fs' : Home(d) = Home(e)
        /\ Past'
    <3>1. starts' = starts
      OBVIOUS
    <3> QED
      BY <1>3, <1>4, <1>7, <2>2, <2>3, <2>4, <3>1, RenamedHomes
  <2>6. Placed'
    <3> SUFFICES ASSUME NEW d \in DOMAIN fs' PROVE WhereIn(less, starts, Home(d)) = d
      BY <1>6 DEF Placed
    <3>1. PICK e \in DOMAIN fs :
            /\ d \in Paths /\ Len(d) = Len(e) /\ Home(d) = Home(e)
            /\ IF Under(at, e) THEN d = Dest(at, to, e) ELSE d = e
      BY <2>5
    <3> PICK q : q = Home(e)
      OBVIOUS
    <3>2. /\ q \in Paths /\ Len(q) = Len(e) /\ e \in Paths /\ WhereIn(held, starts, q) = e
          /\ Under(at, e) <=> Under(p, q)
      BY <1>8
    <3>3. WhereIn(less, starts, q) \in Paths /\ Len(WhereIn(less, starts, q)) = Len(q)
      BY <1>2, <1>4, <3>2, WhereIs
    <3>4. ASSUME NEW i \in 1..Len(q) PROVE WhereIn(less, starts, q)[i] = d[i]
      <4>1. WhereIn(less, starts, q)[i] = IF i = Len(p) /\ Under(p, q) THEN q[i] ELSE e[i]
        BY <1>w, <3>2
      <4>2. CASE ~Under(at, e)
        BY <3>1, <3>2, <4>1, <4>2
      <4>3. CASE Under(at, e)
        <5>1. d[i] = IF i <= Len(to) THEN to[i] ELSE e[i]
          <6>1. at \in Paths /\ to \in Paths /\ Len(at) = Len(to) /\ e \in Paths
            BY <1>4, <2>3, <3>2 DEF Remarks
          <6>2. i \in 1..Len(e) /\ d = Dest(at, to, e)
            BY <3>1, <3>2, <4>3
          <6>3. Dest(at, to, e)[i] = IF i <= Len(to) THEN to[i] ELSE e[i]
            BY <4>3, <6>1, <6>2, DestIs
          <6> QED
            BY <6>2, <6>3
        <5>2. CASE i = Len(p)
          <6>1. q[i] = p[i]
            BY <2>0, <3>2, <4>3, <5>2 DEF Under
          <6>2. Len(to) = Len(p) /\ i <= Len(to)
            BY <1>4, <2>0, <2>3, <5>2 DEF Remarks
          <6>3. d[i] = p[i]
            BY <1>4, <2>1, <2>3, <5>1, <5>2, <6>2
          <6> QED
            BY <3>2, <4>1, <4>3, <5>2, <6>1, <6>3
        <5>3. CASE i # Len(p) /\ i <= Len(to)
          <6>1. i \in 1..Len(at) /\ i # Len(at)
            BY <1>4, <2>3, <5>3 DEF Remarks
          <6>2. to[i] = at[i] /\ e[i] = at[i]
            BY <2>3, <4>3, <6>1 DEF Remarks, Under
          <6> QED
            BY <4>1, <5>1, <5>3, <6>2
        <5>4. CASE ~(i <= Len(to))
          <6>1. i # Len(p)
            BY <1>4, <2>0, <2>3, <5>4 DEF Remarks
          <6> QED
            BY <4>1, <5>1, <5>4, <6>1
        <5> QED
          BY <5>2, <5>3, <5>4
      <4> QED
        BY <4>2, <4>3
    <3>5. WhereIn(less, starts, q) = d
      BY <3>1, <3>2, <3>3, <3>4, SamePath
    <3> QED
      BY <3>1, <3>5
  <2>7. Len(p) >= 3 => IF IsPicture(p) THEN FALSE ELSE p[3][1] \in late \/ IsStale(p)
    <3> SUFFICES ASSUME Len(p) >= 3 PROVE ~IsPicture(p) /\ (p[3][1] \in late \/ IsStale(p))
      OBVIOUS
    <3>1. PICK c \in DOMAIN fs : Under(at, c) /\ Len(c) = Len(p) + 1
      BY <1>4, <1>7, <1>13, ChildOf DEF Files
    <3> PICK q : q = Home(c)
      OBVIOUS
    <3>2. q \in Paths /\ Len(q) = Len(p) + 1 /\ Under(p, q) /\ c \in Paths /\ Shaped(c)
      BY <1>7, <1>8, <3>1 DEF Files, Tree
    <3>3. ~IsPicture(p) /\ ~IsPicture(q)
      <4>1. p[1][1] = "private"
        <5>1. 1 \in 1..Len(p) /\ 1 \in 1..Len(c)
          BY <2>0, <3>1
        <5>2. c[1][1] = p[1][1]
          BY <1>4, <3>1, <5>1 DEF Under
        <5>3. c[1][1] # "public" /\ c[1][1] \in {"private", "public"}
          BY <2>0, <3>1, <3>2 DEF Shaped
        <5> QED
          BY <5>2, <5>3
      <4> QED
        BY <2>0, <3>2, <4>1 DEF IsPicture
    <3>4. CASE ~Canonical(q)
      BY <3>2, <3>3, <3>4 DEF IsStale
    <3>5. CASE Canonical(q)
      <4>1. Owed(q)
        BY <1>7, <2>0, <3>1, <3>5 DEF Accounted
      <4>2. q \notin sweep.todo
        <5>1. Front(q) = p
          <6>1. Len(q) > 0 /\ Len(q) - 1 = Len(p) /\ Len(q) \in Nat
            BY <2>0, <3>2
          <6>2. Front(q) \in Paths /\ Len(Front(q)) = Len(p) /\ \A i \in 1..Len(p) : Front(q)[i] = q[i]
            BY <3>2, <6>1, FrontIs
          <6>3. \A i \in 1..Len(p) : Front(q)[i] = p[i]
            BY <3>2, <6>2 DEF Under
          <6> QED
            BY <1>2, <6>2, <6>3, SamePath
        <5>2. sweep.tidy = <<>>
          BY <1>1, <1>h DEF ArtifactInv, Sweeping
        <5>3. Len(q) > 3
          BY <2>0, <3>2
        <5>4. Due = {x \in sweep.todo : Len(x) > 3 /\ Front(x) = Last(sweep.held)}
          BY <1>1, <1>h, <5>2 DEF Due
        <5> QED
          BY <1>1, <1>p, <5>1, <5>3, <5>4
      <4>3. ~\E k \in 1..Len(held) : held[k] = q
        <5>1. q # p
          BY <2>0, <3>2
        <5>2. ~\E k \in 1..Len(less) : less[k] = q
          BY <1>5, <2>0, <3>2
        <5> QED
          BY <1>10, <5>1, <5>2
      <4>4. q[3][1] \in late \/ IsStale(q)
        BY <1>h, <3>3, <4>1, <4>2, <4>3 DEF Owed
      <4>5. q[3] = p[3]
        <5>1. 3 \in 1..Len(p)
          BY <2>0
        <5> QED
          BY <3>2, <5>1 DEF Under
      <4>6. IsStale(q) => IsStale(p)
        <5>1. ASSUME NEW x \in DOMAIN fs, Under(q, Home(x)) PROVE Under(p, Home(x))
          <6>1. Len(Home(x)) \in Nat
            BY <1>8, PathIs
          <6>2. \A i \in 1..Len(p) : i \in 1..Len(q)
            BY <2>0, <3>2
          <6> QED
            BY <2>0, <3>2, <5>1, <6>1, <6>2 DEF Under
        <5> QED
          BY <5>1 DEF IsStale
      <4> QED
        BY <3>3, <4>4, <4>5, <4>6
    <3> QED
      BY <3>4, <3>5
  <2>8. ASSUME NEW d \in DOMAIN fs', Canonical(Home(d)), Len(d) >= 3 PROVE Owed(Home(d))'
    <3>1. PICK e \in DOMAIN fs : Len(d) = Len(e) /\ Home(d) = Home(e)
      BY <2>5
    <3>2. Home(d) = p => Len(p) >= 3
      BY <1>8, <2>8, <3>1
    <3>3. Home(d) # p \/ (IF IsPicture(p) THEN FALSE ELSE p[3][1] \in late \/ IsStale(p))
      BY <2>7, <3>2
    <3>4. \A x \in DOMAIN fs : ~Canonical(Home(x)) => \E y \in DOMAIN fs' : Home(y) = Home(x)
      BY <2>5
    <3> QED
      BY <1>11, <2>8, <3>1, <3>3, <3>4
  <2>9. Accounted'
    BY <1>6, <2>8 DEF Accounted
  <2> QED
    BY <2>5, <2>6, <2>9 DEF Accounts
<1> QED
  BY <1>12, <1>13

\* A step of a server that is up, and a crash, use no quarantine name.
LEMMA PastKept ==
  ASSUME ArtifactInv, Past, starts' = starts, server' # "starting",
         \A p \in DOMAIN fs' : p \in DOMAIN fs \/ (\A i \in 1..Len(p) : p[i][2] \in {Plain, Temp})
  PROVE  Accounts'
<1>1. starts \in Nat \ {0}
  BY StartsAssumption DEF ArtifactInv, Kinds
<1>2. Past'
  <2> SUFFICES ASSUME NEW p \in DOMAIN fs', NEW i \in 1..Len(p) PROVE p[i][2] <= starts
    BY DEF Past
  <2>1. CASE p \in DOMAIN fs
    BY <2>1 DEF Past
  <2>2. CASE p[i][2] \in {Plain, Temp}
    BY <1>1, <2>2 DEF Plain, Temp
  <2> QED
    BY <2>1, <2>2
<1> QED
  BY <1>2 DEF Accounts

\* One more component.
LEMMA AppendMark ==
  ASSUME NEW p \in Paths, NEW c \in Names \X Int, NEW marks, c[2] \in marks,
         \A i \in 1..Len(p) : p[i][2] \in marks
  PROVE  \A i \in 1..Len(Append(p, c)) : Append(p, c)[i][2] \in marks
<1> DEFINE q == Append(p, c)
<1>1. Len(q) = Len(p) + 1 /\ Len(p) \in Nat /\ (\A i \in 1..Len(p) : q[i] = p[i]) /\ q[Len(p) + 1] = c
  BY AppendIs, PathIs
<1> HIDE DEF q
<1>2. \A i \in 1..Len(q) : i \in 1..Len(p) \/ i = Len(p) + 1
  BY <1>1
<1>3. \A i \in 1..Len(q) : q[i][2] \in marks
  BY <1>1, <1>2
<1> QED
  BY <1>3 DEF q

\* The places have no quarantine names.
LEMMA PlaceMarks ==
  ASSUME NEW a \in Attempts
  PROVE  /\ \A p \in {Draft(a), Output(a), Workspace(a), Private(a), Final(a), Public(a)} :
              Shaped(p) /\ Canonical(p)
         /\ Shaped(Temporary(a)) /\ \A i \in 1..Len(Temporary(a)) : Temporary(a)[i][2] \in {Plain, Temp}
<1>1. /\ <<a, Plain>> \in Names \X Int /\ <<a, Temp>> \in Names \X Int
      /\ <<"output", Plain>> \in Names \X Int /\ <<"generated.png", Plain>> \in Names \X Int
  BY DEF Names, Plain, Temp
<1>2. ASSUME NEW p \in Paths, NEW c \in Names \X Int, c[2] = Plain, Canonical(p)
      PROVE  Canonical(Append(p, c))
  <2>1. \A i \in 1..Len(p) : p[i][2] \in {Plain}
    BY <1>2 DEF Canonical
  <2>2. \A i \in 1..Len(Append(p, c)) : Append(p, c)[i][2] \in {Plain}
    BY <1>2, <2>1, AppendMark
  <2> QED
    BY <2>2 DEF Canonical
<1>3. Canonical(Private(a)) /\ Canonical(Public(a))
  <2>1. \A i \in 1..2 : i = 1 \/ i = 2
    OBVIOUS
  <2> QED
    BY <2>1, RootPlaces DEF Canonical
<1>4. /\ Shaped(Draft(a)) /\ Shaped(Output(a)) /\ Shaped(Workspace(a)) /\ Shaped(Private(a))
      /\ Shaped(Final(a)) /\ Shaped(Public(a)) /\ Shaped(Temporary(a))
  BY WorkspacePlaces, PicturePlaces
<1>5. \A p : Shaped(p) => p \in Paths
  BY DEF Shaped
<1>6. Canonical(Workspace(a)) /\ Canonical(Final(a))
  BY <1>1, <1>2, <1>3, <1>4, <1>5 DEF Workspace, Final
<1>7. Canonical(Output(a))
  BY <1>1, <1>2, <1>4, <1>5, <1>6 DEF Output
<1>8. Canonical(Draft(a))
  BY <1>1, <1>2, <1>4, <1>5, <1>7 DEF Draft
<1>9. \A i \in 1..Len(Temporary(a)) : Temporary(a)[i][2] \in {Plain, Temp}
  <2>1. Public(a) \in Paths /\ \A i \in 1..Len(Public(a)) : Public(a)[i][2] \in {Plain, Temp}
    BY <1>3, <1>4, <1>5 DEF Canonical
  <2>2. <<a, Temp>>[2] \in {Plain, Temp}
    OBVIOUS
  <2> QED
    BY <1>1, <2>1, <2>2, AppendMark DEF Temporary
<1> QED
  BY <1>3, <1>4, <1>6, <1>7, <1>8, <1>9

\* The agent of a dead server writes during the reconciliation: its attempt is late.
LEMMA DrawAccounts ==
  ASSUME ArtifactInv, Accounts, NEW a \in Attempts, Draw(a)
  PROVE  Accounts'
<1>d. PICK d : d = Draft(a)
  OBVIOUS
<1>1. /\ \E file \in Drafts : fs' = With(d, file)
      /\ UNCHANGED <<server, starts, referenced, sweep>> /\ late' = late \cup {a}
      /\ Exists(Output(a))
  BY <1>d DEF Draw
<1>2. DOMAIN fs' = DOMAIN fs \cup {d}
  BY <1>1, WithIs
<1>3. /\ Shaped(d) /\ Canonical(d) /\ Shaped(Output(a)) /\ Canonical(Output(a))
      /\ Front(d) = Output(a) /\ Len(d) = 5 /\ Len(Output(a)) = 4 /\ d[3] = <<a, Plain>>
  BY <1>d, PlaceMarks, WorkspacePlaces
<1>4. d \in Paths /\ Output(a) \in Paths /\ starts \in Nat \ {0} /\ starts \in Int /\ starts # Plain
      /\ DOMAIN fs \subseteq Paths
  BY <1>3, StartsAssumption, TreePaths DEF Shaped, ArtifactInv, Kinds, Files, Plain
<1>5. CASE server # "starting"
  <2>1. \A p \in DOMAIN fs' : p \in DOMAIN fs \/ (\A i \in 1..Len(p) : p[i][2] \in {Plain, Temp})
    BY <1>2, <1>3 DEF Canonical
  <2> QED
    BY <1>1, <1>5, <2>1, PastKept DEF Accounts
<1>6. CASE server = "starting"
  <2>1. Past /\ Placed /\ Accounted
    BY <1>6 DEF Accounts
  <2>h. PICK held : held = sweep.held
    OBVIOUS
  <2>2. /\ held \in Seq(Paths) /\ Len(held) \in Nat
        /\ \A k \in 1..Len(held) : held[k] \in Paths /\ Len(held[k]) \in Nat
        /\ \A k \in 2..Len(held) : held[k - 1] = Front(held[k])
        /\ \/ \A k \in 1..Len(held) : Len(held[k]) = k + 2
           \/ Len(held) = 1 /\ Len(held[1]) = 2
    BY <2>h, ElementOfSeq, LenProperties, PathIs DEF ArtifactInv, Sweeping
  <2>k. ASSUME NEW k \in 1..Len(held)
        PROVE  /\ k \in Nat /\ Len(held[k]) \in Nat /\ Len(held[k]) > 0
               /\ Len(held[k]) = 5 => k = 3
    <3>1. k \in Nat /\ Len(held[k]) \in Nat /\ (Len(held) = 1 => k = 1)
      BY <2>2
    <3>2. CASE \A i \in 1..Len(held) : Len(held[i]) = i + 2
      <4>1. Len(held[k]) = k + 2
        BY <3>2
      <4> QED
        BY <3>1, <4>1
    <3>3. CASE Len(held) = 1 /\ Len(held[1]) = 2
      <4>1. Len(held[k]) = 2
        BY <3>1, <3>3
      <4> QED
        BY <3>1, <4>1
    <3> QED
      BY <2>2, <3>2, <3>3
  <2>3. \A q : /\ Where(q)' = WhereIn(held, starts, q) /\ Where(q) = WhereIn(held, starts, q)
               /\ Home(q)' = Home(q)
    BY <1>1, <2>h DEF Where, WhereIn, Home
  <2>4. Past'
    <3>1. \A i \in 1..Len(d) : d[i][2] <= starts
      BY <1>3, <1>4 DEF Canonical, Plain
    <3> QED
      BY <1>1, <1>2, <2>1, <3>1 DEF Past
  <2>5. ASSUME NEW q \in Paths, Canonical(q) PROVE Home(q) = q
    <3>1. \A i \in 1..Len(q) : Home(q)[i] = q[i]
      <4> SUFFICES ASSUME NEW i \in 1..Len(q) PROVE Home(q)[i] = q[i]
        OBVIOUS
      <4>1. q[i][2] # starts
        BY <1>4, <2>5 DEF Canonical
      <4>2. Home(q)[i] = IF q[i][2] = starts THEN <<q[i][1], Plain>> ELSE q[i]
        BY HomeIs
      <4> QED
        BY <4>1, <4>2
    <3>2. Home(q) \in Paths /\ Len(Home(q)) = Len(q)
      BY HomeIs
    <3> QED
      BY <3>1, <3>2, SamePath
  <2>6. ASSUME NEW k \in 1..Len(held) PROVE ~Under(held[k], Output(a))
    <3>1. WhereIn(held, starts, Output(a)) = Output(a)
      BY <1>1, <1>3, <1>4, <2>1, <2>3, <2>5 DEF Placed, Exists
    <3> SUFFICES ASSUME Under(held[k], Output(a)) PROVE FALSE
      OBVIOUS
    <3>2. Len(held[k]) \in 1..Len(Output(a))
      <4>1. Len(held[k]) \in Nat /\ Len(held[k]) > 0 /\ Len(held[k]) <= 4
        BY <1>3, <2>k DEF Under
      <4>2. \A n \in Nat : n > 0 /\ n <= 4 => n \in 1..4
        OBVIOUS
      <4>3. Len(held[k]) \in 1..4
        BY <4>1, <4>2
      <4> QED
        BY <1>3, <4>3
    <3>3. WhereIn(held, starts, Output(a))[Len(held[k])] = <<Output(a)[Len(held[k])][1], starts>>
      <4>1. \A i \in 1..Len(Output(a)) : WhereIn(held, starts, Output(a))[i] =
              IF \E j \in 1..Len(held) : Len(held[j]) = i /\ Under(held[j], Output(a))
              THEN <<Output(a)[i][1], starts>> ELSE Output(a)[i]
        <5>1. held \in Seq(Paths) /\ starts \in Int /\ Output(a) \in Paths
          BY <1>4, <2>2
        <5> QED
          BY <5>1, WhereIs
      <4> QED
        BY <3>2, <4>1
    <3>4. Output(a)[Len(held[k])][2] = starts
      BY <3>1, <3>3
    <3> QED
      BY <1>3, <1>4, <3>2, <3>4 DEF Canonical
  <2>7. ASSUME NEW k \in 1..Len(held) PROVE ~Under(held[k], d)
    <3> SUFFICES ASSUME Under(held[k], d) PROVE FALSE
      OBVIOUS
    <3>1. held[k] \in Paths /\ Len(held[k]) \in Nat /\ Len(held[k]) <= 5
      BY <1>3, <2>2, PathIs DEF Under
    <3>2. \A i \in 1..4 : Output(a)[i] = d[i]
      <4>1. Len(d) > 0 /\ Len(d) - 1 = 4
        BY <1>3
      <4>2. \A i \in 1..(Len(d) - 1) : Front(d)[i] = d[i]
        BY <1>4, <4>1, FrontIs
      <4> QED
        BY <1>3, <4>1, <4>2
    <3>3. CASE Len(held[k]) <= 4
      <4>1. Under(held[k], Output(a))
        BY <1>3, <3>1, <3>2, <3>3 DEF Under
      <4> QED
        BY <2>6, <4>1
    <3>4. CASE Len(held[k]) = 5
      <4>1. held[k] = d
        BY <1>3, <1>4, <3>1, <3>4, SamePath DEF Under
      <4>2. k = 3
        BY <2>k, <3>4
      <4>3. 3 \in 2..Len(held) /\ 3 - 1 = 2 /\ 2 \in 1..Len(held)
        BY <4>2
      <4>4. held[2] = Output(a)
        BY <1>3, <2>2, <4>1, <4>2, <4>3
      <4>5. Under(Output(a), Output(a))
        BY <1>4, PathIs DEF Under
      <4> QED
        BY <2>6, <4>3, <4>4, <4>5
    <3>5. \A n \in Nat : n <= 5 => n <= 4 \/ n = 5
      OBVIOUS
    <3> QED
      BY <3>1, <3>3, <3>4, <3>5
  <2>8. WhereIn(held, starts, d) = d
    <3>1. \A i \in 1..Len(d) : WhereIn(held, starts, d)[i] = d[i]
      BY <1>4, <2>2, <2>7, WhereIs
    <3>2. WhereIn(held, starts, d) \in Paths /\ Len(WhereIn(held, starts, d)) = Len(d)
      BY <1>4, <2>2, WhereIs
    <3> QED
      BY <1>4, <3>1, <3>2, SamePath
  <2>9. Placed'
    <3>1. \A e \in DOMAIN fs : WhereIn(held, starts, Home(e)) = e
      BY <2>1, <2>3 DEF Placed
    <3>2. WhereIn(held, starts, Home(d)) = d
      BY <1>3, <1>4, <2>5, <2>8
    <3> QED
      BY <1>2, <2>3, <3>1, <3>2 DEF Placed
  <2>10. ASSUME NEW e \in DOMAIN fs', Canonical(Home(e)), Len(e) >= 3 PROVE Owed(Home(e))'
    <3> PICK q : q = Home(e)
      OBVIOUS
    <3>1. ASSUME e \in DOMAIN fs PROVE Owed(q)'
      <4>1. Owed(q)
        BY <2>1, <2>10, <3>1 DEF Accounted
      <4>2. IsStale(q) => IsStale(q)'
        BY <1>1, <1>2, StaleKept
      <4> QED
        BY <1>1, <4>1, <4>2 DEF Owed
    <3>2. ASSUME e = d PROVE Owed(q)'
      <4>1. q = d /\ ~IsPicture(d) /\ d[3][1] \in late'
        BY <1>1, <1>3, <1>4, <2>5, <3>2 DEF IsPicture
      <4> QED
        BY <4>1 DEF Owed
    <3>3. Home(e)' = q
      BY <2>3
    <3>4. Owed(q)'
      BY <1>2, <3>1, <3>2
    <3> QED
      BY <3>3, <3>4 DEF Owed, IsStale, IsPicture
  <2>11. Accounted'
    BY <2>3, <2>10 DEF Accounted
  <2> QED
    BY <2>4, <2>9, <2>11 DEF Accounts
<1> QED
  BY <1>5, <1>6

\* At a start no quarantine name of its own is in use, and everything unwanted is
\* planned.
LEMMA StartAccounts ==
  ASSUME ArtifactInv, Accounts, Start
  PROVE  Accounts'
<1>1. /\ starts' = starts + 1 /\ server = "down" /\ UNCHANGED <<fs, referenced>>
      /\ server' = "starting" => sweep'.todo = Planned /\ sweep'.held = <<>>
  BY DEF Start, NoSweep
<1>2. starts \in Nat \ {0} /\ DOMAIN fs \subseteq Paths /\ Past
  BY StartsAssumption, TreePaths DEF ArtifactInv, Kinds, Files, Accounts
<1>3. ASSUME NEW e \in DOMAIN fs, NEW i \in 1..Len(e)
      PROVE  e[i][2] \in Int /\ e[i][2] <= starts /\ e[i][2] # starts + 1
  <2>1. e[i][2] \in Int
    BY <1>2, PathIs
  <2> QED
    BY <1>2, <2>1 DEF Past
<1>4. Past'
  BY <1>1, <1>2, <1>3 DEF Past
<1>e. ASSUME NEW e \in Paths PROVE e = [i \in 1..Len(e) |-> e[i]]
  <2>1. e \in [1..Len(e) -> Names \X Int]
    BY LenProperties DEF Paths
  <2> QED
    BY <2>1
<1>5. ASSUME NEW e \in DOMAIN fs PROVE Home(e)' = e
  <2>1. Home(e)' = [i \in 1..Len(e) |-> e[i]]
    BY <1>1, <1>3 DEF Home
  <2>2. e = [i \in 1..Len(e) |-> e[i]]
    BY <1>2, <1>e
  <2> QED
    BY <2>1, <2>2
<1>6. ASSUME server' = "starting", NEW e \in DOMAIN fs PROVE Where(e)' = e
  <2>1. Len(sweep'.held) = 0
    BY <1>1, <1>6
  <2>2. Where(e)' = [i \in 1..Len(e) |-> e[i]]
    BY <2>1 DEF Where
  <2>3. e = [i \in 1..Len(e) |-> e[i]]
    BY <1>2, <1>6, <1>e
  <2> QED
    BY <2>2, <2>3
<1>7. ASSUME server' = "starting" PROVE Placed'
  BY <1>1, <1>5, <1>6, <1>7 DEF Placed
<1>8. ASSUME server' = "starting" PROVE Accounted'
  <2> SUFFICES ASSUME NEW e \in DOMAIN fs, Canonical(e), Len(e) >= 3 PROVE Owed(e)'
    BY <1>1, <1>5 DEF Accounted
  <2>1. Shaped(e)
    BY DEF ArtifactInv, Files, Tree
  <2>2. CASE e \in Planned
    BY <1>1, <1>8, <2>2 DEF Owed
  <2>3. CASE e \notin Planned
    <3>1. e[1][1] = "public" /\ e[3][1] \in referenced
      BY <2>3 DEF Planned
    <3>2. IsPicture(e)
      BY <2>1, <3>1 DEF Shaped, IsPicture
    <3> QED
      BY <1>1, <3>1, <3>2 DEF Owed, IsPicture
  <2> QED
    BY <2>2, <2>3
<1> QED
  BY <1>4, <1>7, <1>8 DEF Accounts

\* Steps that do not touch what the account is about.
LEMMA AccountsSame ==
  ASSUME Accounts, UNCHANGED <<fs, server, starts, referenced, sweep, late>>
  PROVE  Accounts'
<1>1. \A q : Home(q)' = Home(q) /\ Where(q)' = Where(q)
  BY DEF Home, Where
<1>2. ASSUME NEW q PROVE Owed(q)' <=> Owed(q)
  <2>1. IsStale(q)' <=> IsStale(q)
    BY <1>1 DEF IsStale
  <2> QED
    BY <2>1 DEF Owed
<1>3. Past' <=> Past
  BY DEF Past
<1>4. Placed' <=> Placed
  BY <1>1 DEF Placed
<1>5. Accounted' <=> Accounted
  <2>1. ASSUME NEW e \in DOMAIN fs PROVE Owed(Home(e))' <=> Owed(Home(e))
    <3> PICK q : q = Home(e)
      OBVIOUS
    <3>1. Home(e)' = q
      BY <1>1
    <3> QED
      BY <1>2, <3>1 DEF Owed, IsStale, IsPicture
  <2> QED
    BY <1>1, <2>1 DEF Accounted
<1> QED
  BY <1>3, <1>4, <1>5 DEF Accounts

\* The methods of the store create entries at their places only.
LEMMA MethodPlaces ==
  ASSUME ArtifactInv, NEW a \in Attempts, Prepare(a) \/ Publish(a) \/ Raise(a) \/ RemoveOwned(a)
  PROVE  /\ server = "up" /\ starts' = starts /\ server' = "up"
         /\ \A p \in DOMAIN fs' : p \in DOMAIN fs \/ (\A i \in 1..Len(p) : p[i][2] \in {Plain, Temp})
<1> DEFINE Own == {Draft(a), Output(a), Workspace(a), Private(a), Final(a), Public(a), Temporary(a)}
           Plainly(p) == \A i \in 1..Len(p) : p[i][2] \in {Plain, Temp}
<1>1. \A p \in Own : Plainly(p)
  BY PlaceMarks DEF Canonical
<1>2. ASSUME DOMAIN fs' \subseteq DOMAIN fs \cup Own
      PROVE  \A p \in DOMAIN fs' : p \in DOMAIN fs \/ Plainly(p)
  BY <1>1, <1>2
<1> HIDE DEF Plainly
<1>3. ASSUME NEW path \in Own, NEW what,
             fs' \in {fs, With(path, what), EnsureDir(path), Without(path)}
      PROVE  DOMAIN fs' \subseteq DOMAIN fs \cup Own
  BY <1>3 DEF With, EnsureDir, Without
<1>4. CASE Prepare(a)
  <2>1. server = "up" /\ UNCHANGED <<server, starts>>
    BY <1>4 DEF Prepare, Enter, At
  <2>2. \E path \in Own : \E what : fs' \in {fs, With(path, what), EnsureDir(path), Without(path)}
    BY <1>4 DEF Prepare
  <2> QED
    BY <1>2, <1>3, <2>1, <2>2 DEF Plainly
<1>5. CASE Publish(a)
  <2>1. server = "up" /\ UNCHANGED <<server, starts>>
    BY <1>5 DEF Publish, Enter, At
  <2>2. ASSUME At(a, "replace"), fs' = Renamed(Temporary(a), Final(a))
        PROVE  DOMAIN fs' \subseteq DOMAIN fs \cup Own
    <3>1. Exists(Temporary(a)) /\ Below(Temporary(a)) = {}
      BY <2>2, PlaceKinds DEF At, ArtifactInv, Locked
    <3>2. /\ DOMAIN fs \subseteq Paths /\ Temporary(a) \in Paths /\ Final(a) \in Paths
          /\ Len(Temporary(a)) = 3 /\ Len(Final(a)) = 3
      BY TreePaths, PicturePlaces DEF ArtifactInv, Files, Shaped, IsPicture
    <3>3. Comes(Temporary(a), Final(a), fs')
      BY <2>2, <3>1, <3>2, RenamedIs
    <3>4. ASSUME NEW e \in DOMAIN fs, Under(Temporary(a), e)
          PROVE  Dest(Temporary(a), Final(a), e) = Final(a)
      <4>1. e \in Paths /\ Len(e) \in Nat /\ Len(e) >= 3
        BY <3>2, <3>4, PathIs DEF Under
      <4>2. ~(Len(e) > 3)
        <5>1. Below(Temporary(a)) = {p \in DOMAIN fs : Under(Temporary(a), p) /\ 3 < Len(p)}
          BY <3>2, BelowIs
        <5> QED
          BY <3>1, <3>4, <5>1
      <4>3. Len(e) = 3
        <5>1. \A n \in Nat : n >= 3 /\ ~(n > 3) => n = 3
          OBVIOUS
        <5> QED
          BY <4>1, <4>2, <5>1
      <4>4. e = Temporary(a)
        BY <3>2, <3>4, <4>1, <4>3, SamePath DEF Under
      <4> QED
        BY <3>2, <4>4, DestSelf
    <3> QED
      BY <3>3, <3>4 DEF Comes
  <2>3. \/ \E path \in Own : \E what : fs' \in {fs, With(path, what), EnsureDir(path), Without(path)}
        \/ At(a, "replace") /\ fs' = Renamed(Temporary(a), Final(a))
    BY <1>5 DEF Publish
  <2>4. DOMAIN fs' \subseteq DOMAIN fs \cup Own
    BY <1>3, <2>2, <2>3
  <2> QED
    BY <1>2, <2>1, <2>4 DEF Plainly
<1>6. CASE Raise(a)
  <2>1. server = "up" /\ UNCHANGED <<server, starts>>
    BY <1>6 DEF Raise, Enter
  <2>2. \E path \in Own : \E what : fs' \in {fs, With(path, what), EnsureDir(path), Without(path)}
    BY <1>6 DEF Raise
  <2> QED
    BY <1>2, <1>3, <2>1, <2>2 DEF Plainly
<1>7. CASE RemoveOwned(a)
  <2>1. server = "up" /\ UNCHANGED <<server, starts, referenced>>
    BY <1>7, RemovalStep
  <2>2. PICK call \in RemovalCalls : fs' = Effect(a, call) /\ life[a] \in {"published", "failed"}
    BY <1>7, RemovalStep
  <2>3. a \notin referenced
    BY <2>2 DEF ArtifactInv, Lives
  <2>4. DOMAIN fs' \subseteq DOMAIN fs
    BY <2>1, <2>2, <2>3, EffectIs DEF ArtifactInv
  <2> QED
    BY <2>1, <2>4
<1> QED
  BY <1>4, <1>5, <1>6, <1>7

\* Every step keeps the account.
LEMMA StepAccounts == ArtifactInv /\ Accounts /\ [Next]_vars => Accounts'
<1> SUFFICES ASSUME ArtifactInv, Accounts, [Next]_vars PROVE Accounts'
  OBVIOUS
<1>1. Past
  BY DEF Accounts
<1>2. ASSUME NEW a \in Attempts, Prepare(a) \/ Publish(a) \/ Raise(a) \/ RemoveOwned(a)
      PROVE  Accounts'
  BY <1>1, <1>2, MethodPlaces, PastKept
<1>3. ASSUME NEW a \in Attempts, AgentEnds(a) \/ Commit(a) \/ Abort(a) PROVE Accounts'
  <2>1. CASE AgentEnds(a)
    BY <2>1, AccountsSame DEF AgentEnds
  <2>2. CASE Commit(a)
    <3>1. starts' = starts /\ server' = "up" /\ fs' = fs
      BY <2>2 DEF Commit
    <3> QED
      BY <1>1, <3>1, PastKept
  <2>3. CASE Abort(a)
    BY <2>3, AccountsSame DEF Abort
  <2> QED
    BY <1>3, <2>1, <2>2, <2>3
<1>4. CASE Crash
  <2>1. starts' = starts /\ server' = "down" /\ fs' = fs
    BY <1>4 DEF Crash
  <2> QED
    BY <1>1, <2>1, PastKept
<1>5. CASE SweepStep
  <2>1. server = "starting" /\ UNCHANGED <<starts, referenced, late>>
    BY <1>5 DEF SweepStep
  <2>2. ASSUME UNCHANGED server, NEW p \in Due, Capture(p) PROVE Accounts'
    <3>1. Unwanted(p)
      BY <2>2 DEF Due, ArtifactInv, Sweeping
    <3> QED
      BY <2>1, <2>2, <3>1, CaptureAccounts
  <2>3. ASSUME UNCHANGED server, sweep.tidy # <<>>, Capture(sweep.tidy) PROVE Accounts'
    <3> PICK p : p = sweep.tidy
      OBVIOUS
    <3>1. Unwanted(p) /\ Capture(p)
      BY <2>3 DEF ArtifactInv, Sweeping
    <3> QED
      BY <2>1, <2>3, <3>1, CaptureAccounts
  <2>4. ASSUME UNCHANGED server, Finish PROVE Accounts'
    BY <2>1, <2>4, FinishAccounts
  <2>5. ASSUME SweepDone PROVE Accounts'
    <3>1. server' = "up" /\ fs' = fs
      BY <2>5 DEF SweepDone
    <3> QED
      BY <1>1, <2>1, <3>1, PastKept
  <2> QED
    BY <1>5, <2>2, <2>3, <2>4, <2>5 DEF SweepStep
<1>6. CASE UNCHANGED vars
  BY <1>6, AccountsSame DEF vars
<1> QED
  BY <1>2, <1>3, <1>4, <1>5, <1>6, DrawAccounts, StartAccounts DEF Next

\* Every start accounts for what it leaves, in every state of its reconciliation.
THEOREM SweepAccounts == Spec => [](ArtifactInv /\ Accounts)
<1>1. Init => Accounts
  BY DEF Init, Accounts, Past
<1> QED
  BY <1>1, InitKeeps, StepKeeps, StepAccounts, PTL DEF Spec

\* When a start has reconciled, it has left no workspace without a reason and no
\* picture that no durable round refers to.
THEOREM SweepLeft == Spec => SweepLeaves
<1>1. ASSUME ArtifactInv, Accounts, [Next]_vars, server = "starting", server' = "up", NEW a \in Attempts
      PROVE  /\ Exists(Workspace(a)) => a \in late \/ \E p \in Below(Workspace(a)) : ~Canonical(p)
             /\ Exists(Final(a)) => a \in referenced
  <2>1. sweep = NoSweep
    <3>1. ~UNCHANGED vars
      BY <1>1 DEF vars
    <3>2. ASSUME NEW b \in Attempts,
                 \/ Prepare(b) \/ Draw(b) \/ AgentEnds(b) \/ Publish(b) \/ Raise(b)
                 \/ RemoveOwned(b) \/ Commit(b) \/ Abort(b)
          PROVE  FALSE
      BY <1>1, <3>2 DEF Prepare, Draw, AgentEnds, Publish, Raise, RemoveOwned, Commit, Abort
    <3>3. ~Crash /\ ~Start
      BY <1>1 DEF Crash, Start
    <3>4. SweepStep
      BY <1>1, <3>1, <3>2, <3>3 DEF Next
    <3> QED
      BY <1>1, <3>4 DEF SweepStep, SweepDone
  <2>2. /\ sweep.todo = {} /\ Len(sweep.held) = 0
        /\ Placed /\ Accounted /\ DOMAIN fs \subseteq Paths
    BY <1>1, <2>1, TreePaths DEF NoSweep, Accounts, ArtifactInv, Files
  <2>3. ASSUME NEW e \in DOMAIN fs PROVE Home(e) = e /\ e \in Paths
    <3> PICK q : q = Home(e)
      OBVIOUS
    <3>1. q \in Paths /\ Where(q) = e
      BY <2>2, HomeIs DEF Placed
    <3>2. Where(q) = [i \in 1..Len(q) |-> q[i]]
      BY <2>2 DEF Where
    <3>3. q = [i \in 1..Len(q) |-> q[i]]
      <4>1. q \in [1..Len(q) -> Names \X Int]
        BY <3>1, LenProperties DEF Paths
      <4> QED
        BY <4>1
    <3> QED
      BY <2>2, <3>1, <3>2, <3>3
  <2>4. ASSUME NEW e \in DOMAIN fs, Canonical(e), Len(e) >= 3
        PROVE  IF IsPicture(e) THEN e[3][1] \in referenced ELSE e[3][1] \in late \/ IsStale(e)
    <3>1. Owed(e)
      BY <2>2, <2>3, <2>4 DEF Accounted
    <3> QED
      BY <2>2, <3>1 DEF Owed
  <2>5. ASSUME Exists(Workspace(a))
        PROVE  a \in late \/ \E p \in Below(Workspace(a)) : ~Canonical(p)
    <3> PICK w : w = Workspace(a)
      OBVIOUS
    <3>1. w \in DOMAIN fs /\ Canonical(w) /\ Len(w) = 3 /\ w[3] = <<a, Plain>> /\ w[1] = <<"private", Plain>>
      BY <2>5, PlaceMarks, WorkspacePlaces DEF Exists
    <3>2. a \in late \/ IsStale(w)
      BY <2>4, <3>1 DEF IsPicture
    <3>3. ASSUME IsStale(w) PROVE \E p \in Below(w) : ~Canonical(p)
      <4>1. PICK p \in DOMAIN fs : Under(w, p) /\ ~Canonical(p)
        BY <2>3, <3>3 DEF IsStale
      <4>2. p \in Paths /\ w \in Paths /\ Len(p) \in Nat /\ Len(p) >= 3
        BY <2>3, <3>1, <4>1, PathIs DEF Under
      <4>3. Len(p) # 3
        <5> SUFFICES ASSUME Len(p) = 3 PROVE FALSE
          OBVIOUS
        <5>1. p = w
          BY <3>1, <4>1, <4>2, SamePath DEF Under
        <5> QED
          BY <3>1, <4>1, <5>1
      <4>4. Len(w) < Len(p)
        <5>1. \A n \in Nat : n >= 3 /\ n # 3 => 3 < n
          OBVIOUS
        <5> QED
          BY <3>1, <4>2, <4>3, <5>1
      <4>5. p \in Below(w)
        BY <2>2, <4>1, <4>2, <4>4, BelowIs
      <4> QED
        BY <4>1, <4>5
    <3> QED
      BY <3>2, <3>3
  <2>6. ASSUME Exists(Final(a)) PROVE a \in referenced
    <3>1. /\ Final(a) \in DOMAIN fs /\ Canonical(Final(a)) /\ IsPicture(Final(a))
          /\ Final(a)[3] = <<a, Plain>> /\ Len(Final(a)) = 3
      BY <2>6, PlaceMarks, PicturePlaces DEF Exists, IsPicture
    <3> QED
      BY <2>4, <3>1
  <2> QED
    BY <2>5, <2>6
<1>2. ArtifactInv /\ Accounts /\ [Next]_vars =>
        [server = "starting" /\ server' = "up" =>
           \A a \in Attempts :
             /\ Exists(Workspace(a)) => a \in late \/ \E p \in Below(Workspace(a)) : ~Canonical(p)
             /\ Exists(Final(a)) => a \in referenced]_vars
  BY <1>1
<1> QED
  BY <1>2, SweepAccounts, PTL DEF Spec, SweepLeaves
=============================================================================
