------------------------ MODULE PiRpcTransportProofs ------------------------
(***************************************************************************)
(* PiRpcTransport keeps its safety invariants for every capacity of the    *)
(* queue and every number of lines: what the child wrote reaches the       *)
(* handler once and in order, and a call that returned left nothing.       *)
(***************************************************************************)
EXTENDS PiRpcTransport, SequenceTheorems, Recursion

-----------------------------------------------------------------------------
(* Types *)

\* The initial state is well typed.
LEMMA InitTyped == Init => TypeOK
<1>1. <<>> \in Seq(Lines) /\ <<>> \in Seq(Items) /\ Len(<<>>) <= Capacity
  BY SizeAssumption, EmptySeq
<1>2. \A s \in Streams : EndOf(s) \in Items
  BY DEF EndOf, Items
<1> QED
  BY <1>1, <1>2 DEF Init, TypeOK

\* Every step keeps the types, and the queue within its capacity.
LEMMA StepTyped ==
  ASSUME TypeOK, [Next]_vars
  PROVE  TypeOK'
<1> USE SizeAssumption DEF TypeOK, Lines, Items, Streams, EndOf
<1>1. CASE ChildWrites
  BY <1>1 DEF ChildWrites, readerVars, callVars
<1>2. CASE ChildExits
  BY <1>2 DEF ChildExits, readerVars, callVars
<1>3. CASE ReadLine
  <2>1. Head(pipe) \in Lines /\ Tail(pipe) \in Seq(Lines)
    BY <1>3, HeadTailProperties DEF ReadLine
  <2>2. UNCHANGED <<childVars, queue, interrupted, callVars>> /\ pipe' = Tail(pipe)
    BY <1>3 DEF ReadLine
  <2>3. CASE UNCHANGED readerVars
    BY <2>1, <2>2, <2>3 DEF childVars, readerVars, callVars
  <2>4. CASE failed' = failed \cup {"stdout"} /\ StartPut("stdout", "failure")
    BY <2>1, <2>2, <2>4 DEF StartPut, childVars, callVars
  <2>5. CASE Head(pipe) # "garbage" /\ StartPut("stdout", Head(pipe)) /\ UNCHANGED failed
    <3>1. Head(pipe) \in Items
      BY <2>1, <2>5
    <3> QED
      BY <2>1, <2>2, <2>5, <3>1 DEF StartPut, childVars, callVars
  <2> QED
    BY <1>3, <2>3, <2>4, <2>5 DEF ReadLine
<1>4. ASSUME NEW s \in Streams, EndOfFile(s) PROVE TypeOK'
  BY <1>4 DEF EndOfFile, childVars, callVars
<1>5. ASSUME NEW s \in Streams, Put(s) PROVE TypeOK'
  BY <1>5 DEF Put, Full, childVars, callVars
<1>6. CASE StderrOverflows
  BY <1>6 DEF StderrOverflows, StartPut, childVars, callVars
<1>7. CASE Handle
  BY <1>7 DEF Handle, Finish, childVars, readerVars
<1>8. CASE SendPrompt \/ ChildGone \/ Deadline \/ Cancel
  BY <1>8 DEF SendPrompt, ChildGone, Deadline, Timeout, GraceEnds, Cancel, Finish, childVars, readerVars
<1>9. CASE KillGroup \/ Return
  BY <1>9 DEF KillGroup, Return, readerVars, childVars
<1>10. ASSUME NEW s \in Streams, InterruptReader(s) PROVE TypeOK'
  BY <1>10 DEF InterruptReader, childVars, callVars
<1>11. CASE UNCHANGED vars
  BY <1>11 DEF vars, childVars, readerVars, callVars
<1> QED
  BY <1>1, <1>2, <1>3, <1>4, <1>5, <1>6, <1>7, <1>8, <1>9, <1>10, <1>11
  DEF Next, ReaderStep, CleanupStep

\* The types hold, and the queue is never longer than its capacity.
THEOREM Typed == Spec => []TypeOK
BY InitTyped, StepTyped, PTL DEF Spec

-----------------------------------------------------------------------------
(* What a call leaves behind *)

\* The cleanup ends the child before it waits for the readers.
Swept ==
  /\ stage \in {"draining", "returned"} => child # "running"
  /\ stage = "returned" => \A s \in Streams : reader[s] = "done"

\* When the call has returned, the child has exited and no reader is left.
THEOREM LeavesNothing == Spec => []NothingLeft
<1>1. Init => Swept
  BY DEF Init, Swept
<1>2. TypeOK /\ Swept /\ [Next]_vars => Swept'
  <2> SUFFICES ASSUME TypeOK, Swept, [Next]_vars PROVE Swept'
    OBVIOUS
  <2> USE DEF TypeOK, Swept, Streams, childVars, readerVars, callVars, Finish
  <2>1. CASE ChildWrites \/ ChildExits \/ SendPrompt \/ ChildGone \/ Deadline \/ Cancel
    BY <2>1 DEF ChildWrites, ChildExits, SendPrompt, ChildGone, Deadline, Timeout, GraceEnds, Cancel
  <2>2. CASE ReaderStep \/ StderrOverflows
    BY <2>2 DEF ReaderStep, ReadLine, EndOfFile, Put, StderrOverflows, StartPut
  <2>3. CASE Handle
    BY <2>3 DEF Handle
  <2>4. CASE CleanupStep
    BY <2>4 DEF CleanupStep, KillGroup, Return, InterruptReader
  <2>5. CASE UNCHANGED vars
    BY <2>5 DEF vars
  <2> QED
    BY <2>1, <2>2, <2>3, <2>4, <2>5 DEF Next
<1>3. Swept => NothingLeft
  BY DEF Swept, NothingLeft
<1> QED
  BY <1>1, <1>2, <1>3, Typed, PTL DEF Spec

-----------------------------------------------------------------------------
(* LinesOf *)

\* The lines among the first n items, for every n.
Firsts(items, first) ==
  /\ first \in [0..Len(items) -> Seq(Lines)]
  /\ first[0] = <<>>
  /\ \A n \in 1..Len(items) :
       first[n] = IF items[n] \in Lines THEN Append(first[n - 1], items[n]) ELSE first[n - 1]

\* The recursion in LinesOf has a solution.
LEMMA FirstsExist ==
  ASSUME NEW items \in Seq(Items)
  PROVE  \E first : Firsts(items, first)
<1> DEFINE k == Len(items)
<1> DEFINE add(n, s) == IF items[n] \in Lines THEN Append(s, items[n]) ELSE s
<1> DEFINE step == [n \in 1..k |-> [s \in Seq(Lines) |-> add(n, s)]]
<1>1. k \in Nat /\ <<>> \in Seq(Lines)
  BY LenProperties, EmptySeq
<1>2. \A n \in 1..k, s \in Seq(Lines) : add(n, s) \in Seq(Lines)
  BY AppendProperties
<1>3. step \in [1..k -> [Seq(Lines) -> Seq(Lines)]]
  BY <1>2
<1>4. PICK f \in [0..k -> Seq(Lines)] :
        f[0] = <<>> /\ \A n \in 1..k : f[n] = step[n][f[n - 1]]
  <2> DEFINE X == Seq(Lines)
  <2> DEFINE none == <<>>
  <2>1. step \in [1..k -> [X -> X]] /\ none \in X /\ k \in Nat
    BY <1>1, <1>3
  <2> HIDE DEF step, k, X, none
  <2>2. \E f \in [0..k -> X] : f[0] = none /\ \A n \in 1..k : f[n] = step[n][f[n - 1]]
    BY <2>1, RecursionExists
  <2> QED
    BY <2>2 DEF X, none
<1>5. ASSUME NEW n \in 1..k PROVE f[n] = add(n, f[n - 1])
  <2> HIDE DEF step, k
  <2>1. n - 1 \in 0..k
    BY <1>1
  <2>2. f[n - 1] \in Seq(Lines) /\ f[n] = step[n][f[n - 1]]
    BY <1>4, <2>1
  <2>3. \A s \in Seq(Lines) : step[n][s] = add(n, s)
    BY DEF step
  <2> QED
    BY <2>2, <2>3
<1> HIDE DEF step
<1> QED
  BY <1>4, <1>5 DEF Firsts

\* LinesOf is the last value of that solution.
LEMMA LinesOfIsLast ==
  ASSUME NEW items \in Seq(Items), NEW first, Firsts(items, first)
  PROVE  LinesOf(items) = first[Len(items)]
<1> DEFINE k == Len(items)
<1> DEFINE Solution(f) == f = [n \in 0..k |-> IF n = 0 THEN <<>>
                                 ELSE IF items[n] \in Lines THEN Append(f[n - 1], items[n]) ELSE f[n - 1]]
<1> DEFINE chosen == CHOOSE f : Solution(f)
<1>1. k \in Nat
  BY LenProperties
<1>2. Solution(first)
  <2>1. \A n \in 0..k : first[n] = IF n = 0 THEN <<>>
             ELSE IF items[n] \in Lines THEN Append(first[n - 1], items[n]) ELSE first[n - 1]
    <3> SUFFICES ASSUME NEW n \in 0..k, n # 0
                 PROVE  first[n] = IF items[n] \in Lines THEN Append(first[n - 1], items[n]) ELSE first[n - 1]
      BY DEF Firsts
    <3>1. n \in 1..k
      BY <1>1
    <3> QED
      BY <3>1 DEF Firsts
  <2>2. first = [n \in 0..k |-> first[n]]
    BY DEF Firsts
  <2> QED
    BY <2>1, <2>2
<1>3. Solution(chosen)
  <2> HIDE DEF Solution
  <2> QED
    BY <1>2
<1>4. LinesOf(items) = chosen[k]
  BY DEF LinesOf
<1> HIDE DEF chosen
<1>5. /\ chosen[0] = <<>>
      /\ \A n \in 1..k : chosen[n] =
            IF items[n] \in Lines THEN Append(chosen[n - 1], items[n]) ELSE chosen[n - 1]
  <2> DEFINE value(n) == IF n = 0 THEN <<>>
               ELSE IF items[n] \in Lines THEN Append(chosen[n - 1], items[n]) ELSE chosen[n - 1]
  <2>1. chosen = [n \in 0..k |-> value(n)]
    BY <1>3
  <2> HIDE DEF value
  <2>2. \A n \in 0..k : chosen[n] = value(n)
    BY <2>1
  <2> QED
    BY <1>1, <2>2 DEF value
<1> DEFINE S == {m \in Nat : m <= k => chosen[m] = first[m]}
<1>8. 0 \in S
  BY <1>1, <1>5 DEF Firsts
<1>6. ASSUME NEW m \in Nat, m \in S PROVE m + 1 \in S
  <2> SUFFICES ASSUME m + 1 <= k PROVE chosen[m + 1] = first[m + 1]
    OBVIOUS
  <2>1. chosen[m] = first[m] /\ m + 1 \in 1..k /\ (m + 1) - 1 = m
    BY <1>1, <1>6
  <2>2. first[m + 1] = IF items[m + 1] \in Lines THEN Append(first[m], items[m + 1]) ELSE first[m]
    BY <2>1 DEF Firsts
  <2>3. chosen[m + 1] = IF items[m + 1] \in Lines THEN Append(chosen[m], items[m + 1]) ELSE chosen[m]
    BY <1>5, <2>1
  <2> QED
    BY <2>1, <2>2, <2>3
<1> HIDE DEF S
<1>7. k \in S
  BY <1>1, <1>6, <1>8, SetInduction
<1> QED
  BY <1>4, <1>7 DEF S

\* Concatenation, regrouped.
LEMMA Regroup ==
  ASSUME NEW a \in Seq(Lines), NEW b \in Seq(Lines), NEW c \in Seq(Lines)
  PROVE  (a \o b) \o c = a \o (b \o c)
BY ConcatAssociative

\* The lines one item contributes.
LineOf(what) == IF what \in Lines THEN <<what>> ELSE <<>>

\* An item of the queue carries one line or none.
LEMMA LineOfType == \A what : LineOf(what) \in Seq(Lines)
<1> SUFFICES ASSUME NEW what PROVE LineOf(what) \in Seq(Lines)
  OBVIOUS
<1>1. CASE what \in Lines
  BY <1>1 DEF LineOf
<1>2. CASE what \notin Lines
  BY <1>2, EmptySeq DEF LineOf
<1> QED
  BY <1>1, <1>2

\* An empty queue carries no line.
LEMMA LinesOfEmpty == LinesOf(<<>>) = <<>>
<1>1. <<>> \in Seq(Items) /\ Len(<<>>) = 0
  BY EmptySeq
<1>2. PICK first : Firsts(<<>>, first)
  BY <1>1, FirstsExist
<1>3. LinesOf(<<>>) = first[0]
  BY <1>1, <1>2, LinesOfIsLast
<1> QED
  BY <1>2, <1>3 DEF Firsts

\* The items of a queue carry lines.
LEMMA LinesOfType ==
  ASSUME NEW items \in Seq(Items)
  PROVE  LinesOf(items) \in Seq(Lines)
<1>1. PICK first : Firsts(items, first)
  BY FirstsExist
<1>2. Len(items) \in 0..Len(items)
  BY LenProperties
<1> QED
  BY <1>1, <1>2, LinesOfIsLast DEF Firsts

\* Queueing an item adds its line at the end.
LEMMA LinesOfAppend ==
  ASSUME NEW items \in Seq(Items), NEW what \in Items
  PROVE  LinesOf(Append(items, what)) = LinesOf(items) \o LineOf(what)
<1> DEFINE k == Len(items)
<1> DEFINE more == Append(items, what)
<1>1. /\ k \in Nat /\ more \in Seq(Items) /\ Len(more) = k + 1 /\ more[k + 1] = what
      /\ \A n \in 1..k : more[n] = items[n]
  BY LenProperties, AppendProperties
<1>2. PICK first : Firsts(items, first)
  BY FirstsExist
<1>3. first[k] \in Seq(Lines) /\ LinesOf(items) = first[k]
  BY <1>1, <1>2, LinesOfIsLast DEF Firsts
<1> DEFINE last == IF what \in Lines THEN Append(first[k], what) ELSE first[k]
<1> DEFINE g == [n \in 0..(k + 1) |-> IF n = k + 1 THEN last ELSE first[n]]
<1> HIDE DEF more
<1>4. last \in Seq(Lines)
  BY <1>3, AppendProperties
<1> HIDE DEF last
<1>5. Firsts(more, g)
  <2> HIDE DEF k
  <2>1. g \in [0..Len(more) -> Seq(Lines)] /\ g[0] = <<>>
    BY <1>1, <1>2, <1>4 DEF Firsts, k
  <2>2. ASSUME NEW n \in 1..k
        PROVE  g[n] = IF more[n] \in Lines THEN Append(g[n - 1], more[n]) ELSE g[n - 1]
    <3>1. g[n] = first[n] /\ g[n - 1] = first[n - 1] /\ more[n] = items[n]
      BY <1>1
    <3> QED
      BY <1>2, <3>1 DEF Firsts, k
  <2>3. g[k + 1] = IF more[k + 1] \in Lines THEN Append(g[k], more[k + 1]) ELSE g[k]
    BY <1>1 DEF last
  <2>4. \A n \in 1..(k + 1) : n \in 1..k \/ (n = k + 1 /\ n - 1 = k)
    BY <1>1
  <2> HIDE DEF g
  <2> QED
    BY <1>1, <2>1, <2>2, <2>3, <2>4 DEF Firsts
<1>6. LinesOf(more) = last
  <2>1. g[k + 1] = last
    BY <1>1
  <2> HIDE DEF g, k
  <2> QED
    BY <1>1, <1>5, <2>1, LinesOfIsLast
<1>7. last = first[k] \o LineOf(what)
  BY <1>3, AppendIsConcat, ConcatEmptySeq DEF last, LineOf
<1> QED
  BY <1>3, <1>6, <1>7 DEF more

\* Taking an item from the queue removes its line at the front.
LEMMA LinesOfTail ==
  ASSUME NEW items \in Seq(Items), items # <<>>
  PROVE  LinesOf(items) = LineOf(Head(items)) \o LinesOf(Tail(items))
<1> DEFINE k == Len(items)
<1> DEFINE rest == Tail(items)
<1> DEFINE h == LineOf(Head(items))
<1>1. /\ k \in Nat \ {0} /\ rest \in Seq(Items) /\ Len(rest) = k - 1 /\ Head(items) = items[1]
      /\ \A n \in 1..(k - 1) : rest[n] = items[n + 1]
  BY LenProperties, EmptySeq, HeadTailProperties
<1>2. PICK f : Firsts(items, f)
  BY FirstsExist
<1>3. PICK g : Firsts(rest, g)
  BY <1>1, FirstsExist
<1> HIDE DEF rest
<1> DEFINE S == {m \in Nat : m <= k - 1 => f[m + 1] = h \o g[m]}
<1>4. h \in Seq(Lines)
  BY LineOfType
<1> HIDE DEF h
<1>5. f[1] = h \o g[0]
  <2>1. 1 \in 1..Len(items) /\ 1 - 1 = 0
    BY <1>1
  <2>2. f[1] = IF items[1] \in Lines THEN Append(f[0], items[1]) ELSE f[0]
    BY <1>2, <2>1 DEF Firsts
  <2>3. f[1] = h
    BY <1>1, <1>2, <2>2 DEF h, LineOf, Firsts
  <2>4. h \o g[0] = h
    BY <1>3, <1>4, ConcatEmptySeq DEF Firsts
  <2> QED
    BY <2>3, <2>4
<1>6. ASSUME NEW m \in 0..(k - 2), f[m + 1] = h \o g[m]
      PROVE  f[m + 2] = h \o g[m + 1]
  <2> DEFINE x == items[m + 2]
  <2> HIDE DEF k
  <2>1. /\ m + 2 \in 1..k /\ m + 1 \in 1..(k - 1) /\ (m + 1) + 1 = m + 2
        /\ (m + 2) - 1 = m + 1 /\ (m + 1) - 1 = m /\ m \in 0..(k - 1)
    BY <1>1
  <2>2. rest[m + 1] = x
    BY <1>1, <2>1
  <2>3. f[m + 2] = IF x \in Lines THEN Append(f[m + 1], x) ELSE f[m + 1]
    BY <1>2, <2>1 DEF Firsts, k
  <2>4. g[m + 1] = IF x \in Lines THEN Append(g[m], x) ELSE g[m]
    BY <1>1, <1>3, <2>1, <2>2 DEF Firsts
  <2>5. g[m] \in Seq(Lines)
    BY <1>1, <1>3, <2>1 DEF Firsts
  <2> DEFINE seen == g[m]
  <2> HIDE DEF x, seen
  <2>7. x \in Lines => Append(h \o seen, x) = h \o Append(seen, x)
    <3>1. seen \in Seq(Lines)
      BY <2>5 DEF seen
    <3> SUFFICES ASSUME x \in Lines PROVE Append(h \o seen, x) = h \o Append(seen, x)
      OBVIOUS
    <3>2. <<x>> \in Seq(Lines) /\ h \o seen \in Seq(Lines)
      BY <1>4, <3>1, ConcatProperties
    <3>3. Append(h \o seen, x) = (h \o seen) \o <<x>> /\ Append(seen, x) = seen \o <<x>>
      BY <3>1, <3>2, AppendIsConcat
    <3>4. (h \o seen) \o <<x>> = h \o (seen \o <<x>>)
      BY <1>4, <3>1, <3>2, Regroup
    <3> QED
      BY <3>3, <3>4
  <2>6. x \in Lines => Append(h \o g[m], x) = h \o Append(g[m], x)
    BY <2>7 DEF seen
  <2> QED
    BY <1>6, <2>3, <2>4, <2>6
<1>10. 0 \in S
  BY <1>5
<1>11. ASSUME NEW m \in Nat, m \in S PROVE m + 1 \in S
  <2> SUFFICES ASSUME m + 1 <= k - 1 PROVE f[(m + 1) + 1] = h \o g[m + 1]
    OBVIOUS
  <2>1. m \in 0..(k - 2) /\ (m + 1) + 1 = m + 2 /\ m <= k - 1
    BY <1>1
  <2>2. f[m + 1] = h \o g[m]
    BY <1>11, <2>1
  <2> QED
    BY <1>6, <2>1, <2>2
<1> HIDE DEF S
<1>7. k - 1 \in S
  BY <1>1, <1>10, <1>11, SetInduction
<1>8. f[k] = h \o g[k - 1]
  BY <1>1, <1>7 DEF S
<1>9. LinesOf(items) = f[k] /\ LinesOf(rest) = g[k - 1]
  BY <1>1, <1>2, <1>3, LinesOfIsLast
<1> QED
  BY <1>8, <1>9 DEF h, rest

-----------------------------------------------------------------------------
(* The lines on their way *)

Held == IF reader["stdout"] = "putting" THEN LineOf(item["stdout"]) ELSE <<>>

\* The lines that passed the reader: handled, queued, or about to be queued.
Passed == (handled \o LinesOf(queue)) \o Held

\* Only the reader of stdout puts lines, and none after it was interrupted.
ItemsPlaced ==
  /\ item["stderr"] \notin Lines
  /\ reader["stdout"] = "ending" => item["stdout"] \notin Lines
  /\ "stdout" \in interrupted => reader["stdout"] \in {"ending", "done"}

\* What passed is the beginning of what was written, and the pipe has the rest
\* until the reader fails or is interrupted.
Flow ==
  \E rest \in Seq(Lines) :
    /\ written = Passed \o rest
    /\ "stdout" \notin failed \cup interrupted => rest = pipe

\* What has left the pipe is a sequence of lines.
LEMMA PassedType ==
  ASSUME TypeOK
  PROVE  /\ Held \in Seq(Lines) /\ LinesOf(queue) \in Seq(Lines)
         /\ handled \o LinesOf(queue) \in Seq(Lines) /\ Passed \in Seq(Lines)
<1>1. Held \in Seq(Lines) /\ LinesOf(queue) \in Seq(Lines) /\ handled \in Seq(Lines)
  BY LineOfType, LinesOfType, EmptySeq DEF TypeOK, Held
<1>2. handled \o LinesOf(queue) \in Seq(Lines)
  BY <1>1, ConcatProperties
<1> QED
  BY <1>1, <1>2, ConcatProperties DEF Passed

\* A queued line is the line of its item.
LEMMA LinesOfOne ==
  ASSUME NEW what \in Items
  PROVE  LinesOf(<<what>>) = LineOf(what)
<1>1. <<>> \in Seq(Items) /\ Append(<<>>, what) = <<what>>
  BY EmptySeq
<1>2. LinesOf(<<what>>) = <<>> \o LineOf(what)
  BY <1>1, LinesOfAppend, LinesOfEmpty
<1> QED
  BY <1>2, LineOfType, ConcatEmptySeq

\* Flow contains NoLineLost.
LEMMA FlowLosesNothing ==
  ASSUME TypeOK, Flow
  PROVE  NoLineLost
<1>1. Held = IF reader["stdout"] = "putting" THEN LinesOf(<<item["stdout"]>>) ELSE <<>>
  BY LinesOfOne DEF TypeOK, Held, Streams
<1> QED
  BY <1>1 DEF Flow, Passed, NoLineLost

\* The places of the items are kept by every step.
LEMMA ItemsStayPlaced ==
  ASSUME TypeOK, ItemsPlaced, [Next]_vars
  PROVE  ItemsPlaced'
<1> USE DEF TypeOK, ItemsPlaced, Lines, Streams, EndOf, childVars, readerVars, callVars
<1>1. CASE ReadLine \/ StderrOverflows
  BY <1>1 DEF ReadLine, StderrOverflows, StartPut
<1>2. ASSUME NEW s \in Streams, EndOfFile(s) \/ Put(s) \/ InterruptReader(s) PROVE ItemsPlaced'
  BY <1>2 DEF EndOfFile, Put, InterruptReader
<1>3. CASE ChildWrites \/ ChildExits \/ SendPrompt \/ Handle \/ ChildGone \/ Deadline \/ Cancel
  BY <1>3 DEF ChildWrites, ChildExits, SendPrompt, Handle, ChildGone, Deadline, Timeout, GraceEnds, Cancel
<1>4. CASE KillGroup \/ Return \/ UNCHANGED vars
  BY <1>4 DEF KillGroup, Return, vars
<1> QED
  BY <1>1, <1>2, <1>3, <1>4 DEF Next, ReaderStep, CleanupStep

\* A step after which the same lines have passed, were written and are left.
LEMMA FlowKept ==
  ASSUME Flow, Passed' = Passed, UNCHANGED written,
         "stdout" \notin (failed \cup interrupted)' =>
            pipe' = pipe /\ "stdout" \notin failed \cup interrupted
  PROVE  Flow'
BY DEF Flow

\* The flow is kept by every step.
LEMMA FlowStep ==
  ASSUME TypeOK, ItemsPlaced, Flow, [Next]_vars
  PROVE  Flow'
<1>0. TypeOK' /\ ItemsPlaced'
  BY StepTyped, ItemsStayPlaced
<1>1. PICK rest \in Seq(Lines) :
        /\ written = Passed \o rest
        /\ "stdout" \notin failed \cup interrupted => rest = pipe
  BY DEF Flow
<1>2. /\ Held \in Seq(Lines) /\ LinesOf(queue) \in Seq(Lines) /\ handled \in Seq(Lines)
      /\ handled \o LinesOf(queue) \in Seq(Lines) /\ Passed \in Seq(Lines)
  BY PassedType DEF TypeOK
<1>3. CASE ChildWrites
  <2>1. PICK line \in Lines : written' = Append(written, line) /\ pipe' = Append(pipe, line)
    BY <1>3 DEF ChildWrites
  <2>2. Passed' = Passed /\ UNCHANGED <<failed, interrupted>>
    BY <1>3 DEF ChildWrites, readerVars, callVars, Passed, Held
  <2>3. Append(rest, line) \in Seq(Lines) /\ <<line>> \in Seq(Lines)
    BY AppendProperties
  <2>4. Append(Passed \o rest, line) = (Passed \o rest) \o <<line>> /\ Append(rest, line) = rest \o <<line>>
    BY <1>2, AppendIsConcat, ConcatProperties
  <2>5. (Passed \o rest) \o <<line>> = Passed \o (rest \o <<line>>)
    BY <1>2, <2>3, Regroup, SMTT(30)
  <2>6. written' = Passed' \o Append(rest, line)
    BY <1>1, <2>1, <2>2, <2>4, <2>5
  <2> QED
    BY <1>1, <2>1, <2>2, <2>3, <2>6 DEF Flow
<1>4. CASE ReadLine
  <2>1. /\ reader["stdout"] = "reading" /\ pipe # <<>> /\ pipe' = Tail(pipe)
        /\ UNCHANGED <<written, queue, interrupted, handled>> /\ Held = <<>>
    BY <1>4 DEF ReadLine, childVars, callVars, Held
  <2>2. CASE "stdout" \in failed'
    <3>1. Held' = <<>>
      BY <1>4, <2>1, <2>2 DEF ReadLine, readerVars, StartPut, Held, LineOf, Lines, TypeOK, Streams
    <3> QED
      BY <2>1, <2>2, <3>1, FlowKept DEF Passed
  <2>3. CASE "stdout" \notin failed'
    <3> DEFINE line == Head(pipe)
    <3>1. /\ line # "garbage" /\ UNCHANGED failed
          /\ reader' = [reader EXCEPT !["stdout"] = "putting"] /\ item' = [item EXCEPT !["stdout"] = line]
      BY <1>4, <2>1, <2>3 DEF ReadLine, StartPut, readerVars
    <3>2. "stdout" \notin failed \cup interrupted /\ rest = pipe
      BY <1>1, <2>1, <2>3, <3>1 DEF ItemsPlaced
    <3>3. line \in Lines /\ Tail(pipe) \in Seq(Lines) /\ pipe = <<line>> \o Tail(pipe)
      <4>1. line \in Lines /\ Tail(pipe) \in Seq(Lines) /\ <<line>> \in Seq(Lines)
        BY <2>1, HeadTailProperties DEF TypeOK
      <4>2. Len(pipe) \in Nat \ {0} /\ Len(Tail(pipe)) = Len(pipe) - 1 /\ line = pipe[1]
            /\ \A i \in 1..Len(Tail(pipe)) : Tail(pipe)[i] = pipe[i + 1]
        BY <2>1, EmptySeq, HeadTailProperties DEF TypeOK
      <4> DEFINE whole == <<line>> \o Tail(pipe)
      <4>3. whole \in Seq(Lines) /\ Len(whole) = Len(pipe)
            /\ \A i \in 1..Len(pipe) : whole[i] = IF i <= 1 THEN line ELSE Tail(pipe)[i - 1]
        BY <4>1, <4>2, ConcatProperties
      <4>4. \A i \in 1..Len(pipe) : whole[i] = pipe[i]
        BY <4>2, <4>3
      <4> HIDE DEF whole
      <4>5. whole = pipe
        BY <4>3, <4>4, SeqEqual DEF TypeOK
      <4> QED
        BY <4>1, <4>5 DEF whole
    <3> HIDE DEF line
    <3>4. Held' = <<line>>
      BY <3>1, <3>3 DEF Held, LineOf, TypeOK, Streams
    <3> DEFINE before == handled \o LinesOf(queue)
    <3>5. Passed = before
      BY <1>2, <2>1, ConcatEmptySeq DEF Passed
    <3>6. Passed' = before \o <<line>>
      BY <2>1, <3>4 DEF Passed
    <3>9. before \in Seq(Lines) /\ <<line>> \in Seq(Lines) /\ Tail(pipe) \in Seq(Lines)
      BY <1>2, <3>3
    <3> HIDE DEF before
    <3>7. before \o (<<line>> \o Tail(pipe)) = (before \o <<line>>) \o Tail(pipe)
      BY <3>9, Regroup
    <3>8. written' = Passed' \o Tail(pipe)
      BY <1>1, <2>1, <3>2, <3>3, <3>5, <3>6, <3>7
    <3> QED
      BY <2>1, <3>3, <3>8 DEF Flow
  <2> QED
    BY <2>2, <2>3
<1>5. ASSUME NEW s \in Streams, Put(s) PROVE Flow'
  <2>1. /\ queue' = Append(queue, item[s]) /\ item[s] \in Items /\ reader[s] \in {"putting", "ending"}
        /\ reader' = [reader EXCEPT ![s] = IF reader[s] = "ending" THEN "done" ELSE "reading"]
        /\ UNCHANGED <<written, pipe, item, failed, interrupted, handled>>
    BY <1>5 DEF Put, childVars, callVars, TypeOK
  <2>2. LinesOf(queue') = LinesOf(queue) \o LineOf(item[s])
    BY <2>1, LinesOfAppend DEF TypeOK
  <2>3. LineOf(item[s]) \in Seq(Lines) /\ <<>> \in Seq(Lines)
    BY LineOfType, EmptySeq
  <2>4. CASE s = "stdout" /\ reader[s] = "putting"
    <3>1. Held = LineOf(item[s]) /\ Held' = <<>>
      BY <2>1, <2>4 DEF Held, TypeOK
    <3>2. handled \o (LinesOf(queue) \o Held) = Passed
      BY <1>2, Regroup, SMTT(30) DEF Passed
    <3>3. Passed' = (handled \o (LinesOf(queue) \o Held)) \o <<>>
      BY <2>1, <2>2, <3>1 DEF Passed
    <3>4. Passed' = Passed
      BY <1>2, <3>2, <3>3, ConcatEmptySeq
    <3> QED
      BY <2>1, <3>4, FlowKept
  <2>5. CASE ~(s = "stdout" /\ reader[s] = "putting")
    <3>1. LineOf(item[s]) = <<>>
      BY <2>1, <2>5 DEF ItemsPlaced, LineOf, Streams
    <3>2. LinesOf(queue') = LinesOf(queue)
      BY <1>2, <2>2, <3>1, ConcatEmptySeq
    <3>3. Held' = Held
      BY <2>1, <2>5 DEF Held, TypeOK, Streams
    <3>4. Passed' = Passed
      BY <2>1, <3>2, <3>3 DEF Passed
    <3> QED
      BY <2>1, <3>4, FlowKept
  <2> QED
    BY <2>4, <2>5
<1>6. CASE Handle
  <2> DEFINE what == Head(queue)
  <2>1. /\ queue # <<>> /\ queue' = Tail(queue)
        /\ handled' = IF what \in Lines THEN Append(handled, what) ELSE handled
        /\ UNCHANGED <<written, pipe, reader, item, failed, interrupted>>
    BY <1>6 DEF Handle, childVars, readerVars
  <2>2. LinesOf(queue) = LineOf(what) \o LinesOf(queue')
    BY <2>1, LinesOfTail DEF TypeOK
  <2>3. LineOf(what) \in Seq(Lines) /\ LinesOf(queue') \in Seq(Lines)
    BY <1>0, LineOfType, LinesOfType DEF TypeOK
  <2>4. handled' = handled \o LineOf(what)
    BY <1>2, <2>1, AppendIsConcat, ConcatEmptySeq DEF LineOf
  <2> HIDE DEF what
  <2>7. PICK one, others : one = LineOf(what) /\ others = LinesOf(queue')
    OBVIOUS
  <2>8. one \in Seq(Lines) /\ others \in Seq(Lines) /\ handled \in Seq(Lines)
    BY <1>2, <2>3, <2>7
  <2>9. (handled \o one) \o others = handled \o (one \o others)
    BY <2>8, Regroup
  <2>5. (handled \o LineOf(what)) \o LinesOf(queue') = handled \o (LineOf(what) \o LinesOf(queue'))
    BY <2>7, <2>9
  <2>6. Passed' = Passed
    BY <2>1, <2>2, <2>4, <2>5 DEF Passed, Held
  <2> QED
    BY <2>1, <2>6, FlowKept
<1>7. ASSUME NEW s \in Streams, InterruptReader(s) PROVE Flow'
  <2>1. /\ reader' = [reader EXCEPT ![s] = IF reader[s] = "ending" THEN "done" ELSE "ending"]
        /\ item' = [item EXCEPT ![s] = EndOf(s)] /\ interrupted' = interrupted \cup {s}
        /\ UNCHANGED <<written, pipe, queue, failed, handled>>
    BY <1>7 DEF InterruptReader, childVars, callVars
  <2>2. CASE s = "stdout"
    <3>1. Held' = <<>> /\ "stdout" \in interrupted'
      BY <2>1, <2>2 DEF Held, TypeOK, Streams
    <3> DEFINE before == handled \o LinesOf(queue)
    <3>2. Passed' = before
      BY <1>2, <2>1, <3>1, ConcatEmptySeq DEF Passed
    <3>4. Held \o rest \in Seq(Lines)
      BY <1>2, ConcatProperties
    <3>5. Passed = before \o Held
      BY DEF Passed
    <3>7. before \in Seq(Lines) /\ Held \in Seq(Lines) /\ rest \in Seq(Lines)
      BY <1>2
    <3> HIDE DEF before
    <3>3. (before \o Held) \o rest = before \o (Held \o rest)
      BY <3>7, Regroup
    <3>6. written' = Passed' \o (Held \o rest)
      BY <1>1, <2>1, <3>2, <3>3, <3>5
    <3> QED
      BY <3>1, <3>4, <3>6 DEF Flow
  <2>3. CASE s # "stdout"
    <3>1. Passed' = Passed
      BY <2>1, <2>3 DEF Passed, Held, TypeOK, Streams
    <3> QED
      BY <2>1, <3>1, FlowKept
  <2> QED
    BY <2>2, <2>3
<1>8. ASSUME NEW s \in Streams, EndOfFile(s) PROVE Flow'
  <2>1. Passed' = Passed
    BY <1>8 DEF EndOfFile, childVars, callVars, Passed, Held, TypeOK, Streams
  <2> QED
    BY <1>8, <2>1, FlowKept DEF EndOfFile, childVars
<1>9. CASE StderrOverflows
  <2>1. Passed' = Passed
    BY <1>9 DEF StderrOverflows, StartPut, childVars, callVars, Passed, Held, TypeOK, Streams
  <2> QED
    BY <1>9, <2>1, FlowKept DEF StderrOverflows, childVars
<1>10. CASE \/ ChildExits \/ SendPrompt \/ ChildGone \/ Deadline \/ Cancel
            \/ KillGroup \/ Return \/ UNCHANGED vars
  <2>1. UNCHANGED <<written, pipe, queue, reader, item, failed, interrupted, handled>>
    BY <1>10 DEF ChildExits, SendPrompt, ChildGone, Deadline, Timeout, GraceEnds, Cancel, KillGroup,
       Return, vars, childVars, readerVars, callVars
  <2> QED
    BY <2>1, FlowKept DEF Passed, Held
<1> QED
  BY <1>3, <1>4, <1>5, <1>6, <1>7, <1>8, <1>9, <1>10 DEF Next, ReaderStep, CleanupStep

\* Before the child writes, nothing is under way.
LEMMA InitFlows ==
  ASSUME Init
  PROVE  Flow /\ ItemsPlaced
<1>1. ItemsPlaced
  BY DEF Init, ItemsPlaced, EndOf, Lines, Streams
<1> DEFINE none == <<>>
<1>2. none \in Seq(Lines) /\ written = none /\ pipe = none /\ handled = none
  BY EmptySeq DEF Init
<1>3. Held = none /\ LinesOf(queue) = none
  BY LinesOfEmpty DEF Init, Held, Streams
<1> HIDE DEF none
<1>4. none \o none = none
  BY <1>2, ConcatEmptySeq DEF none
<1>5. written = Passed \o none
  BY <1>2, <1>3, <1>4 DEF Passed
<1> QED
  BY <1>1, <1>2, <1>5 DEF Flow

\* No line is lost between the child and the handler until the reader fails or
\* is interrupted (_read_stdout, _QueueSink, handle_item).
THEOREM LosesNoLine == Spec => []NoLineLost
<1>1. Init => Flow /\ ItemsPlaced
  BY InitFlows
<1>2. TypeOK /\ Flow /\ ItemsPlaced /\ [Next]_vars => Flow' /\ ItemsPlaced'
  BY FlowStep, ItemsStayPlaced
<1>3. TypeOK /\ Flow => NoLineLost
  BY FlowLosesNothing
<1> QED
  BY <1>1, <1>2, <1>3, Typed, PTL DEF Spec

-----------------------------------------------------------------------------
(* What a success handled *)

OnlyEvents(lines) == \A i \in 1..Len(lines) : lines[i] = "event"

Settles(lines) ==
  /\ Len(lines) > 0 /\ lines[Len(lines)] = "settled"
  /\ \A i \in 1..(Len(lines) - 1) : lines[i] = "event"

\* What the call handled at each of its stages, and when it succeeded.
Account ==
  /\ stage \in {"prompting", "loop"} => ~settled /\ OnlyEvents(handled) /\ outcome # "success"
  /\ stage = "grace" => settled /\ Settles(handled) /\ outcome # "success"
  /\ outcome = "success" => Settles(handled)

\* What was handled is accounted for after every step.
LEMMA AccountStep ==
  ASSUME TypeOK, Account, [Next]_vars
  PROVE  Account'
<1>1. CASE Handle
  <2> DEFINE what == Head(queue)
  <2>1. what \in Items /\ handled \in Seq(Lines)
    BY <1>1, HeadTailProperties DEF Handle, TypeOK
  <2>2. /\ handled' = IF what \in Lines THEN Append(handled, what) ELSE handled
        /\ settled' = (settled \/ what = "settled")
        /\ stage \in {"loop", "grace"}
    BY <1>1 DEF Handle
  <2>3. \/ /\ what \in {"event", "settled"} /\ ~settled
           /\ stage' = (IF what = "settled" THEN "grace" ELSE stage) /\ UNCHANGED outcome
        \/ /\ what = "stderr_end" \/ (what = "stdout_end" /\ settled)
           /\ UNCHANGED <<stage, outcome>>
        \/ stage' = "closing" /\ outcome' = "error"
    BY <1>1 DEF Handle, Finish
  <2> HIDE DEF what
  <2>4. what \in Lines => /\ Len(handled') = Len(handled) + 1 /\ handled'[Len(handled) + 1] = what
                          /\ \A i \in 1..Len(handled) : handled'[i] = handled[i]
    BY <2>1, <2>2, AppendProperties
  <2>5. Len(handled) \in Nat
    BY <2>1, LenProperties
  <2>6. CASE what = "event" /\ ~settled /\ stage' = stage /\ UNCHANGED outcome
    <3>1. OnlyEvents(handled) /\ stage = "loop" /\ ~settled' /\ outcome # "success"
      BY <2>2, <2>6 DEF Account
    <3>2. OnlyEvents(handled')
      BY <2>4, <2>5, <2>6, <3>1 DEF OnlyEvents, Lines
    <3> QED
      BY <2>6, <3>1, <3>2 DEF Account
  <2>7. CASE what = "settled" /\ ~settled /\ stage' = "grace" /\ UNCHANGED outcome
    <3>1. OnlyEvents(handled) /\ settled' /\ outcome # "success"
      BY <2>2, <2>7 DEF Account
    <3>2. Settles(handled')
      BY <2>4, <2>5, <2>7, <3>1 DEF OnlyEvents, Settles, Lines
    <3> QED
      BY <2>7, <3>1, <3>2 DEF Account
  <2>8. CASE what \in {"stderr_end", "stdout_end"} /\ UNCHANGED <<stage, outcome>>
    <3>1. UNCHANGED <<handled, settled>>
      BY <2>2, <2>8, <1>1 DEF TypeOK, Lines
    <3> QED
      BY <2>8, <3>1 DEF Account
  <2>9. CASE stage' = "closing" /\ outcome' = "error"
    BY <2>9 DEF Account
  <2> QED
    BY <2>3, <2>6, <2>7, <2>8, <2>9
<1>2. CASE SendPrompt \/ ChildGone \/ Deadline \/ Cancel \/ KillGroup \/ Return
  BY <1>2 DEF SendPrompt, ChildGone, Deadline, Timeout, GraceEnds, Cancel, KillGroup, Return, Finish,
     Account, TypeOK
<1>3. CASE ChildWrites \/ ChildExits \/ ReadLine \/ StderrOverflows \/ UNCHANGED vars
  BY <1>3 DEF ChildWrites, ChildExits, ReadLine, StderrOverflows, callVars, vars, Account
<1>4. CASE \E s \in Streams : EndOfFile(s) \/ Put(s) \/ InterruptReader(s)
  BY <1>4 DEF EndOfFile, Put, InterruptReader, callVars, Account
<1> QED
  BY <1>1, <1>2, <1>3, <1>4 DEF Next, ReaderStep, CleanupStep

\* What settles is events and then agent_settled.
LEMMA SettlesIsWhole ==
  ASSUME NEW lines \in Seq(Lines), Settles(lines)
  PROVE  lines = [i \in 1..(Len(lines) - 1) |-> "event"] \o <<"settled">>
<1> DEFINE events == [i \in 1..(Len(lines) - 1) |-> "event"]
           whole == events \o <<"settled">>
<1>1. Len(lines) \in Nat \ {0}
  BY LenProperties DEF Settles
<1>2. events \in Seq(Lines) /\ Len(events) = Len(lines) - 1
  BY <1>1, IsASeq DEF Lines
<1>3. <<"settled">> \in Seq(Lines) /\ Len(<<"settled">>) = 1
  BY DEF Lines
<1>4. \A i \in 1..(Len(lines) - 1) : events[i] = "event"
  OBVIOUS
<1> HIDE DEF events
<1>5. /\ whole \in Seq(Lines) /\ Len(whole) = Len(lines)
      /\ \A i \in 1..Len(lines) :
            whole[i] = IF i <= Len(lines) - 1 THEN events[i] ELSE <<"settled">>[i - (Len(lines) - 1)]
  BY <1>1, <1>2, <1>3, ConcatProperties
<1>6. \A i \in 1..Len(lines) : whole[i] = lines[i]
  BY <1>1, <1>4, <1>5 DEF Settles
<1> HIDE DEF whole
<1>7. whole = lines
  BY <1>5, <1>6, SeqEqual
<1> QED
  BY <1>7 DEF whole, events

\* The handled lines are the first ones written.
LEMMA HandledFirst ==
  ASSUME TypeOK, Flow
  PROVE  IsPrefix(handled, written)
<1>1. PICK rest \in Seq(Lines) : written = Passed \o rest
  BY DEF Flow
<1> DEFINE more == (LinesOf(queue) \o Held) \o rest
<1>2. /\ handled \in Seq(Lines) /\ LinesOf(queue) \in Seq(Lines) /\ Held \in Seq(Lines)
      /\ LinesOf(queue) \o Held \in Seq(Lines)
  BY PassedType, ConcatProperties DEF TypeOK
<1>3. more \in Seq(Lines)
  BY <1>2, ConcatProperties
<1>4. Passed = handled \o (LinesOf(queue) \o Held)
  BY <1>2, Regroup DEF Passed
<1>5. (handled \o (LinesOf(queue) \o Held)) \o rest = handled \o more
  BY <1>2, Regroup
<1>6. written = handled \o more
  BY <1>1, <1>4, <1>5
<1> HIDE DEF more
<1>7. /\ Len(handled) \in Nat /\ Len(more) \in Nat /\ Len(written) = Len(handled) + Len(more)
      /\ \A i \in 1..Len(handled) : written[i] = handled[i]
  BY <1>2, <1>3, <1>6, LenProperties, ConcatProperties
<1>8. SubSeq(handled, 1, Len(handled)) = handled
  BY <1>2, SubSeqFull
<1>9. /\ SubSeq(written, 1, Len(handled)) \in Seq(Lines)
      /\ Len(SubSeq(written, 1, Len(handled))) = Len(handled)
      /\ \A i \in 1..Len(handled) : SubSeq(written, 1, Len(handled))[i] = handled[i]
  <2>1. \A i \in 1..Len(handled) : written[i] \in Lines
    BY <1>2, <1>7, ElementOfSeq
  <2> QED
    BY <1>7, <2>1, SubSeqProperties
<1>10. SubSeq(written, 1, Len(handled)) = handled
  BY <1>2, <1>9, SeqEqual
<1> QED
  BY <1>7, <1>8, <1>10 DEF IsPrefix

\* A success handled lines the child wrote, from the first to agent_settled, and
\* none of them was refused (handle_item and the grace period of run_pi_rpc).
THEOREM WholeSuccess == Spec => []SuccessIsWhole
<1>1. Init => Flow /\ ItemsPlaced /\ Account
  <2>1. Init => Account
    BY LenProperties, EmptySeq DEF Init, Account, OnlyEvents
  <2> QED
    BY <2>1, InitFlows
<1>2. TypeOK /\ Flow /\ ItemsPlaced /\ Account /\ [Next]_vars => Flow' /\ ItemsPlaced' /\ Account'
  BY FlowStep, ItemsStayPlaced, AccountStep
<1>3. TypeOK /\ Flow /\ Account => SuccessIsWhole
  BY HandledFirst, SettlesIsWhole DEF TypeOK, Account, SuccessIsWhole
<1> QED
  BY <1>1, <1>2, <1>3, Typed, PTL DEF Spec

=============================================================================
