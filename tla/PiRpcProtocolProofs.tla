------------------------- MODULE PiRpcProtocolProofs -------------------------
(***************************************************************************)
(* PiRpcProtocol keeps its safety invariants for every set of calls and    *)
(* every length of the exchange: the client's books and the transcript     *)
(* tell the same story, so the client refuses what is unlawful and nothing *)
(* else, and the pipeline's verdict is the right one.                      *)
(***************************************************************************)
EXTENDS PiRpcProtocol, FiniteSetTheorems, SequenceTheorems, Recursion

-----------------------------------------------------------------------------
(* The inductive invariant *)

Image == "codex_imagegen"

Kinds ==
  /\ request \in {ImageRequest, EvaluatorRequest}
  /\ heard \in Seq(Events) /\ evidence \in Seq(Events) /\ completions \in Seq(Events)
  /\ response \in BOOLEAN /\ confirmation \in BOOLEAN
  /\ agentEnd \in BOOLEAN /\ settled \in BOOLEAN
  /\ text \in {"none", "evaluation", "prose"}
  /\ outcome \in {"open", "settled", "refused", "overflow", "broken", "accepted", "rejected"}

\* Neither request lets the child have more than one call: it has not started,
\* it runs or it is over.
NoCall == DOMAIN started = {} /\ active = {} /\ completed = {} /\ completions = <<>>

Began(c) == request = ImageRequest /\ DOMAIN started = {c} /\ started[c] = Image

OpenCall(c) == Began(c) /\ active = {c} /\ completed = {} /\ completions = <<>>

ClosedCall(c) ==
  /\ Began(c) /\ active = {} /\ completed = {c}
  /\ Len(completions) = 1 /\ completions[1].call = c

Books == NoCall \/ \E c \in Calls : OpenCall(c) \/ ClosedCall(c)

\* What is retained was counted once by a flag or a call.
Bit(flag) == IF flag THEN 1 ELSE 0

Counted ==
  Len(evidence) <= Bit(response) + Bit(confirmation) + Cardinality(DOMAIN started)
                     + Cardinality(completed) + Bit(agentEnd) + Bit(settled)

Places == 1..Len(heard)

\* What the transcript of an exchange that goes on says of the books.
Opening ==
  /\ \A i \in Places :
       /\ heard[i].type # "malformed"
       /\ heard[i].type = "response" => response /\ heard[i].ok
       /\ heard[i].type = "confirm" => confirmation /\ heard[i].ok /\ request.authorize
       /\ heard[i].type \in ToolTypes \cup {"confirm", "settled"} =>
             \E r \in Places : r < i /\ heard[r].type = "response"
  /\ \A i, j \in Places :
       heard[i].type = heard[j].type /\ heard[i].type \in {"response", "confirm"} => i = j
  /\ response => \E r \in Places : heard[r].type = "response"
  /\ confirmation => \E r \in Places : heard[r].type = "confirm"

Ending ==
  /\ \A i \in Places :
       /\ heard[i].type = "agent_end" => agentEnd
       /\ heard[i].type = "settled" => settled /\ i = Len(heard)
  /\ agentEnd => \E i \in Places : heard[i].type = "agent_end"
  /\ settled => /\ Len(heard) > 0 /\ heard[Len(heard)].type = "settled"
                /\ agentEnd /\ active = {}

Speaking ==
  \/ text = "none" /\ \A i \in Places : heard[i].type # "message"
  \/ \E m \in Places :
       /\ heard[m].type = "message" /\ heard[m].text = text
       /\ \A i \in Places : heard[i].type = "message" => i <= m

\* s is where the only call, c, started.
CallAt(c, s) ==
  /\ heard[s].type = "start" /\ heard[s].call = c /\ heard[s].tool = Image
  /\ \A i \in Places : heard[i].type \in ToolTypes =>
       /\ s <= i /\ heard[i].call = c /\ heard[i].tool = Image
       /\ heard[i].type = "start" => i = s

\* m is where it ended.
EndAt(m) ==
  /\ heard[m].type = "end" /\ heard[m].result # "malformed" /\ completions[1] = heard[m]
  /\ \A i \in Places :
       /\ heard[i].type \in ToolTypes => i <= m
       /\ heard[i].type = "end" => i = m

Calling ==
  \/ NoCall /\ \A i \in Places : heard[i].type \notin ToolTypes
  \/ \E c \in Calls, s \in Places :
       OpenCall(c) /\ CallAt(c, s) /\ \A i \in Places : heard[i].type # "end"
  \/ \E c \in Calls, s \in Places, m \in Places :
       ClosedCall(c) /\ CallAt(c, s) /\ EndAt(m)

Keeping == \A k \in 1..Len(evidence) : \E i \in Places : evidence[k] = heard[i]

Told == Opening /\ Ending /\ Speaking /\ Calling /\ Keeping

Concluded == outcome \in {"settled", "accepted", "rejected"}

Valid == IF request = ImageRequest THEN ImageValid ELSE EvaluationValid

ProtocolInv ==
  /\ Kinds /\ Books /\ Counted
  /\ outcome = "open" \/ Concluded => Told
  /\ Concluded => settled
  /\ outcome = "refused" => ~Lawful(request, heard)
  /\ outcome = "accepted" => Valid
  /\ outcome = "rejected" => ~Valid


-----------------------------------------------------------------------------
(* The books *)

EventTypes == {"response", "confirm", "start", "update", "end", "message", "malformed",
               "agent_end", "settled", "other"}

\* The fields of an event, by its type.
LEMMA EventFields ==
  ASSUME NEW e \in Events
  PROVE  /\ e.type \in EventTypes
         /\ e.type \in ToolTypes => e.call \in Calls /\ e.tool \in Tools
         /\ e.type = "message" => e.text \in {"evaluation", "prose"}
BY DEF Events, EventTypes, ToolTypes

\* How many calls started and were completed.
LEMMA BookSizes ==
  /\ NoCall => Cardinality(DOMAIN started) = 0 /\ Cardinality(completed) = 0
  /\ \A c : OpenCall(c) => Cardinality(DOMAIN started) = 1 /\ Cardinality(completed) = 0
  /\ \A c : ClosedCall(c) => Cardinality(DOMAIN started) = 1 /\ Cardinality(completed) = 1
<1>1. Cardinality({}) = 0 /\ \A c : Cardinality({c}) = 1
  BY FS_EmptySet, FS_Singleton
<1> QED
  BY <1>1 DEF NoCall, OpenCall, ClosedCall, Began

\* The two requests of the pipeline.
LEMMA Requests ==
  ASSUME Kinds
  PROVE  /\ request = ImageRequest => request.authorize /\ request.tools = {Image} /\ request.starts = 1
         /\ request # ImageRequest => ~request.authorize /\ request.tools = {} /\ request.starts = 0
BY DEF Kinds, ImageRequest, EvaluatorRequest, Image

\* The events that are not refused at once, by what handles them.
LEMMA HearCases ==
  ASSUME NEW e \in Events, Hear(e)
  PROVE  /\ outcome = "open" /\ heard' = Append(heard, e) /\ request' = request
         /\ \/ ~Fits(e) /\ Refuse
            \/ Fits(e) /\ (Response(e) \/ Confirm(e) \/ Start(e) \/ End(e)
                            \/ Message(e) \/ AgentEnd(e) \/ Settled(e) \/ Ignore(e))
BY DEF Hear

\* What Retain does, when it is allowed to.
LEMMA Retains ==
  ASSUME Kinds, NEW e \in Events, Retain(e)
  PROVE  /\ evidence' \in Seq(Events) /\ outcome' \in {outcome, "overflow"}
         /\ Len(evidence') <= Len(evidence) + 1
         /\ outcome' # "overflow" => evidence' = Append(evidence, e)
BY AppendProperties, LenProperties DEF Retain, Kinds

\* Types through every step.
LEMMA KindsStep ==
  ASSUME Kinds, [Next]_vars
  PROVE  Kinds'
<1>1. ASSUME NEW e \in Events, Hear(e) PROVE Kinds'
  <2> USE DEF Kinds
  <2>0. Append(heard, e) \in Seq(Events)
    BY AppendProperties
  <2>1. /\ outcome = "open" /\ request' = request /\ heard' \in Seq(Events)
    BY <1>1, <2>0 DEF Hear
  <2>2. CASE Refuse
    BY <2>1, <2>2 DEF Refuse, toolVars, flagVars
  <2>3. ASSUME Retain(e) PROVE evidence' \in Seq(Events) /\ outcome' \in {"open", "overflow"}
    BY <2>1, <2>3, Retains
  <2>4. CASE Response(e)
    BY <2>1, <2>3, <2>4 DEF Response, toolVars
  <2>5. CASE Confirm(e)
    <3>1. Append(evidence, e) \in Seq(Events)
      BY AppendProperties
    <3>2. evidence' \in Seq(Events)
      BY <2>5, <3>1 DEF Confirm
    <3>3. outcome' \in {"open", "overflow", "broken", "refused"}
      BY <2>5 DEF Confirm
    <3> QED
      BY <2>1, <2>5, <3>2, <3>3 DEF Confirm, toolVars
  <2>6. CASE Start(e)
    BY <2>1, <2>3, <2>6 DEF Start, flagVars
  <2>7. CASE End(e)
    BY <2>1, <2>3, <2>7, AppendProperties DEF End, flagVars
  <2>8. CASE Message(e)
    BY <2>1, <2>8, EventFields DEF Message, toolVars
  <2>9. CASE AgentEnd(e)
    BY <2>1, <2>3, <2>9 DEF AgentEnd, toolVars
  <2>10. CASE Settled(e)
    BY <2>1, <2>3, <2>10 DEF Settled, toolVars
  <2>11. CASE Ignore(e)
    BY <2>1, <2>11 DEF Ignore, toolVars, flagVars
  <2> QED
    BY <1>1, <2>2, <2>4, <2>5, <2>6, <2>7, <2>8, <2>9, <2>10, <2>11, HearCases
<1>2. CASE Conclude \/ Judge \/ UNCHANGED vars
  BY <1>2 DEF Conclude, Judge, vars, toolVars, flagVars, Kinds
<1> QED
  BY <1>1, <1>2 DEF Next

\* A call may start only when none did, and end only when it runs.
LEMMA FittingCalls ==
  ASSUME Kinds, Books, NEW e \in Events, Fits(e)
  PROVE  /\ e.type = "start" => NoCall /\ request = ImageRequest /\ e.tool = Image
         /\ e.type \in {"update", "end"} =>
              OpenCall(e.call) /\ e.tool = Image /\ (e.type = "end" => e.result # "malformed")
         /\ e.type = "settled" => agentEnd /\ active = {}
         /\ e.type \in ToolTypes \cup {"confirm", "settled"} => response
         /\ e.type = "response" => ~response /\ e.ok
         /\ e.type = "confirm" => ~confirmation /\ e.ok
         /\ e.type # "malformed" /\ ~settled
<1>1. e.type = "start" => MayStart(e)
  BY DEF Fits, ToolTypes
<1>2. MayStart(e) => NoCall /\ request = ImageRequest /\ e.tool = Image
  <2> SUFFICES ASSUME MayStart(e) PROVE NoCall /\ request = ImageRequest /\ e.tool = Image
    OBVIOUS
  <2>1. Cardinality(DOMAIN started) < request.starts /\ e.tool \in request.tools
    BY DEF MayStart
  <2>2. Cardinality(DOMAIN started) \in {0, 1} /\ (~NoCall => Cardinality(DOMAIN started) = 1)
    BY BookSizes DEF Books
  <2>3. request = ImageRequest
    BY <2>1, <2>2, Requests
  <2> QED
    BY <2>1, <2>2, <2>3, Requests
<1>3. e.type \in {"update", "end"} =>
         e.call \in DOMAIN started \ completed /\ e.tool = started[e.call]
           /\ (e.type = "end" => e.result # "malformed")
  BY DEF Fits, ToolTypes
<1>4. e.call \in DOMAIN started \ completed => OpenCall(e.call) /\ started[e.call] = Image
  BY DEF Books, NoCall, OpenCall, ClosedCall, Began
<1> QED
  BY <1>1, <1>2, <1>3, <1>4 DEF Fits, MaySettle, ToolTypes

\* At most one call in the books, and the books agree, after every step.
LEMMA BooksStep ==
  ASSUME Kinds, Books, [Next]_vars
  PROVE  Books'
<1>1. ASSUME NEW e \in Events, Hear(e) PROVE Books'
  <2>1. CASE UNCHANGED toolVars
    BY <1>1, <2>1, HearCases DEF Books, NoCall, OpenCall, ClosedCall, Began, toolVars
  <2>2. CASE Fits(e) /\ Start(e)
    <3>1. NoCall /\ request' = ImageRequest /\ e.tool = Image /\ e.call \in Calls
      BY <1>1, <2>2, HearCases, FittingCalls, EventFields DEF Start, ToolTypes
    <3>2. OpenCall(e.call)'
      BY <2>2, <3>1 DEF Start, NoCall, OpenCall, Began
    <3> QED
      BY <3>1, <3>2 DEF Books
  <2>3. CASE Fits(e) /\ End(e)
    <3>1. OpenCall(e.call) /\ request' = request /\ e.call \in Calls
      BY <1>1, <2>3, HearCases, FittingCalls, EventFields DEF End, ToolTypes
    <3>2. Len(completions') = 1 /\ completions'[1] = e
      BY <2>3, <3>1 DEF End, OpenCall
    <3>3. ClosedCall(e.call)'
      BY <2>3, <3>1, <3>2 DEF End, flagVars, OpenCall, ClosedCall, Began
    <3> QED
      BY <3>1, <3>3 DEF Books
  <2> QED
    BY <1>1, <2>1, <2>2, <2>3, HearCases DEF Refuse, Response, Confirm, Message, AgentEnd, Settled, Ignore
<1>2. CASE Conclude \/ Judge \/ UNCHANGED vars
  BY <1>2 DEF Conclude, Judge, vars, toolVars, flagVars, Books, NoCall, OpenCall, ClosedCall, Began
<1> QED
  BY <1>1, <1>2 DEF Next

\* The parts of the invariant hold before the first event.
LEMMA InitKept == Init => Kinds /\ Books /\ Counted /\ Told
<1> SUFFICES ASSUME Init PROVE Kinds /\ Books /\ Counted /\ Told
  OBVIOUS
<1>1. Kinds
  BY EmptySeq DEF Init, Kinds
<1>2. NoCall /\ Books
  BY DEF Init, NoCall, Books
<1>3. Len(heard) = 0 /\ Places = {} /\ Len(evidence) = 0
  BY EmptySeq DEF Init, Places
<1>4. Counted
  BY <1>2, <1>3, BookSizes DEF Init, Counted, Bit
<1>5. Told
  BY <1>2, <1>3 DEF Init, Told, Opening, Ending, Speaking, Calling, Keeping
<1> QED
  BY <1>1, <1>2, <1>4, <1>5

\* Books that agree are well typed.
LEMMA BooksTyped ==
  ASSUME Kinds, Books
  PROVE  TypeOK
<1>1. {response, confirmation, agentEnd, settled} \subseteq BOOLEAN
  BY DEF Kinds
<1>2. DOMAIN started = active \cup completed /\ active \cap completed = {}
  BY DEF Books, NoCall, OpenCall, ClosedCall, Began
<1>3. Cardinality(DOMAIN started) <= request.starts
  <2>1. Cardinality(DOMAIN started) = 0 \/ (Cardinality(DOMAIN started) = 1 /\ request = ImageRequest)
    BY BookSizes DEF Books, OpenCall, ClosedCall, Began
  <2>2. request.starts \in {0, 1} /\ (request = ImageRequest => request.starts = 1)
    BY Requests
  <2> QED
    BY <2>1, <2>2
<1>4. [i \in DOMAIN completions |-> completions[i].call] \in [1..Cardinality(completed) -> completed]
  <2>1. CASE completions = <<>> /\ completed = {}
    <3>1. DOMAIN completions = {} /\ 1..Cardinality(completed) = {}
      BY <2>1, FS_EmptySet
    <3> QED
      BY <2>1, <3>1
  <2>2. ASSUME NEW c, ClosedCall(c)
        PROVE  [i \in DOMAIN completions |-> completions[i].call] \in [1..Cardinality(completed) -> completed]
    <3>1. DOMAIN completions = 1..1 /\ completions[1].call = c
      BY <2>2 DEF ClosedCall, Kinds
    <3>2. Cardinality(completed) = 1 /\ completed = {c}
      BY <2>2, BookSizes DEF ClosedCall
    <3> QED
      BY <3>1, <3>2
  <2> QED
    BY <2>1, <2>2 DEF Books, NoCall, OpenCall
<1> QED
  BY <1>1, <1>2, <1>3, <1>4 DEF TypeOK, Kinds

\* The client's books agree with each other after every event (the sets and the
\* record of run_pi_rpc), for every set of call identifiers.
THEOREM Typed == Spec => []TypeOK
<1>1. Init => Kinds /\ Books
  BY InitKept
<1>2. Kinds /\ Books /\ [Next]_vars => Kinds' /\ Books'
  BY KindsStep, BooksStep
<1>3. Kinds /\ Books => TypeOK
  BY BooksTyped
<1> QED
  BY <1>1, <1>2, <1>3, PTL DEF Spec

-----------------------------------------------------------------------------
(* The evidence *)

\* Every event that is retained is counted, and was not counted before.
LEMMA CountedStep ==
  ASSUME Kinds, Books, Counted, [Next]_vars
  PROVE  /\ Counted'
         /\ MaxEvidence >= 6 /\ outcome # "overflow" => outcome' # "overflow"
<1> DEFINE started0 == Cardinality(DOMAIN started)
           completed0 == Cardinality(completed)
<1>1. started0 \in {0, 1} /\ completed0 \in {0, 1} /\ Len(evidence) \in Nat /\ MaxEvidence \in Nat
  BY BookSizes, LenProperties, EvidenceAssumption DEF Books, Kinds
<1>2. ASSUME NEW e \in Events, Hear(e)
      PROVE  /\ Counted'
             /\ MaxEvidence >= 6 => outcome' # "overflow"
  <2>1. outcome = "open" /\ Kinds'
    BY <1>2, HearCases, KindsStep DEF Next
  <2> DEFINE grew == Len(evidence') <= Len(evidence) + 1
             fits == MaxEvidence >= 6 /\ Len(evidence) < 6 => outcome' # "overflow"
  <2>2. ASSUME Retain(e) PROVE grew /\ fits /\ Len(evidence') \in Nat
    <3>1. grew /\ evidence' \in Seq(Events)
      BY <2>2, Retains
    <3>2. fits
      BY <1>1, <2>1, <2>2 DEF Retain
    <3> QED
      BY <3>1, <3>2, LenProperties
  <2>3. CASE Fits(e) /\ Response(e)
    <3>1. ~response /\ response' /\ UNCHANGED <<started, completed, confirmation, agentEnd, settled>>
      BY <1>2, <2>3, FittingCalls DEF Response, toolVars
    <3>2. grew /\ fits /\ Len(evidence') \in Nat
      BY <2>2, <2>3 DEF Response
    <3> QED
      BY <1>1, <2>1, <3>1, <3>2 DEF Counted, Bit
  <2>4. CASE Fits(e) /\ Confirm(e)
    <3>1. ~confirmation /\ confirmation' /\ UNCHANGED <<started, completed, response, agentEnd, settled>>
      BY <1>2, <2>4, FittingCalls, HearCases DEF Confirm, toolVars
    <3>2. grew /\ fits /\ Len(evidence') \in Nat
      BY <1>1, <2>1, <2>4, AppendProperties DEF Confirm, Kinds
    <3> QED
      BY <1>1, <2>1, <3>1, <3>2 DEF Counted, Bit
  <2>5. CASE Fits(e) /\ Start(e)
    <3>1. NoCall /\ UNCHANGED <<completed, response, confirmation, agentEnd, settled>>
      BY <2>5, FittingCalls DEF Start, flagVars
    <3>2. DOMAIN started' = {e.call} /\ completed = {}
      BY <2>5, <3>1 DEF Start, NoCall
    <3>3. grew /\ fits /\ Len(evidence') \in Nat
      BY <2>2, <2>5 DEF Start
    <3>4. started0 = 0 /\ completed0 = 0 /\ Cardinality(DOMAIN started') = 1 /\ Cardinality(completed') = 0
      BY <3>1, <3>2, FS_EmptySet, FS_Singleton, BookSizes
    <3> QED
      BY <1>1, <2>1, <3>1, <3>3, <3>4 DEF Counted, Bit
  <2>6. CASE Fits(e) /\ End(e)
    <3>1. OpenCall(e.call) /\ UNCHANGED <<started, response, confirmation, agentEnd, settled>>
      BY <2>6, FittingCalls DEF End, flagVars
    <3>2. completed' = {e.call} /\ completed = {}
      BY <2>6, <3>1 DEF End, OpenCall
    <3>3. grew /\ fits /\ Len(evidence') \in Nat
      BY <2>2, <2>6 DEF End
    <3>4. started0 = 1 /\ completed0 = 0 /\ Cardinality(completed') = 1
      BY <3>1, <3>2, FS_EmptySet, FS_Singleton, BookSizes
    <3> QED
      BY <1>1, <2>1, <3>1, <3>3, <3>4 DEF Counted, Bit
  <2>7. CASE Fits(e) /\ AgentEnd(e)
    <3>1. agentEnd' /\ UNCHANGED <<started, completed, response, confirmation, settled>>
      BY <2>7 DEF AgentEnd, toolVars
    <3>2. CASE agentEnd
      BY <2>1, <2>7, <3>1, <3>2 DEF AgentEnd, Counted
    <3>3. CASE ~agentEnd
      <4>1. grew /\ fits /\ Len(evidence') \in Nat
        BY <2>2, <2>7, <3>3 DEF AgentEnd
      <4> QED
        BY <1>1, <2>1, <3>1, <3>3, <4>1 DEF Counted, Bit
    <3> QED
      BY <3>2, <3>3
  <2>8. CASE Fits(e) /\ Settled(e)
    <3>1. ~settled /\ settled' /\ UNCHANGED <<started, completed, response, confirmation, agentEnd>>
      BY <2>8, FittingCalls DEF Settled, toolVars
    <3>2. grew /\ fits /\ Len(evidence') \in Nat
      BY <2>2, <2>8 DEF Settled
    <3> QED
      BY <1>1, <2>1, <3>1, <3>2 DEF Counted, Bit
  <2>9. CASE Refuse \/ Message(e) \/ Ignore(e)
    BY <2>1, <2>9 DEF Refuse, Message, Ignore, toolVars, flagVars, Counted
  <2> QED
    BY <1>2, <2>3, <2>4, <2>5, <2>6, <2>7, <2>8, <2>9, HearCases
<1>3. CASE Conclude \/ Judge \/ UNCHANGED vars
  BY <1>3 DEF Conclude, Judge, vars, toolVars, flagVars, Counted
<1> QED
  BY <1>2, <1>3 DEF Next

\* With room for six records (_MAX_RPC_EVIDENCE_RECORDS) no
\* exchange of the pipeline's requests fails for too many, however long it is.
THEOREM SixSuffice ==
  ASSUME MaxEvidence >= 6
  PROVE  Spec => []EvidenceSuffices
<1>1. Init => Kinds /\ Books /\ Counted /\ EvidenceSuffices
  BY InitKept DEF Init, EvidenceSuffices
<1>2. Kinds /\ Books /\ Counted /\ EvidenceSuffices /\ [Next]_vars
        => Kinds' /\ Books' /\ Counted' /\ EvidenceSuffices'
  BY KindsStep, BooksStep, CountedStep DEF EvidenceSuffices
<1> QED
  BY <1>1, <1>2, PTL DEF Spec


-----------------------------------------------------------------------------
(* The transcript *)

\* The next event is at the last place.
Next1 == Len(heard) + 1

\* An event is heard at the end of the transcript.
LEMMA Grows ==
  ASSUME Kinds, NEW e \in Events, Hear(e)
  PROVE  /\ Len(heard) \in Nat /\ Len(heard') = Next1 /\ Next1 \notin Places
         /\ Places' = Places \cup {Next1} /\ \A i \in Places : i \in Nat /\ i < Next1
         /\ heard'[Next1] = e /\ \A i \in Places : heard'[i] = heard[i]
<1>1. heard \in Seq(Events) /\ heard' = Append(heard, e)
  BY HearCases DEF Kinds
<1>2. /\ Len(heard) \in Nat /\ Len(heard') = Len(heard) + 1 /\ heard'[Len(heard) + 1] = e
      /\ \A i \in 1..Len(heard) : heard'[i] = heard[i]
  BY <1>1, LenProperties, AppendProperties
<1> QED
  BY <1>2 DEF Places, Next1

\* What an event that is taken does to the books.
LEMMA Takes ==
  ASSUME Kinds, Books, NEW e \in Events, Hear(e), outcome' = "open"
  PROVE  /\ Fits(e) /\ request' = request
         /\ response' = (response \/ e.type = "response")
         /\ confirmation' = (confirmation \/ e.type = "confirm")
         /\ agentEnd' = (agentEnd \/ e.type = "agent_end")
         /\ settled' = (settled \/ e.type = "settled")
         /\ text' = IF e.type = "message" THEN e.text ELSE text
         /\ e.type = "confirm" => request.authorize
         /\ e.type = "start" => Start(e)
         /\ e.type = "end" => End(e)
         /\ e.type \notin {"start", "end"} => UNCHANGED toolVars
         /\ evidence' = evidence \/ evidence' = Append(evidence, e)
<1> USE DEF Kinds, flagVars
<1>1. /\ outcome = "open" /\ request' = request /\ Fits(e)
      /\ \/ Response(e) \/ Confirm(e) \/ Start(e) \/ End(e)
         \/ Message(e) \/ AgentEnd(e) \/ Settled(e) \/ Ignore(e)
  BY HearCases DEF Refuse
<1>2. Retain(e) => evidence' = Append(evidence, e)
  BY Retains
<1>3. CASE Response(e)
  BY <1>1, <1>2, <1>3 DEF Response
<1>4. CASE Confirm(e)
  BY <1>1, <1>2, <1>4 DEF Confirm
<1>5. CASE Start(e)
  BY <1>1, <1>2, <1>5 DEF Start
<1>6. CASE End(e)
  BY <1>1, <1>2, <1>6 DEF End
<1>7. CASE Message(e)
  BY <1>1, <1>2, <1>7 DEF Message
<1>8. CASE AgentEnd(e)
  BY <1>1, <1>2, <1>8 DEF AgentEnd
<1>9. CASE Settled(e)
  BY <1>1, <1>2, <1>9 DEF Settled
<1>10. CASE Ignore(e)
  BY <1>1, <1>10 DEF Ignore
<1> QED
  BY <1>1, <1>3, <1>4, <1>5, <1>6, <1>7, <1>8, <1>9, <1>10

\* What is known of response and confirmation, after one more event.
LEMMA OpeningStep ==
  ASSUME Kinds, Books, Opening, NEW e \in Events, Hear(e), outcome' = "open"
  PROVE  Opening'
<1>1. /\ Places' = Places \cup {Next1} /\ \A i \in Places : i < Next1
      /\ heard'[Next1] = e /\ \A i \in Places : heard'[i] = heard[i]
  BY Grows
<1>2. /\ request' = request
      /\ response' = (response \/ e.type = "response")
      /\ confirmation' = (confirmation \/ e.type = "confirm")
      /\ e.type = "confirm" => request.authorize
      /\ e.type \in ToolTypes \cup {"confirm", "settled"} => response
      /\ e.type = "response" => ~response /\ e.ok
      /\ e.type = "confirm" => ~confirmation /\ e.ok
      /\ e.type # "malformed"
  BY Takes, FittingCalls
<1> HIDE DEF Next1, Places, ToolTypes
<1>3. ASSUME NEW i \in Places'
      PROVE  /\ heard'[i].type # "malformed"
             /\ heard'[i].type = "response" => response' /\ heard'[i].ok
             /\ heard'[i].type = "confirm" => confirmation' /\ heard'[i].ok /\ request'.authorize
  BY <1>1, <1>2, <1>3 DEF Opening
<1>4. ASSUME NEW i \in Places', heard'[i].type \in ToolTypes \cup {"confirm", "settled"}
      PROVE  \E r \in Places' : r < i /\ heard'[r].type = "response"
  <2>1. CASE i \in Places
    BY <1>1, <1>4, <2>1 DEF Opening
  <2>2. CASE i = Next1
    BY <1>1, <1>2, <1>4, <2>2 DEF Opening
  <2> QED
    BY <1>1, <2>1, <2>2
<1>5. ASSUME NEW i \in Places', NEW j \in Places', heard'[i].type = heard'[j].type,
             heard'[i].type \in {"response", "confirm"}
      PROVE  i = j
  BY <1>1, <1>2, <1>5 DEF Opening
<1>6. /\ response' => \E r \in Places' : heard'[r].type = "response"
      /\ confirmation' => \E r \in Places' : heard'[r].type = "confirm"
  BY <1>1, <1>2 DEF Opening
<1> QED
  BY <1>3, <1>4, <1>5, <1>6 DEF Opening

\* What is known of the end, after one more event.
LEMMA EndingStep ==
  ASSUME Kinds, Books, Ending, NEW e \in Events, Hear(e), outcome' = "open"
  PROVE  Ending'
<1>1. /\ Len(heard') = Next1 /\ Len(heard') > 0
      /\ Places' = Places \cup {Next1} /\ \A i \in Places : i < Next1
      /\ heard'[Next1] = e /\ \A i \in Places : heard'[i] = heard[i]
  BY Grows DEF Next1
<1>2. /\ agentEnd' = (agentEnd \/ e.type = "agent_end")
      /\ settled' = (settled \/ e.type = "settled")
      /\ e.type = "settled" => agentEnd /\ active = {}
      /\ ~settled
      /\ e.type \notin {"start", "end"} => active' = active
  BY Takes, FittingCalls DEF toolVars
<1> HIDE DEF Next1, Places
<1>3. ASSUME NEW i \in Places'
      PROVE  /\ heard'[i].type = "agent_end" => agentEnd'
             /\ heard'[i].type = "settled" => settled' /\ i = Len(heard')
  BY <1>1, <1>2, <1>3 DEF Ending
<1>4. agentEnd' => \E i \in Places' : heard'[i].type = "agent_end"
  BY <1>1, <1>2 DEF Ending
<1>5. settled' => heard'[Len(heard')].type = "settled" /\ agentEnd' /\ active' = {}
  BY <1>1, <1>2
<1> QED
  BY <1>1, <1>3, <1>4, <1>5 DEF Ending

\* What is known of the messages, after one more event.
LEMMA SpeakingStep ==
  ASSUME Kinds, Books, Speaking, NEW e \in Events, Hear(e), outcome' = "open"
  PROVE  Speaking'
<1>1. /\ Places' = Places \cup {Next1} /\ \A i \in Places : i \in Nat /\ i < Next1
      /\ Next1 \in Nat
      /\ heard'[Next1] = e /\ \A i \in Places : heard'[i] = heard[i]
  BY Grows DEF Next1
<1>2. text' = IF e.type = "message" THEN e.text ELSE text
  BY Takes
<1> HIDE DEF Next1, Places
<1>3. CASE e.type = "message"
  BY <1>1, <1>2, <1>3 DEF Speaking
<1>4. CASE e.type # "message"
  BY <1>1, <1>2, <1>4 DEF Speaking
<1> QED
  BY <1>3, <1>4

\* What is retained was heard, after one more event.
LEMMA KeepingStep ==
  ASSUME Kinds, Books, Keeping, NEW e \in Events, Hear(e), outcome' = "open"
  PROVE  Keeping'
<1>1. /\ Places' = Places \cup {Next1}
      /\ heard'[Next1] = e /\ \A i \in Places : heard'[i] = heard[i]
  BY Grows
<1>2. CASE evidence' = evidence
  BY <1>1, <1>2 DEF Keeping
<1>3. CASE evidence' = Append(evidence, e)
  <2>1. Len(evidence') = Len(evidence) + 1 /\ Len(evidence) \in Nat /\ evidence'[Len(evidence) + 1] = e
        /\ \A k \in 1..Len(evidence) : evidence'[k] = evidence[k]
    BY <1>3, AppendProperties, LenProperties DEF Kinds
  <2> QED
    BY <1>1, <2>1 DEF Keeping
<1> QED
  BY <1>2, <1>3, Takes

\* What is known of the call, after one more event.
LEMMA CallingStep ==
  ASSUME Kinds, Books, Calling, NEW e \in Events, Hear(e), outcome' = "open"
  PROVE  Calling'
<1>0. PICK last : last = Next1
  OBVIOUS
<1>1. /\ Places' = Places \cup {last} /\ \A i \in Places : i \in Nat /\ i < last
      /\ last \in Nat /\ last \in Places'
      /\ heard'[last] = e /\ \A i \in Places : heard'[i] = heard[i]
  BY <1>0, Grows DEF Next1
<1>2. /\ Fits(e) /\ request' = request
      /\ e.type = "start" => Start(e)
      /\ e.type = "end" => End(e)
      /\ e.type \notin {"start", "end"} => UNCHANGED toolVars
  BY Takes
<1>3. e.type \in ToolTypes => e.call \in Calls
  BY EventFields
<1> HIDE DEF Places
<1>4. CASE e.type \notin ToolTypes
  <2>1. UNCHANGED toolVars
    BY <1>2, <1>4 DEF ToolTypes
  <2>2. /\ NoCall' = NoCall
        /\ \A c : OpenCall(c)' = OpenCall(c) /\ ClosedCall(c)' = ClosedCall(c)
    BY <1>2, <2>1 DEF NoCall, OpenCall, ClosedCall, Began, toolVars
  <2>3. CASE NoCall /\ \A i \in Places : heard[i].type \notin ToolTypes
    BY <1>1, <1>4, <2>2, <2>3 DEF Calling
  <2>4. ASSUME NEW c \in Calls, NEW s \in Places, OpenCall(c), CallAt(c, s),
               \A i \in Places : heard[i].type # "end"
        PROVE  Calling'
    <3>1. CallAt(c, s)' /\ s \in Places' /\ \A i \in Places' : heard'[i].type # "end"
      BY <1>1, <1>4, <2>4 DEF CallAt, ToolTypes
    <3> QED
      BY <2>2, <2>4, <3>1 DEF Calling
  <2>5. ASSUME NEW c \in Calls, NEW s \in Places, NEW m \in Places, ClosedCall(c), CallAt(c, s), EndAt(m)
        PROVE  Calling'
    <3>1. CallAt(c, s)' /\ s \in Places' /\ m \in Places'
      BY <1>1, <1>4, <2>5 DEF CallAt, ToolTypes
    <3>2. EndAt(m)'
      BY <1>1, <1>4, <2>1, <2>5 DEF EndAt, ToolTypes, toolVars
    <3> QED
      BY <2>2, <2>5, <3>1, <3>2 DEF Calling
  <2> QED
    BY <2>3, <2>4, <2>5 DEF Calling
<1>5. CASE e.type = "start"
  <2>1. NoCall /\ request = ImageRequest /\ e.tool = Image /\ Start(e)
    BY <1>2, <1>5, FittingCalls
  <2>2. OpenCall(e.call)'
    BY <1>2, <2>1 DEF Start, NoCall, OpenCall, Began
  <2>3. \A i \in Places : heard[i].type \notin ToolTypes
    BY <2>1 DEF Calling, NoCall, OpenCall, ClosedCall
  <2>4. CallAt(e.call, last)' /\ \A i \in Places' : heard'[i].type # "end"
    BY <1>1, <1>5, <2>1, <2>3 DEF CallAt, ToolTypes
  <2> QED
    BY <1>1, <1>3, <1>5, <2>2, <2>4 DEF Calling, ToolTypes
<1>6. CASE e.type \in {"update", "end"}
  <2>1. OpenCall(e.call) /\ e.tool = Image /\ (e.type = "end" => e.result # "malformed")
    BY <1>2, <1>6, FittingCalls
  <2>2. PICK s \in Places : CallAt(e.call, s) /\ \A i \in Places : heard[i].type # "end"
    BY <2>1 DEF Calling, NoCall, OpenCall, ClosedCall, Began
  <2> DEFINE c == e.call
  <2>3. c \in Calls /\ c = e.call
    BY <1>3, <1>6 DEF ToolTypes
  <2> HIDE DEF c
  <2>4. CallAt(c, s)' /\ s \in Places'
    BY <1>1, <1>6, <2>1, <2>2, <2>3 DEF CallAt, ToolTypes
  <2>5. CASE e.type = "update"
    <3>1. OpenCall(c)'
      BY <1>2, <2>1, <2>3, <2>5 DEF OpenCall, Began, toolVars
    <3>2. \A i \in Places' : heard'[i].type # "end"
      BY <1>1, <2>2, <2>5
    <3> QED
      BY <2>3, <2>4, <3>1, <3>2 DEF Calling
  <2>6. CASE e.type = "end"
    <3>1. Len(completions') = 1 /\ completions'[1] = e
      BY <1>2, <2>1, <2>6 DEF End, OpenCall
    <3>2. ClosedCall(c)'
      BY <1>2, <2>1, <2>3, <2>6, <3>1 DEF End, flagVars, OpenCall, ClosedCall, Began
    <3>3. EndAt(last)'
      BY <1>1, <2>1, <2>2, <2>6, <3>1 DEF EndAt
    <3> QED
      BY <1>1, <2>3, <2>4, <3>2, <3>3 DEF Calling
  <2> QED
    BY <1>6, <2>5, <2>6
<1> QED
  BY <1>4, <1>5, <1>6 DEF ToolTypes

\* Client and transcript tell the same story after one more event.
LEMMA ToldStep ==
  ASSUME Kinds, Books, Told, NEW e \in Events, Hear(e), outcome' = "open"
  PROVE  Told'
BY OpeningStep, EndingStep, SpeakingStep, CallingStep, KeepingStep DEF Told

-----------------------------------------------------------------------------
(* Lawful transcripts *)

\* The places of some types of events are finitely many.
LEMMA Finitely ==
  ASSUME NEW t \in Seq(Events), NEW K
  PROVE  /\ At(t, K) = {i \in 1..Len(t) : t[i].type \in K}
         /\ IsFiniteSet(At(t, K)) /\ Len(t) \in Nat
<1>1. Len(t) \in Nat /\ DOMAIN t = 1..Len(t)
  BY LenProperties
<1>2. At(t, K) \in SUBSET (1..Len(t)) /\ At(t, K) = {i \in 1..Len(t) : t[i].type \in K}
  BY <1>1 DEF At
<1>3. IsFiniteSet(1..Len(t))
  BY <1>1, FS_Interval
<1> QED
  BY <1>1, <1>2, <1>3, FS_Subset

\* Two things are two.
LEMMA Pair ==
  ASSUME NEW x, NEW y, x # y
  PROVE  Cardinality({x} \cup {y}) = 2
<1>1. IsFiniteSet({x}) /\ Cardinality({x}) = 1
  BY FS_Singleton
<1> QED
  BY <1>1, FS_AddElement

\* At most one is any two the same.
LEMMA AtMostOne ==
  ASSUME NEW S, IsFiniteSet(S)
  PROVE  Cardinality(S) <= 1 <=> \A x, y \in S : x = y
<1>1. ASSUME Cardinality(S) <= 1, NEW x \in S, NEW y \in S, x # y PROVE FALSE
  <2>2. Cardinality({x} \cup {y}) = 2 /\ {x} \cup {y} \in SUBSET S
    BY <1>1, Pair
  <2>3. Cardinality({x} \cup {y}) <= Cardinality(S) /\ Cardinality(S) \in Nat
    BY <2>2, FS_Subset, FS_CardinalityType
  <2> QED
    BY <1>1, <2>2, <2>3
<1>2. ASSUME \A x, y \in S : x = y PROVE Cardinality(S) <= 1
  <2>1. CASE S = {}
    BY <2>1, FS_EmptySet
  <2>2. CASE S # {}
    <3>1. PICK x \in S : TRUE
      BY <2>2
    <3>2. S = {x}
      BY <1>2, <3>1
    <3> QED
      BY <3>2, FS_Singleton
  <2> QED
    BY <2>1, <2>2
<1> QED
  BY <1>1, <1>2

\* The greatest of a set of numbers.
LEMMA Greatest ==
  ASSUME NEW S \in SUBSET Nat, NEW m \in S, \A x \in S : x <= m
  PROVE  Max(S) = m
<1>1. \A x \in S : (\A y \in S : x >= y) => x = m
  OBVIOUS
<1> QED
  BY <1>1 DEF Max

\* The transcript of an exchange that goes on is lawful.
LEMMA ToldIsLawful ==
  ASSUME Kinds, Told
  PROVE  Lawful(request, heard)
<1> DEFINE calls == {heard[i].call : i \in At(heard, ToolTypes)}
<1>1. \A K : At(heard, K) = {i \in Places : heard[i].type \in K} /\ IsFiniteSet(At(heard, K))
  BY Finitely DEF Kinds, Places
<1>2. /\ At(heard, {"malformed"}) = {}
      /\ \A i \in At(heard, {"response", "confirm"}) : heard[i].ok
      /\ At(heard, {"confirm"}) # {} => request.authorize
  BY <1>1 DEF Told, Opening
<1>3. /\ Cardinality(At(heard, {"response"})) <= 1
      /\ Cardinality(At(heard, {"confirm"})) <= 1
  <2>1. /\ \A i, j \in At(heard, {"response"}) : i = j
        /\ \A i, j \in At(heard, {"confirm"}) : i = j
    BY <1>1 DEF Told, Opening
  <2> QED
    BY <1>1, <2>1, AtMostOne
<1>4. \A i \in At(heard, ToolTypes \cup {"confirm", "settled"}) :
         \E k \in At(heard, {"response"}) : k < i
  BY <1>1 DEF Told, Opening
<1>5. \A i \in At(heard, {"settled"}) : i = Len(heard) /\ At(heard, {"agent_end"}) # {} /\ active = {}
  BY <1>1 DEF Told, Ending
<1>6. /\ Cardinality(calls) <= request.starts
      /\ \A c \in calls : CallLawful(request, heard, c)
      /\ At(heard, {"settled"}) # {} => Cardinality(At(heard, {"end"})) = Cardinality(calls)
  <2>1. CASE \A i \in Places : heard[i].type \notin ToolTypes
    <3>1. At(heard, ToolTypes) = {} /\ At(heard, {"end"}) = {}
      BY <1>1, <2>1 DEF ToolTypes
    <3>2. calls = {}
      BY <3>1
    <3>3. request.starts \in {0, 1}
      BY Requests
    <3> HIDE DEF calls
    <3> QED
      BY <3>1, <3>2, <3>3, FS_EmptySet
  <2>2. ASSUME NEW c \in Calls, NEW s \in Places, Began(c), CallAt(c, s),
               \/ active # {} /\ \A i \in Places : heard[i].type # "end"
               \/ \E m \in Places : EndAt(m)
        PROVE  /\ Cardinality(calls) <= request.starts
               /\ \A d \in calls : CallLawful(request, heard, d)
               /\ At(heard, {"settled"}) # {} => Cardinality(At(heard, {"end"})) = Cardinality(calls)
    <3>1. s \in At(heard, ToolTypes) /\ \A i \in At(heard, ToolTypes) : heard[i].call = c
      BY <1>1, <2>2 DEF CallAt, ToolTypes
    <3>2. calls = {c}
      BY <3>1
    <3>3. request.starts = 1 /\ Image \in request.tools
      BY <2>2, Requests DEF Began
    <3>4. Cardinality(calls) = 1
      BY <3>2, FS_Singleton
    <3> DEFINE of(types) == {i \in At(heard, types) : heard[i].call = c}
    <3>5. /\ of({"start"}) = {s} /\ heard[s].tool = Image
          /\ \A i \in of(ToolTypes) : s <= i /\ heard[i].tool = heard[s].tool
      BY <1>1, <2>2 DEF CallAt, ToolTypes
    <3>6. \A i \in of({"end"}) : i = Max(of(ToolTypes)) /\ heard[i].result # "malformed"
      <4> SUFFICES ASSUME NEW i \in of({"end"})
                   PROVE  i = Max(of(ToolTypes)) /\ heard[i].result # "malformed"
        OBVIOUS
      <4>1. i \in Places /\ heard[i].type = "end" /\ i \in of(ToolTypes)
        BY <1>1 DEF ToolTypes
      <4>2. PICK m \in Places : EndAt(m)
        BY <2>2, <4>1
      <4>3. i = m /\ heard[i].result # "malformed" /\ \A j \in of(ToolTypes) : j <= i
        BY <1>1, <4>1, <4>2 DEF EndAt
      <4>4. of(ToolTypes) \in SUBSET Nat
        BY <1>1 DEF Places
      <4> QED
        BY <4>1, <4>3, <4>4, Greatest
    <3>7. CallLawful(request, heard, c)
      BY <3>3, <3>5, <3>6 DEF CallLawful
    <3>8. At(heard, {"settled"}) # {} => Cardinality(At(heard, {"end"})) = 1
      <4> SUFFICES ASSUME At(heard, {"settled"}) # {} PROVE Cardinality(At(heard, {"end"})) = 1
        OBVIOUS
      <4>1. PICK m \in Places : EndAt(m)
        BY <1>5, <2>2
      <4>2. At(heard, {"end"}) = {m}
        BY <1>1, <4>1 DEF EndAt
      <4> QED
        BY <4>2, FS_Singleton
    <3> HIDE DEF calls
    <3> QED
      BY <3>2, <3>3, <3>4, <3>7, <3>8
  <2>3. \/ \A i \in Places : heard[i].type \notin ToolTypes
        \/ \E c \in Calls, s \in Places :
             /\ Began(c) /\ CallAt(c, s)
             /\ \/ active # {} /\ \A i \in Places : heard[i].type # "end"
                \/ \E m \in Places : EndAt(m)
    BY DEF Told, Calling, OpenCall, ClosedCall
  <2> QED
    BY <2>1, <2>2, <2>3
<1> QED
  BY <1>2, <1>3, <1>4, <1>5, <1>6 DEF Lawful


\* A finite set of numbers has a greatest one.
LEMMA GreatestExists ==
  ASSUME NEW S \in SUBSET Nat, NEW n \in Nat, S # {}, \A x \in S : x <= n
  PROVE  Max(S) \in S /\ \A x \in S : x <= Max(S)
<1> DEFINE above == {k \in Nat : \A x \in S : x <= k}
<1>1. above \subseteq Nat /\ n \in above
  OBVIOUS
<1> HIDE DEF above
<1>2. PICK m \in above : \A k \in above : m <= k
  BY <1>1, LeastNatural
<1>3. m \in Nat /\ \A x \in S : x <= m
  BY <1>2 DEF above
<1>4. m \in S
  <2> SUFFICES ASSUME m \notin S PROVE FALSE
    OBVIOUS
  <2>1. \A x \in S : x < m
    BY <1>3
  <2>4. PICK x \in S : x \in Nat /\ x < m
    BY <2>1
  <2>2. m > 0 /\ m - 1 \in Nat
    BY <1>3, <2>4
  <2>3. m - 1 \in above
    BY <1>3, <2>1, <2>2 DEF above
  <2> QED
    BY <1>2, <1>3, <2>3
<1> QED
  BY <1>3, <1>4, Greatest

\* What a lawful transcript is, place by place.
LEMMA LawfulSays ==
  ASSUME NEW r, NEW t \in Seq(Events), Lawful(r, t)
  PROVE  /\ \A i \in 1..Len(t) :
              /\ t[i].type # "malformed"
              /\ t[i].type \in {"response", "confirm"} => t[i].ok
              /\ t[i].type = "confirm" => r.authorize
              /\ t[i].type \in ToolTypes \cup {"confirm", "settled"} =>
                   \E k \in 1..Len(t) : k < i /\ t[k].type = "response"
              /\ t[i].type \in ToolTypes => CallLawful(r, t, t[i].call)
              /\ t[i].type = "settled" => i = Len(t)
         /\ \A i, j \in 1..Len(t) :
              t[i].type = t[j].type /\ t[i].type \in {"response", "confirm"} => i = j
<1>1. \A K : At(t, K) = {i \in 1..Len(t) : t[i].type \in K} /\ IsFiniteSet(At(t, K))
  BY Finitely
<1>2. \A i \in 1..Len(t) :
        /\ t[i].type # "malformed"
        /\ t[i].type \in {"response", "confirm"} => t[i].ok
        /\ t[i].type = "confirm" => r.authorize
        /\ t[i].type \in ToolTypes => CallLawful(r, t, t[i].call)
        /\ t[i].type = "settled" => i = Len(t)
  BY <1>1 DEF Lawful
<1>3. \A i \in 1..Len(t) : t[i].type \in ToolTypes \cup {"confirm", "settled"} =>
        \E k \in 1..Len(t) : k < i /\ t[k].type = "response"
  BY <1>1 DEF Lawful
<1>4. Cardinality(At(t, {"response"})) <= 1 /\ Cardinality(At(t, {"confirm"})) <= 1
  BY DEF Lawful
<1>5. /\ \A i, j \in At(t, {"response"}) : i = j
      /\ \A i, j \in At(t, {"confirm"}) : i = j
  BY <1>1, <1>4, AtMostOne
<1>6. \A i, j \in 1..Len(t) :
        t[i].type = t[j].type /\ t[i].type \in {"response", "confirm"} => i = j
  <2>1. ASSUME NEW i \in 1..Len(t), NEW j \in 1..Len(t), t[i].type = t[j].type, t[i].type = "response"
        PROVE  i = j
    <3>1. i \in At(t, {"response"}) /\ j \in At(t, {"response"})
      BY <1>1, <2>1
    <3> QED
      BY <1>5, <3>1
  <2>2. ASSUME NEW i \in 1..Len(t), NEW j \in 1..Len(t), t[i].type = t[j].type, t[i].type = "confirm"
        PROVE  i = j
    <3>1. i \in At(t, {"confirm"}) /\ j \in At(t, {"confirm"})
      BY <1>1, <2>2
    <3> QED
      BY <1>5, <3>1
  <2> QED
    BY <2>1, <2>2
<1> QED
  BY <1>2, <1>3, <1>6

\* The events of a lawful call, place by place: it started at s.
LawfulFrom(r, t, c, s) ==
  /\ t[s].type = "start" /\ t[s].call = c /\ t[s].tool \in r.tools
  /\ \A i \in 1..Len(t) : t[i].type \in ToolTypes /\ t[i].call = c =>
       /\ s <= i /\ t[i].tool = t[s].tool
       /\ t[i].type = "start" => i = s
       /\ t[i].type = "end" => /\ t[i].result # "malformed"
                               /\ \A j \in 1..Len(t) :
                                    t[j].type \in ToolTypes /\ t[j].call = c => j <= i

\* A lawful call has one start, which the rest of it follows.
LEMMA CallLawfulSays ==
  ASSUME NEW r, NEW t \in Seq(Events), NEW c, CallLawful(r, t, c)
  PROVE  \E s \in 1..Len(t) : LawfulFrom(r, t, c, s)
<1>1. \A K : At(t, K) = {i \in 1..Len(t) : t[i].type \in K} /\ IsFiniteSet(At(t, K))
  BY Finitely
<1> DEFINE of(types) == {i \in At(t, types) : t[i].call = c}
<1>2. PICK s \in of({"start"}) :
        /\ of({"start"}) = {s} /\ t[s].tool \in r.tools
        /\ \A i \in of(ToolTypes) : s <= i /\ t[i].tool = t[s].tool
        /\ \A i \in of({"end"}) : i = Max(of(ToolTypes)) /\ t[i].result # "malformed"
  BY DEF CallLawful
<1>3. ASSUME NEW i \in of({"end"}) PROVE \A j \in of(ToolTypes) : j <= i
  <2>1. of(ToolTypes) \in SUBSET (1..Len(t)) /\ i \in of(ToolTypes) /\ Len(t) \in Nat
    BY <1>1, <1>3, Finitely DEF ToolTypes
  <2>2. of(ToolTypes) \in SUBSET Nat /\ of(ToolTypes) # {} /\ \A j \in of(ToolTypes) : j <= Len(t)
    BY <2>1
  <2>3. \A j \in of(ToolTypes) : j <= Max(of(ToolTypes))
    BY <2>1, <2>2, GreatestExists
  <2> QED
    BY <1>2, <1>3, <2>3
<1>4. \A i \in of(ToolTypes) : (t[i].type = "start" => i = s) /\ (t[i].type = "end" => i \in of({"end"}))
  BY <1>1, <1>2
<1>5. \A i \in 1..Len(t) : t[i].type \in ToolTypes /\ t[i].call = c => i \in of(ToolTypes)
  BY <1>1
<1>6. s \in 1..Len(t) /\ t[s].type = "start" /\ t[s].call = c
  BY <1>1, <1>2
<1>7. LawfulFrom(r, t, c, s)
  BY <1>2, <1>3, <1>4, <1>5, <1>6 DEF LawfulFrom
<1> QED
  BY <1>6, <1>7

\* An event the client refuses makes the transcript unlawful.
LEMMA RefusalStep ==
  ASSUME Kinds, Books, Told, NEW e \in Events, Hear(e), outcome' = "refused"
  PROVE  ~Lawful(request, heard)'
<1> SUFFICES ASSUME Lawful(request, heard)' PROVE FALSE
  OBVIOUS
<1>0. PICK r, t, last : r = request' /\ t = heard' /\ last = Next1
  OBVIOUS
<1>1. /\ Places' = 1..Len(t) /\ Len(t) = last /\ last \in Nat
      /\ 1..Len(t) = Places \cup {last} /\ \A i \in Places : i \in Nat /\ i < last
      /\ t[last] = e /\ \A i \in Places : t[i] = heard[i]
  BY <1>0, Grows DEF Next1, Places
<1>2. t \in Seq(Events) /\ r = request /\ outcome = "open" /\ Lawful(r, t)
  <2>1. heard' = Append(heard, e) /\ request' = request /\ outcome = "open"
    BY HearCases
  <2>2. t \in Seq(Events)
    BY <1>0, <2>1, AppendProperties DEF Kinds
  <2>3. Lawful(r, t)
    BY <1>0
  <2> QED
    BY <1>0, <2>1, <2>2, <2>3
<1>3. /\ e.type # "malformed"
      /\ e.type \in {"response", "confirm"} => e.ok
      /\ e.type = "confirm" => request.authorize
      /\ e.type \in ToolTypes \cup {"confirm", "settled"} =>
           \E k \in 1..Len(t) : k < last /\ t[k].type = "response"
      /\ e.type \in ToolTypes => CallLawful(r, t, e.call)
  BY <1>1, <1>2, LawfulSays
<1>4. \A i, j \in 1..Len(t) :
        t[i].type = t[j].type /\ t[i].type \in {"response", "confirm"} => i = j
  BY <1>2, LawfulSays
<1>5. \A i \in 1..Len(t) : t[i].type = "settled" => i = Len(t)
  BY <1>2, LawfulSays
<1>6. e.type = "confirm" => request.authorize /\ e.ok
  BY <1>3
<1>7. ~Fits(e)
  <2> SUFFICES ASSUME Fits(e) PROVE FALSE
    OBVIOUS
  <2>1. Confirm(e) /\ ~request.authorize
    BY HearCases, <1>2, Retains DEF Response, Confirm, Start, End, Message, AgentEnd, Settled, Ignore
  <2> QED
    BY <1>6, <2>1 DEF Confirm
<1>8. ~settled
  BY <1>1, <1>5 DEF Told, Ending, Places
<1>9. e.type \in ToolTypes \cup {"confirm", "settled"} => response
  BY <1>1, <1>3 DEF Told, Opening
<1>10. e.type = "response" => ~response /\ e.ok
  BY <1>1, <1>3, <1>4 DEF Told, Opening
<1>11. e.type = "confirm" => ~confirmation /\ e.ok
  BY <1>1, <1>3, <1>4 DEF Told, Opening
<1> HIDE DEF Places
<1>12. e.type \in {"update", "end"} =>
         /\ e.call \in DOMAIN started \ completed /\ e.tool = started[e.call]
         /\ e.type = "end" => e.result # "malformed"
  <2> SUFFICES ASSUME e.type \in {"update", "end"}
               PROVE  /\ e.call \in DOMAIN started \ completed /\ e.tool = started[e.call]
                      /\ e.type = "end" => e.result # "malformed"
    OBVIOUS
  <2>1. PICK s \in 1..Len(t) : LawfulFrom(r, t, e.call, s)
    BY <1>2, <1>3, CallLawfulSays DEF ToolTypes
  <2>2. s \in Places /\ heard[s].type = "start" /\ heard[s].call = e.call /\ e.tool = heard[s].tool
        /\ (e.type = "end" => e.result # "malformed")
    BY <1>1, <2>1 DEF LawfulFrom, ToolTypes
  <2>3. ASSUME NEW c \in Calls, NEW k \in Places, NEW m \in Places, ClosedCall(c), CallAt(c, k), EndAt(m)
        PROVE  FALSE
    <3>1. heard[m].type = "end" /\ heard[m].call = c /\ heard[s].call = c
      BY <2>2, <2>3 DEF CallAt, EndAt, ToolTypes
    <3>2. m \in 1..Len(t) /\ t[m] = heard[m] /\ last \in 1..Len(t) /\ m < last
      BY <1>1
    <3>3. last <= m
      BY <1>1, <2>1, <2>2, <3>1, <3>2 DEF LawfulFrom, ToolTypes
    <3> QED
      BY <1>1, <3>2, <3>3
  <2>4. PICK c \in Calls, k \in Places : OpenCall(c) /\ CallAt(c, k)
    BY <2>2, <2>3 DEF Told, Calling, ToolTypes
  <2>5. heard[s].call = c /\ heard[s].tool = Image
    BY <2>2, <2>4 DEF CallAt, ToolTypes
  <2> QED
    BY <2>2, <2>4, <2>5 DEF OpenCall, Began
<1> DEFINE calls == {t[i].call : i \in At(t, ToolTypes)}
<1>15. \A K : At(t, K) = {i \in 1..Len(t) : t[i].type \in K}
  BY <1>2, Finitely
<1>13. e.type = "start" => MayStart(e)
  <2> SUFFICES ASSUME e.type = "start" PROVE MayStart(e)
    OBVIOUS
  <2>3. PICK s \in 1..Len(t) : LawfulFrom(r, t, e.call, s)
    BY <1>2, <1>3, CallLawfulSays DEF ToolTypes
  <2>1. /\ t[s].tool \in r.tools
        /\ \A i \in 1..Len(t) : t[i].type = "start" /\ t[i].call = e.call => i = s
    BY <2>3 DEF LawfulFrom, ToolTypes
  <2>2. last = s /\ e.tool \in request.tools
    BY <1>1, <1>2, <2>1
  <2>6. Cardinality(calls) <= request.starts
    BY <1>2 DEF Lawful
  <2>4. CASE NoCall /\ \A i \in Places : heard[i].type \notin ToolTypes
    <3>1. At(t, ToolTypes) = {last}
      BY <1>1, <1>15, <2>4 DEF ToolTypes
    <3>2. calls = {e.call}
      BY <1>1, <3>1
    <3>3. Cardinality(calls) = 1
      BY <3>2, FS_Singleton
    <3>4. Cardinality(DOMAIN started) = 0 /\ request.starts \in {0, 1}
      BY <2>4, BookSizes, Requests
    <3> HIDE DEF calls
    <3>5. Cardinality(DOMAIN started) < request.starts
      BY <2>6, <3>3, <3>4
    <3> QED
      BY <2>2, <2>4, <3>5 DEF MayStart, NoCall
  <2>5. ASSUME NEW c \in Calls, NEW k \in Places, Began(c), CallAt(c, k)
        PROVE  FALSE
    <3>1. /\ k \in 1..Len(t) /\ t[k].type = "start" /\ t[k].call = c /\ k # last
          /\ \A i \in Places : t[i].type \in ToolTypes => t[i].call = c
      BY <1>1, <2>5 DEF CallAt
    <3>2. c # e.call
      BY <1>1, <2>1, <2>2, <3>1
    <3>3. /\ k \in At(t, ToolTypes) /\ last \in At(t, ToolTypes)
          /\ \A i \in At(t, ToolTypes) : t[i].call \in {c, e.call}
      BY <1>1, <1>15, <3>1 DEF ToolTypes
    <3>4. calls = {c} \cup {e.call}
      BY <1>1, <3>1, <3>3
    <3>5. Cardinality({c} \cup {e.call}) = 2
      BY <3>2, Pair
    <3>6. request.starts = 1
      BY <2>5, Requests DEF Began
    <3> HIDE DEF calls
    <3>7. Cardinality(calls) = 2
      BY <3>4, <3>5
    <3> QED
      BY <2>6, <3>6, <3>7
  <2> QED
    BY <2>4, <2>5 DEF Told, Calling, OpenCall, ClosedCall
<1>14. e.type = "settled" => MaySettle
  <2> SUFFICES ASSUME e.type = "settled" PROVE MaySettle
    OBVIOUS
  <2>1. last \in At(t, {"settled"})
    BY <1>1, <1>15
  <2>2. At(t, {"agent_end"}) # {} /\ Cardinality(At(t, {"end"})) = Cardinality(calls)
    BY <1>2, <2>1 DEF Lawful
  <2>3. agentEnd
    BY <1>1, <1>15, <2>2 DEF Told, Ending
  <2>4. ASSUME NEW c \in Calls, NEW k \in Places, CallAt(c, k), \A i \in Places : heard[i].type # "end"
        PROVE  FALSE
    <3>1. At(t, {"end"}) = {}
      BY <1>1, <1>15, <2>4
    <3>2. k \in At(t, ToolTypes) /\ \A i \in At(t, ToolTypes) : t[i].call = c
      BY <1>1, <1>15, <2>4 DEF CallAt, ToolTypes
    <3>3. calls = {c}
      BY <3>2
    <3>4. Cardinality(calls) = 1 /\ Cardinality(At(t, {"end"})) = 0
      BY <3>1, <3>3, FS_EmptySet, FS_Singleton
    <3> HIDE DEF calls
    <3> QED
      BY <2>2, <3>4
  <2>5. NoCall \/ \E c \in Calls : ClosedCall(c)
    BY <2>4 DEF Told, Calling
  <2>6. active = {} /\ Cardinality(completed) = Cardinality(DOMAIN started)
    BY <2>5, BookSizes DEF NoCall, ClosedCall
  <2> QED
    BY <2>3, <2>6 DEF MaySettle
<1> QED
  BY <1>3, <1>7, <1>8, <1>9, <1>10, <1>11, <1>12, <1>13, <1>14, EventFields DEF Fits, EventTypes, ToolTypes


-----------------------------------------------------------------------------
(* The verdict *)

\* What the pipeline looks at in the result tells what the transcript says.
LEMMA ValidIsGood ==
  ASSUME Kinds, Told
  PROVE  Valid <=>
           LET ends == At(heard, {"end"})
               messages == At(heard, {"message"})
           IN  IF request = ImageRequest
               THEN ends # {} /\ \A i \in ends : heard[i].result = "image"
               ELSE /\ At(heard, ToolTypes \cup {"confirm"}) = {} /\ messages # {}
                    /\ heard[Max(messages)].text = "evaluation"
<1>1. \A K : At(heard, K) = {i \in Places : heard[i].type \in K}
  BY Finitely DEF Kinds, Places
<1>2. DOMAIN evidence = 1..Len(evidence)
  BY LenProperties DEF Kinds
<1>3. CASE request = ImageRequest
  <2> DEFINE good == At(heard, {"end"}) # {} /\ \A i \in At(heard, {"end"}) : heard[i].result = "image"
  <2>1. CASE completions = <<>> /\ \A i \in Places : heard[i].type # "end"
    <3>1. At(heard, {"end"}) = {} /\ ~ImageValid
      BY <1>1, <2>1, EmptySeq DEF ImageValid
    <3> QED
      BY <1>3, <3>1 DEF Valid
  <2>2. ASSUME NEW c \in Calls, NEW s \in Places, NEW m \in Places, ClosedCall(c), CallAt(c, s), EndAt(m)
        PROVE  ImageValid <=> good
    <3>1. At(heard, {"end"}) = {m}
      BY <1>1, <2>2 DEF EndAt
    <3>2. good <=> heard[m].result = "image"
      BY <3>1
    <3>3. \A i \in DOMAIN evidence : evidence[i].type \in ToolTypes => evidence[i].tool = "codex_imagegen"
      BY <1>2, <2>2 DEF Told, Keeping, CallAt, Image
    <3>4. completions[1].tool = "codex_imagegen" /\ completions[1].result = heard[m].result
      BY <2>2 DEF CallAt, EndAt, ToolTypes, Image
    <3> QED
      BY <2>2, <3>2, <3>3, <3>4 DEF ImageValid, ClosedCall
  <2> QED
    BY <1>3, <2>1, <2>2 DEF Told, Calling, NoCall, OpenCall, ToolTypes, Valid
<1>4. CASE request # ImageRequest
  <2>1. completions = <<>> /\ \A i \in Places : heard[i].type \notin ToolTypes
    BY <1>4 DEF Told, Calling, NoCall, OpenCall, ClosedCall, Began
  <2>2. confirmation <=> At(heard, ToolTypes \cup {"confirm"}) # {}
    BY <1>1, <2>1 DEF Told, Opening
  <2>3. ~confirmation => \A i \in DOMAIN evidence : evidence[i].type \notin ToolTypes \cup {"confirm"}
    BY <1>2, <2>1 DEF Told, Opening, Keeping
  <2>4. text = "evaluation" <=>
          At(heard, {"message"}) # {} /\ heard[Max(At(heard, {"message"}))].text = "evaluation"
    <3>1. CASE text = "none" /\ \A i \in Places : heard[i].type # "message"
      BY <1>1, <3>1
    <3>2. ASSUME NEW m \in Places, heard[m].type = "message", heard[m].text = text,
                 \A i \in Places : heard[i].type = "message" => i <= m
          PROVE  At(heard, {"message"}) # {} /\ heard[Max(At(heard, {"message"}))].text = text
      <4>1. /\ m \in At(heard, {"message"}) /\ \A i \in At(heard, {"message"}) : i <= m
            /\ At(heard, {"message"}) \in SUBSET Nat
        BY <1>1, <3>2 DEF Places
      <4>2. Max(At(heard, {"message"})) = m
        BY <4>1, Greatest
      <4> QED
        BY <3>2, <4>1, <4>2
    <3> QED
      BY <3>1, <3>2 DEF Told, Speaking
  <2> QED
    BY <1>4, <2>1, <2>2, <2>3, <2>4 DEF Valid, EvaluationValid
<1> QED
  BY <1>3, <1>4

-----------------------------------------------------------------------------
(* The invariant *)

\* Nothing of what was told changes when the exchange is concluded and judged.
LEMMA ToldKept ==
  ASSUME UNCHANGED <<request, heard, toolVars, flagVars, evidence>>
  PROVE  /\ Told => Told'
         /\ Valid' <=> Valid
<1> USE DEF toolVars, flagVars
<1>1. Opening => Opening'
  BY DEF Opening, Places
<1>2. Ending => Ending'
  BY DEF Ending, Places
<1>3. Speaking => Speaking'
  BY DEF Speaking, Places
<1>4. Calling => Calling'
  <2>1. /\ NoCall' = NoCall /\ Places' = Places /\ heard' = heard
        /\ \A c : OpenCall(c)' = OpenCall(c) /\ ClosedCall(c)' = ClosedCall(c)
    BY DEF NoCall, OpenCall, ClosedCall, Began, Places
  <2>2. \A c, s : CallAt(c, s)' = CallAt(c, s)
    BY <2>1 DEF CallAt
  <2>3. \A m : EndAt(m)' = EndAt(m)
    BY <2>1 DEF EndAt
  <2> QED
    BY <2>1, <2>2, <2>3 DEF Calling
<1>5. Keeping => Keeping'
  BY DEF Keeping, Places
<1>6. Valid' <=> Valid
  BY DEF Valid, ImageValid, EvaluationValid
<1> QED
  BY <1>1, <1>2, <1>3, <1>4, <1>5, <1>6 DEF Told

\* Every step keeps the invariant.
LEMMA ProtocolStep ==
  ASSUME ProtocolInv, [Next]_vars
  PROVE  ProtocolInv'
<1>1. Kinds /\ Books /\ Counted /\ Kinds' /\ Books' /\ Counted'
  BY KindsStep, BooksStep, CountedStep DEF ProtocolInv
<1>2. ASSUME NEW e \in Events, Hear(e) PROVE ProtocolInv'
  <2>1. outcome = "open" /\ Told
    BY <1>2, HearCases DEF ProtocolInv
  <2>2. outcome' \in {"open", "refused", "overflow", "broken"}
    <3>1. Retain(e) => outcome' \in {"open", "overflow"}
      BY <1>1, <2>1, Retains
    <3> QED
      BY <1>2, <2>1, <3>1, HearCases DEF Refuse, Response, Confirm, Start, End, Message, AgentEnd, Settled, Ignore
  <2>3. outcome' = "open" => Told'
    BY <1>1, <1>2, <2>1, ToldStep
  <2>4. outcome' = "refused" => ~Lawful(request, heard)'
    BY <1>1, <1>2, <2>1, RefusalStep
  <2> QED
    BY <1>1, <2>2, <2>3, <2>4 DEF ProtocolInv, Concluded
<1>3. CASE Conclude
  <2>1. /\ outcome = "open" /\ settled /\ outcome' = "settled" /\ settled' = settled
        /\ UNCHANGED <<request, heard, toolVars, flagVars, evidence>>
    BY <1>3 DEF Conclude, flagVars
  <2>2. Told'
    BY <2>1, ToldKept DEF ProtocolInv
  <2> QED
    BY <1>1, <2>1, <2>2 DEF ProtocolInv, Concluded
<1>4. CASE Judge
  <2>1. /\ outcome = "settled" /\ settled' = settled
        /\ outcome' = (IF Valid THEN "accepted" ELSE "rejected")
        /\ UNCHANGED <<request, heard, toolVars, flagVars, evidence>>
    BY <1>4 DEF Judge, Valid, flagVars
  <2>2. Told' /\ settled /\ (Valid' <=> Valid)
    BY <2>1, ToldKept DEF ProtocolInv, Concluded
  <2> QED
    BY <1>1, <2>1, <2>2 DEF ProtocolInv, Concluded
<1>5. CASE UNCHANGED vars
  <2>1. UNCHANGED <<request, heard, toolVars, flagVars, evidence, outcome>> /\ settled' = settled
    BY <1>5 DEF vars, flagVars
  <2>2. (Told => Told') /\ (Valid' <=> Valid) /\ (Lawful(request, heard)' <=> Lawful(request, heard))
    BY <2>1, ToldKept
  <2> QED
    BY <1>1, <2>1, <2>2 DEF ProtocolInv, Concluded
<1> QED
  BY <1>2, <1>3, <1>4, <1>5 DEF Next

\* What the client keeps is at every moment what the transcript says (the
\* bookkeeping of handle_item and retain_event).
THEOREM ProtocolInvariant == Spec => []ProtocolInv
<1>1. Init => ProtocolInv
  BY InitKept DEF Init, ProtocolInv, Concluded
<1> QED
  BY <1>1, ProtocolStep, PTL DEF Spec

\* An exchange the client reports as settled is lawful from its first event to
\* agent_settled (handle_item).
THEOREM SettlesLawfully == Spec => []SettledIsLawful
<1>1. ProtocolInv => SettledIsLawful
  <2> SUFFICES ASSUME ProtocolInv, Concluded PROVE Lawful(request, heard) /\ Last(heard).type = "settled"
    BY DEF SettledIsLawful, Concluded
  <2>1. Kinds /\ Told /\ settled
    BY DEF ProtocolInv
  <2>2. Lawful(request, heard)
    BY <2>1, ToldIsLawful
  <2>3. heard[Len(heard)].type = "settled"
    BY <2>1 DEF Told, Ending
  <2> QED
    BY <2>2, <2>3 DEF Last
<1> QED
  BY <1>1, ProtocolInvariant, PTL

\* The client refuses an event only if no lawful exchange contains it there.
THEOREM RefusesDeservedly == Spec => []RefusalIsDeserved
<1>1. ProtocolInv => RefusalIsDeserved
  BY DEF ProtocolInv, RefusalIsDeserved
<1> QED
  BY <1>1, ProtocolInvariant, PTL

\* The pipeline accepts a result when the transcript shows what it asked for, and
\* rejects it only when it does not (_validate_image_completion and
\* _validate_evaluator_result, which see the evidence and not the transcript).
THEOREM JudgesRightly == Spec => []VerdictIsRight
<1>1. ProtocolInv => VerdictIsRight
  BY ValidIsGood DEF ProtocolInv, Concluded, VerdictIsRight
<1> QED
  BY <1>1, ProtocolInvariant, PTL

=============================================================================
