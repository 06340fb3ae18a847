---------------------------- MODULE PiRpcProtocol ----------------------------
(***************************************************************************)
(* What one exchange with the pi agent means: handle_item (ai/pi_rpc.py)   *)
(* hears the events of the child one by one and accepts or refuses each;   *)
(* after a settled exchange the pipeline (ai/pi_pipeline.py) judges the    *)
(* collected result.  How events get here, and how an exchange is broken   *)
(* off, is PiRpcTransport; there an event this module accepts is "event"   *)
(* or "settled" and one it refuses is "refused".                           *)
(***************************************************************************)
EXTENDS Naturals, FiniteSets, SequencesExt

CONSTANTS
  Calls,        \* identifiers of tool calls
  MaxEvidence,  \* max_evidence_records
  MaxEvents     \* events the child sends, the bound of the model

ASSUME EvidenceAssumption == MaxEvidence \in Nat \ {0} /\ MaxEvents \in Nat

\* The two requests of the pipeline: one image by one tool, or no tool at all.
ImageRequest == [authorize |-> TRUE, tools |-> {"codex_imagegen"}, starts |-> 1]
EvaluatorRequest == [authorize |-> FALSE, tools |-> {}, starts |-> 0]

Tools == {"codex_imagegen", "bash"}
ToolTypes == {"start", "update", "end"}

\* What the child may say.  "ok" stands for the fields of a response or of a
\* confirmation request, "malformed" for a tool event without an identifier or a
\* name, "other" for every event the client does not know.
Events ==
  [type : {"response", "confirm"}, ok : BOOLEAN]
    \cup [type : {"start", "update"}, call : Calls, tool : Tools]
    \cup [type : {"end"}, call : Calls, tool : Tools,
          result : {"image", "elsewhere", "error", "malformed"}]
    \cup [type : {"message"}, text : {"evaluation", "prose"}]
    \cup [type : {"malformed", "agent_end", "settled", "other"}]

VARIABLES
  request,
  heard,         \* history: the events so far
  response,      \* the prompt was accepted
  confirmation,  \* a confirmation was asked for and answered
  started,       \* the tool of each call that started
  active, completed,
  completions, evidence,   \* the collected result
  text,          \* the last message of the assistant
  agentEnd, settled,
  outcome        \* "open", then how the exchange ended and was judged

toolVars == <<started, active, completed, completions>>
flagVars == <<response, confirmation, text, agentEnd, settled>>
vars == <<request, heard, toolVars, flagVars, evidence, outcome>>

\* The client's books agree with each other: a started call is active or
\* completed, never both, and every completion was kept once.
TypeOK ==
  /\ request \in {ImageRequest, EvaluatorRequest}
  /\ heard \in Seq(Events) /\ evidence \in Seq(Events) /\ completions \in Seq(Events)
  /\ {response, confirmation, agentEnd, settled} \subseteq BOOLEAN
  /\ text \in {"none", "evaluation", "prose"}
  /\ DOMAIN started = active \cup completed /\ active \cap completed = {}
  /\ [i \in DOMAIN completions |-> completions[i].call] \in
       [1..Cardinality(completed) -> completed]
  /\ Cardinality(DOMAIN started) <= request.starts
  /\ outcome \in {"open", "settled", "refused", "overflow", "broken", "accepted", "rejected"}

Init ==
  /\ request \in {ImageRequest, EvaluatorRequest}
  /\ heard = <<>> /\ evidence = <<>> /\ completions = <<>> /\ started = <<>>
  /\ active = {} /\ completed = {}
  /\ response = FALSE /\ confirmation = FALSE /\ agentEnd = FALSE /\ settled = FALSE
  /\ text = "none" /\ outcome = "open"

-----------------------------------------------------------------------------
(* handle_item *)

\* Variant for mutation: only the calls still active are looked at.
MayStartActive(e) ==
  /\ e.call \notin active /\ e.tool \in request.tools
  /\ Cardinality(active) < request.starts

MayStart(e) ==
  /\ e.call \notin DOMAIN started /\ e.tool \in request.tools
  /\ Cardinality(DOMAIN started) < request.starts

\* Variant for mutation: a settlement need not wait for the tools.
MaySettleHastily == agentEnd

MaySettle ==
  agentEnd /\ active = {} /\ Cardinality(completed) = Cardinality(DOMAIN started)

\* The events handle_item does not raise at once for.
Fits(e) ==
  /\ ~settled
  /\ e.type \in ToolTypes \cup {"confirm", "settled"} => response
  /\ \/ e.type = "response" /\ ~response /\ e.ok
     \/ e.type = "confirm" /\ ~confirmation /\ e.ok
     \/ e.type = "start" /\ MayStart(e)
     \/ /\ e.type \in {"update", "end"}
        /\ e.call \in DOMAIN started \ completed /\ e.tool = started[e.call]
        /\ e.type = "end" => e.result # "malformed"
     \/ e.type = "settled" /\ MaySettle
     \/ e.type \in {"message", "agent_end", "other"}

\* retain_event: one record too many ends the exchange.
Retain(e) ==
  IF Len(evidence) >= MaxEvidence
  THEN outcome' = "overflow" /\ UNCHANGED evidence
  ELSE evidence' = Append(evidence, e) /\ UNCHANGED outcome

Refuse == outcome' = "refused" /\ UNCHANGED <<toolVars, flagVars, evidence>>

Response(e) ==
  /\ e.type = "response"
  /\ response' = TRUE
  /\ Retain(e)
  /\ UNCHANGED <<toolVars, confirmation, text, agentEnd, settled>>

\* The request is retained and answered; then a refused authorization ends the
\* exchange, and so does a child that does not take the answer.
Confirm(e) ==
  /\ e.type = "confirm"
  /\ confirmation' = TRUE
  /\ IF Len(evidence) >= MaxEvidence
     THEN outcome' = "overflow" /\ UNCHANGED evidence
     ELSE /\ evidence' = Append(evidence, e)
          /\ outcome' \in {"broken", IF request.authorize THEN "open" ELSE "refused"}
  /\ UNCHANGED <<toolVars, response, text, agentEnd, settled>>

Start(e) ==
  /\ e.type = "start"
  /\ started' = [c \in DOMAIN started \cup {e.call} |-> IF c = e.call THEN e.tool ELSE started[c]]
  /\ active' = active \cup {e.call}
  /\ Retain(e)
  /\ UNCHANGED <<flagVars, completed, completions>>

\* Variant for mutation: a completed call stays active.
EndStillActive(e) ==
  /\ e.type = "end"
  /\ completed' = completed \cup {e.call}
  /\ completions' = Append(completions, e)
  /\ Retain(e)
  /\ UNCHANGED <<flagVars, started, active>>

End(e) ==
  /\ e.type = "end"
  /\ completed' = completed \cup {e.call}
  /\ active' = active \ {e.call}
  /\ completions' = Append(completions, e)
  /\ Retain(e)
  /\ UNCHANGED <<flagVars, started>>

\* The last message of the assistant counts.
Message(e) ==
  /\ e.type = "message"
  /\ text' = e.text
  /\ UNCHANGED <<toolVars, response, confirmation, agentEnd, settled, evidence, outcome>>

\* Variant for mutation: every end of the agent is retained.
AgentEndAlways(e) ==
  /\ e.type = "agent_end"
  /\ agentEnd' = TRUE
  /\ Retain(e)
  /\ UNCHANGED <<toolVars, response, confirmation, text, settled>>

\* The agent may end, and go on, before it settles; the first end is retained.
AgentEnd(e) ==
  /\ e.type = "agent_end"
  /\ agentEnd' = TRUE
  /\ IF agentEnd THEN UNCHANGED <<evidence, outcome>> ELSE Retain(e)
  /\ UNCHANGED <<toolVars, response, confirmation, text, settled>>

Settled(e) ==
  /\ e.type = "settled"
  /\ settled' = TRUE
  /\ Retain(e)
  /\ UNCHANGED <<toolVars, response, confirmation, text, agentEnd>>

\* An update of a call, and an event of another kind, leave no trace.
Ignore(e) ==
  /\ e.type \in {"update", "other"}
  /\ UNCHANGED <<toolVars, flagVars, evidence, outcome>>

Hear(e) ==
  /\ outcome = "open" /\ Len(heard) < MaxEvents
  /\ heard' = Append(heard, e)
  /\ IF ~Fits(e) THEN Refuse
     ELSE \/ Response(e) \/ Confirm(e) \/ Start(e) \/ End(e)
          \/ Message(e) \/ AgentEnd(e) \/ Settled(e) \/ Ignore(e)
  /\ UNCHANGED request

\* Nothing came in the grace period after the settlement: the result is returned.
Conclude ==
  /\ outcome = "open" /\ settled
  /\ outcome' = "settled"
  /\ UNCHANGED <<request, heard, toolVars, flagVars, evidence>>

-----------------------------------------------------------------------------
(* The pipeline's judgement of the result *)

\* Variant for mutation: an error of the tool is not looked at.
ImageValidAnyhow ==
  /\ Len(completions) = 1
  /\ \A i \in DOMAIN evidence : evidence[i].type \in ToolTypes => evidence[i].tool = "codex_imagegen"
  /\ completions[1].result \in {"image", "error"}

\* _validate_image_completion; "image" is status completed at the expected path.
ImageValid ==
  /\ Len(completions) = 1
  /\ \A i \in DOMAIN evidence : evidence[i].type \in ToolTypes => evidence[i].tool = "codex_imagegen"
  /\ completions[1].tool = "codex_imagegen" /\ completions[1].result = "image"

\* _validate_evaluator_result, and whether _parse_evaluation takes the text.
EvaluationValid ==
  /\ ~confirmation /\ completions = <<>>
  /\ \A i \in DOMAIN evidence : evidence[i].type \notin ToolTypes \cup {"confirm"}
  /\ text = "evaluation"

Judge ==
  /\ outcome = "settled"
  /\ outcome' = IF IF request = ImageRequest THEN ImageValid ELSE EvaluationValid
                THEN "accepted" ELSE "rejected"
  /\ UNCHANGED <<request, heard, toolVars, flagVars, evidence>>

Next == Conclude \/ Judge \/ \E e \in Events : Hear(e)

Spec == Init /\ [][Next]_vars
-----------------------------------------------------------------------------
(* What an exchange is, read off the transcript, and what the code makes of it *)

At(t, types) == {i \in DOMAIN t : t[i].type \in types}

\* The events of one call in the transcript t of the request r: one start of an
\* allowed tool, then updates, then at most one end, all naming that tool.
CallLawful(r, t, call) ==
  LET of(types) == {i \in At(t, types) : t[i].call = call}
  IN  \E s \in of({"start"}) :
        /\ of({"start"}) = {s} /\ t[s].tool \in r.tools
        /\ \A i \in of(ToolTypes) : s <= i /\ t[i].tool = t[s].tool
        /\ \A i \in of({"end"}) : i = Max(of(ToolTypes)) /\ t[i].result # "malformed"

\* A transcript that can still become a whole exchange.
Lawful(r, t) ==
  LET accepted(i) == \E k \in At(t, {"response"}) : k < i
      calls == {t[i].call : i \in At(t, ToolTypes)}
  IN  /\ At(t, {"malformed"}) = {}
      /\ Cardinality(At(t, {"response"})) <= 1 /\ Cardinality(At(t, {"confirm"})) <= 1
      /\ \A i \in At(t, {"response", "confirm"}) : t[i].ok
      /\ At(t, {"confirm"}) # {} => r.authorize
      /\ \A i \in At(t, ToolTypes \cup {"confirm", "settled"}) : accepted(i)
      /\ Cardinality(calls) <= r.starts
      /\ \A c \in calls : CallLawful(r, t, c)
      /\ \A i \in At(t, {"settled"}) :
           /\ i = Len(t) /\ At(t, {"agent_end"}) # {}
           /\ Cardinality(At(t, {"end"})) = Cardinality(calls)

\* An exchange the client reports as settled is lawful from the first event to the
\* settlement that ends it: no call is open, none came twice, none was not allowed.
SettledIsLawful ==
  outcome \in {"settled", "accepted", "rejected"} => Lawful(request, heard) /\ Last(heard).type = "settled"

\* The client refuses an event only if the transcript is beyond repair: no order
\* of lawful events, updates and repeated ends of the agent included, makes it raise.
RefusalIsDeserved == outcome = "refused" => ~Lawful(request, heard)

\* With six retained records the requests of the pipeline never fail for too many:
\* what may repeat without limit is not retained.
EvidenceSuffices == outcome # "overflow"

\* A picture is accepted only from a single call of the image tool that ended well
\* at the expected path, an evaluation only from the last message of an exchange
\* without tools and confirmations; and such a result is never rejected.
VerdictIsRight ==
  LET ends == At(heard, {"end"})
      messages == At(heard, {"message"})
      good == IF request = ImageRequest
              THEN ends # {} /\ \A i \in ends : heard[i].result = "image"
              ELSE /\ At(heard, ToolTypes \cup {"confirm"}) = {} /\ messages # {}
                   /\ heard[Max(messages)].text = "evaluation"
  IN  /\ outcome = "accepted" => good
      /\ outcome = "rejected" => ~good

=============================================================================
