--------------------------- MODULE RoundLifecycle ---------------------------
(***************************************************************************)
(* What the game promises about a round, whatever runs underneath: the     *)
(* scenes of RoundStateMachine (domain/state.py), entered along its edges  *)
(* only, with the result of a generation attached exactly when the round   *)
(* leaves "generating" by success.                                         *)
(***************************************************************************)
CONSTANTS Rounds, Tokens, None

VARIABLES
  scene,   \* the scene of each round, None before it is created
  result   \* the attempt whose result each round carries, None without one

lifecycleVars == <<scene, result>>

\* The events of RoundStateMachine that change the scene without a result.
Edges == {<<"level_selection", "challenge_reveal">>,   \* configure
          <<"challenge_reveal", "prompt_entry">>,      \* continue_challenge
          <<"prompt_entry", "generating">>,            \* submit_prompt
          <<"prompt_entry", "abandoned">>,             \* abandon_blank_timeout
          <<"generating", "abandoned">>,               \* abandon_generation
          <<"generated_reveal", "result">>,            \* reveal_elapsed
          <<"result", "leaderboard">>}                 \* show_leaderboard

Init ==
  /\ scene = [r \in Rounds |-> None]
  /\ result = [r \in Rounds |-> None]

Begin(r) ==
  /\ scene[r] = None
  /\ scene' = [scene EXCEPT ![r] = "level_selection"]
  /\ UNCHANGED result

Advance(r) ==
  /\ \E edge \in Edges : scene[r] = edge[1] /\ scene' = [scene EXCEPT ![r] = edge[2]]
  /\ UNCHANGED result

\* pipeline_succeeded: scene and result arrive together.
Succeed(r) ==
  /\ scene[r] = "generating"
  /\ scene' = [scene EXCEPT ![r] = "generated_reveal"]
  /\ \E t \in Tokens : result' = [result EXCEPT ![r] = t]

Next == \E r \in Rounds : Begin(r) \/ Advance(r) \/ Succeed(r)

Spec == Init /\ [][Next]_lifecycleVars

=============================================================================
