---------------------------- MODULE AttemptFence ----------------------------
(***************************************************************************)
(* What the claims promise about attempts, without leases or clocks: a     *)
(* round has at most one holder at a time, a token that lost its round     *)
(* never holds one again, only the holder can win, and a round is won at   *)
(* most once and never after it was closed.                                *)
(***************************************************************************)
CONSTANTS Rounds, Tokens, None

VARIABLES
  holder,  \* the token that may still decide each round
  spent,   \* tokens that held a round and lost it
  winner,  \* the token whose result each round carries
  closed   \* rounds abandoned for good

fenceVars == <<holder, spent, winner, closed>>

Init ==
  /\ holder = [r \in Rounds |-> None]
  /\ spent = {}
  /\ winner = [r \in Rounds |-> None]
  /\ closed = {}

Open(r) == r \notin closed /\ winner[r] = None

Lost(r) == {holder[r]} \ {None}

\* A fresh token takes the round, ousting whoever held it.
Grant(r, t) ==
  /\ Open(r) /\ t \notin spent /\ \A s \in Rounds : holder[s] # t
  /\ holder' = [holder EXCEPT ![r] = t]
  /\ spent' = spent \cup Lost(r)
  /\ UNCHANGED <<winner, closed>>

\* The holder gives up: failure recorded, cancelled or lost.
Yield(r) ==
  /\ holder[r] # None
  /\ holder' = [holder EXCEPT ![r] = None]
  /\ spent' = spent \cup Lost(r)
  /\ UNCHANGED <<winner, closed>>

Win(r) ==
  /\ Open(r) /\ holder[r] # None
  /\ winner' = [winner EXCEPT ![r] = holder[r]]
  /\ holder' = [holder EXCEPT ![r] = None]
  /\ spent' = spent \cup Lost(r)
  /\ UNCHANGED closed

\* Abandonment closes the round and fences its holder in one step.
Close(r) ==
  /\ Open(r)
  /\ closed' = closed \cup {r}
  /\ holder' = [holder EXCEPT ![r] = None]
  /\ spent' = spent \cup Lost(r)
  /\ UNCHANGED winner

Next == \E r \in Rounds :
  Yield(r) \/ Win(r) \/ Close(r) \/ \E t \in Tokens : Grant(r, t)

Spec == Init /\ [][Next]_fenceVars

=============================================================================
