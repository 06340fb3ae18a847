----------------------------- MODULE Leaderboard -----------------------------
(***************************************************************************)
(* The ranked history of one level: how GameRoundService orders completed  *)
(* rounds, gives them competition ranks and cuts out the rows it shows.    *)
(* A row has an id, a visible score and the time of its completion.        *)
(***************************************************************************)
EXTENDS Integers, FiniteSets, Sequences

CONSTANT MaxRows  \* _MAX_LEADERBOARD_ROWS

\* A window of two rows can miss the player's own; the code's has four.
ASSUME RowsAssumption == MaxRows \in Nat \ {0, 1, 2}

\* Better score first, then earlier completion, then the smaller id.
Before(r, s) ==
  \/ r.score > s.score
  \/ r.score = s.score /\ r.at < s.at
  \/ r.score = s.score /\ r.at = s.at /\ r.id < s.id

\* Before is total on rows with distinct ids: who has i - 1 before it is the i-th.
Ordered(rows) ==
  [i \in 1..Cardinality(rows) |->
     CHOOSE r \in rows : Cardinality({s \in rows : Before(s, r)}) = i - 1]

\* Variant for mutation: ranks without gaps after a tie.
DenseEntries(rows) ==
  LET ordered == Ordered(rows)
      rank[i \in 1..Len(ordered)] ==
        IF i = 1 THEN 1
        ELSE IF ordered[i].score = ordered[i - 1].score THEN rank[i - 1] ELSE rank[i - 1] + 1
  IN [i \in 1..Len(ordered) |-> [row |-> ordered[i], rank |-> rank[i]]]

\* _ranked_leaderboard_entries: equal scores share the rank of the first of them.
Entries(rows) ==
  LET ordered == Ordered(rows)
      rank[i \in 1..Len(ordered)] ==
        IF i = 1 THEN 1
        ELSE IF ordered[i].score = ordered[i - 1].score THEN rank[i - 1] ELSE i
  IN [i \in 1..Len(ordered) |-> [row |-> ordered[i], rank |-> rank[i]]]

\* _leaderboard_window: all rows, or MaxRows of them around the current one.
\* "current" counts from one here and from zero in the code.
Window(entries, current) ==
  LET start == IF current <= MaxRows THEN 1 ELSE current - 2
      last == Len(entries) - MaxRows + 1
      first == IF start < last THEN start ELSE last
  IN IF Len(entries) <= MaxRows THEN entries
     ELSE SubSeq(entries, first, first + MaxRows - 1)

\* get_leaderboard: the current round's rank and the rows around it.
Projection(rows, id) ==
  LET entries == Entries(rows)
      current == CHOOSE i \in DOMAIN entries : entries[i].row.id = id
  IN [shown |-> Window(entries, current), rank |-> entries[current].rank]

-----------------------------------------------------------------------------
\* What a viewer is told, without sorting: a rank counts the strictly better
\* rows, the rows shown are a gapless stretch of the order, as many as there
\* is room for, and the player's own row is one of them.
RanksRight(shown, rows) ==
  \A i \in DOMAIN shown :
    /\ shown[i].row \in rows
    /\ shown[i].rank = 1 + Cardinality({r \in rows : r.score > shown[i].row.score})

StretchOf(shown, rows) ==
  /\ Len(shown) = IF Cardinality(rows) < MaxRows THEN Cardinality(rows) ELSE MaxRows
  /\ \A i \in 1..(Len(shown) - 1) :
       /\ Before(shown[i].row, shown[i + 1].row)
       /\ ~\E r \in rows : Before(shown[i].row, r) /\ Before(r, shown[i + 1].row)

ProjectionRight(board, rows, id) ==
  /\ RanksRight(board.shown, rows) /\ StretchOf(board.shown, rows)
  /\ \E i \in DOMAIN board.shown : board.shown[i].row.id = id /\ board.shown[i].rank = board.rank

=============================================================================
