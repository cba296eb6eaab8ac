----------------------------- MODULE QSAContext -----------------------------
(***************************************************************************)
(* What the compressed index cache of a QSA layer promises, without ring,  *)
(* blocks or work items: a query is shown, for every complete group of its *)
(* own context, the pool of exactly that group's keys.                     *)
(***************************************************************************)
EXTENDS Integers, Sequences

CONSTANTS Req, Key, R, K, MaxChunk, MaxLen

VARIABLES
  committed,  \* committed[r]: keys of the accepted tokens
  rows,       \* rows[r]: keys of the chunk being computed
  view        \* view[r]: the groups shown to the chunk, as <<group, keys>>

vars == <<committed, rows, view>>

Context(r) == committed[r] \o rows[r]

TrueGroup(keys, g) == [j \in 0 .. R - 1 |-> keys[g * R + j + 1]]

\* Every complete group of the context.
TrueView(r) ==
  IF rows[r] = <<>> THEN {}
  ELSE {<<g, TrueGroup(Context(r), g)>> : g \in 0 .. (Len(Context(r)) \div R) - 1}

Init ==
  /\ committed = [r \in Req |-> <<>>]
  /\ rows = [r \in Req |-> <<>>]
  /\ view = [r \in Req |-> {}]

Idle == \A r \in Req : rows[r] = <<>>

Schedule ==
  /\ Idle
  /\ \E chunk \in [Req -> UNION {[1 .. n -> Key] : n \in 0 .. MaxChunk}] :
       /\ \A r \in Req : Len(committed[r]) + Len(chunk[r]) <= MaxLen
       /\ rows' = chunk
  /\ UNCHANGED <<committed, view>>

Attend(r) ==
  /\ rows[r] # <<>>
  /\ view' = [view EXCEPT ![r] = TrueView(r)]
  /\ UNCHANGED <<committed, rows>>

Accept ==
  /\ ~ Idle
  /\ \A r \in Req : view[r] = TrueView(r)
  /\ \E kept \in [Req -> 0 .. MaxChunk] :
       /\ \A r \in Req : /\ kept[r] <= Len(rows[r])
                         /\ rows[r] # <<>> => kept[r] > 0
                         /\ kept[r] < Len(rows[r]) => Len(rows[r]) <= K + 1
       /\ committed' = [r \in Req |-> committed[r] \o SubSeq(rows[r], 1, kept[r])]
  /\ rows' = [r \in Req |-> <<>>]
  /\ view' = [r \in Req |-> {}]

Forget(r) ==
  /\ Idle
  /\ committed' = [committed EXCEPT ![r] = <<>>]
  /\ UNCHANGED <<rows, view>>

Next == Schedule \/ Accept \/ (\E r \in Req : Attend(r) \/ Forget(r))

Spec == Init /\ [][Next]_vars
=============================================================================
