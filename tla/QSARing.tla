------------------------------- MODULE QSARing -------------------------------
(***************************************************************************)
(* The compressor state of one QSA layer (patches/qsa_cache.py and         *)
(* patches/upstream-overlays/ops_qsa.py).  A request's raw index keys are  *)
(* pooled in groups of R.  A group that spans two steps needs keys of      *)
(* earlier steps, which are kept in one ring of C rows per request: the    *)
(* key of position p is in row p % C.  A step computes a chunk of rows at  *)
(* the positions after the committed ones; in a decode step all rows but   *)
(* the first are drafts, and a suffix of them may be rejected after the    *)
(* ring and the compressed cache have been written.                        *)
(*                                                                         *)
(* The GPU work of a step is cut into work items that run in any order:    *)
(* item i of a request pools the i-th group its chunk completes, and item  *)
(* zero also commits the chunk's raw keys to the ring.  A pooled row is    *)
(* modelled by the keys it averages.                                       *)
(***************************************************************************)
EXTENDS Integers, Sequences, FiniteSets

CONSTANTS
  Req,       \* requests
  Block,     \* ring blocks, handed out by the KV-cache manager
  NoBlock,   \* "this request has no ring block"
  Key,       \* raw index keys
  Stale,     \* the content of a row its owner has not written
  R,         \* compress_ratio
  K,         \* num_speculative_tokens
  C,         \* rows of a ring (CircularBufferSpec.block_size)
  MaxChunk,  \* max_num_batched_tokens
  MaxLen     \* max_model_len

(***************************************************************************)
(* The only thing the ring needs of its capacity.  QSACapacity shows that  *)
(* the capacity get_kv_cache_spec computes satisfies it.                   *)
(***************************************************************************)
ASSUME ConstantsAssumption ==
  /\ R \in Nat \ {0}
  /\ K \in Nat
  /\ C \in Nat \ {0}
  /\ MaxChunk \in Nat
  /\ MaxLen \in Nat
  /\ NoBlock \notin Block
  /\ Stale \notin Key

ASSUME CapacityAssumption == C >= R /\ C + 1 >= R + K

VARIABLES
  committed,  \* committed[r]: keys of the request's computed and accepted tokens
  rows,       \* rows[r]: keys of the chunk being computed, <<>> between steps
  block,      \* block[r]: the ring block of the request
  ring,       \* ring[b]: the rows of block b
  pooled,     \* pooled[r][g]: compressed cache row of the request's group g
  todo        \* todo[r]: work items of the step that have not run

vars == <<committed, rows, block, ring, pooled, todo>>

-----------------------------------------------------------------------------
(* Positions count from 0; the key of position p is element p + 1.         *)

Slot == 0 .. C - 1
Row == Key \union {Stale}
Group == 0 .. (MaxLen \div R) - 1
Pool == [0 .. R - 1 -> Row]

Start(r) == Len(committed[r])             \* position of the chunk's first row
End(r) == Start(r) + Len(rows[r])         \* seq_len of the step
Context(r) == committed[r] \o rows[r]     \* the keys the step's queries may see

\* Slip: the groups a chunk would complete if it began a group.
NumGroupsOfChunk(start, n) == n \div R

\* Groups completed by n rows computed at position start.
NumGroups(start, n) == (start + n) \div R - start \div R

\* Slip: no item for a chunk that completes no group.
WorkItemsPerGroup(start, n) == 0 .. NumGroups(start, n) - 1

\* An item even without a completed group: item zero commits the raw keys.
WorkItems(start, n) ==
  IF n = 0 THEN {}
  ELSE 0 .. (IF NumGroups(start, n) > 1 THEN NumGroups(start, n) ELSE 1) - 1

\* Only the last C rows of the chunk have a ring slot (the others are PAD).
StoredPositions(r) == {p \in Start(r) .. End(r) - 1 : p + C >= End(r)}

\* Compressed rows a query at position p may select.
VisibleBlocks(r, p) ==
  LET upToQuery == (p + 1) \div R
      upToEnd == End(r) \div R
  IN  IF upToQuery < upToEnd THEN upToQuery ELSE upToEnd

\* The raw key of position p: this step's row or the ring.
RawKey(r, p) ==
  IF p >= Start(r)
  THEN rows[r][p - Start(r) + 1]
  ELSE ring[block[r]][p % C]

PooledGroup(r, g) == [j \in 0 .. R - 1 |-> RawKey(r, g * R + j)]

-----------------------------------------------------------------------------
Init ==
  /\ committed = [r \in Req |-> <<>>]
  /\ rows = [r \in Req |-> <<>>]
  /\ block = [r \in Req |-> NoBlock]
  /\ ring = [b \in Block |-> [s \in Slot |-> Stale]]
  /\ pooled = [r \in Req |-> [g \in Group |-> [j \in 0 .. R - 1 |-> Stale]]]
  /\ todo = [r \in Req |-> {}]

Idle == \A r \in Req : rows[r] = <<>>

\* The manager gives a request one ring block.  Neither the ring nor the pages
\* the request's compressed rows come to lie in are cleared: what a former
\* owner left there is Stale.
Admit(r, b) ==
  /\ Idle
  /\ block[r] = NoBlock
  /\ \A q \in Req : block[q] # b
  /\ block' = [block EXCEPT ![r] = b]
  /\ UNCHANGED <<committed, rows, ring, pooled, todo>>

\* One model step: every scheduled request gets a chunk of new rows.
Chunks == UNION {[1 .. n -> Key] : n \in 0 .. MaxChunk}

Schedule(chunk) ==
  /\ Idle
  /\ \E r \in Req : chunk[r] # <<>>
  /\ \A r \in Req : chunk[r] # <<>> =>
       /\ block[r] # NoBlock
       /\ Start(r) + Len(chunk[r]) <= MaxLen
  /\ rows' = chunk
  /\ todo' = [r \in Req |-> WorkItems(Start(r), Len(chunk[r]))]
  /\ UNCHANGED <<committed, block, ring, pooled>>

\* Slip: groups of the chunk are numbered from 0, not from its start.
PoolItemFromZero(r, i) ==
  pooled' = IF i < NumGroups(Start(r), Len(rows[r]))
            THEN [pooled EXCEPT ![r][i] = PooledGroup(r, Start(r) \div R + i)]
            ELSE pooled

\* Work item i pools the i-th group the chunk completes, if there is one.
PoolItem(r, i) ==
  LET g == Start(r) \div R + i
  IN  pooled' = IF i < NumGroups(Start(r), Len(rows[r]))
                THEN [pooled EXCEPT ![r][g] = PooledGroup(r, g)]
                ELSE pooled

\* Slip: slots are counted modulo one row more than the ring has.
CommitRowsPastEnd(r) ==
  ring' = [ring EXCEPT ![block[r]] =
             [s \in 0 .. C |->
                IF \E p \in StoredPositions(r) : p % (C + 1) = s
                THEN Context(r)[(CHOOSE p \in StoredPositions(r) : p % (C + 1) = s) + 1]
                ELSE Stale]]

\* The rows of the chunk that have a slot are stored over older positions.
CommitRows(r) ==
  ring' = [ring EXCEPT ![block[r]] =
             [s \in Slot |->
                IF \E p \in StoredPositions(r) : p % C = s
                THEN Context(r)[(CHOOSE p \in StoredPositions(r) : p % C = s) + 1]
                ELSE ring[block[r]][s]]]

\* Slip: the last item commits the raw keys, not item zero.
RunItemCommitsLast(r, i) ==
  /\ i \in todo[r]
  /\ PoolItem(r, i)
  /\ IF i + 1 \notin WorkItems(Start(r), Len(rows[r]))
     THEN CommitRows(r)
     ELSE UNCHANGED ring
  /\ todo' = [todo EXCEPT ![r] = @ \ {i}]
  /\ UNCHANGED <<committed, rows, block>>

RunItem(r, i) ==
  /\ i \in todo[r]
  /\ PoolItem(r, i)
  /\ IF i = 0 THEN CommitRows(r) ELSE UNCHANGED ring
  /\ todo' = [todo EXCEPT ![r] = @ \ {i}]
  /\ UNCHANGED <<committed, rows, block>>

\* How many of a chunk's rows may be kept.  A decode step is the last sampled
\* token followed by at most K drafts: the token stays, a suffix of the drafts
\* may be rejected.  A prompt chunk stays as a whole.
Acceptable(r) ==
  IF rows[r] = <<>> THEN {0}
  ELSE IF committed[r] # <<>> /\ Len(rows[r]) <= K + 1
       THEN 1 .. Len(rows[r])
       ELSE {Len(rows[r])}


\* The batch is sampled once the work of all its requests is done.
Accept(kept) ==
  /\ ~ Idle
  /\ \A r \in Req : todo[r] = {} /\ kept[r] \in Acceptable(r)
  /\ committed' = [r \in Req |-> committed[r] \o SubSeq(rows[r], 1, kept[r])]
  /\ rows' = [r \in Req |-> <<>>]
  /\ UNCHANGED <<block, ring, pooled, todo>>

\* The request finished or was preempted: its block and its pages go back.  They
\* are not cleared, but to the next owner what they hold may be anything, and is
\* Stale from here on.
Release(r) ==
  /\ Idle
  /\ block[r] # NoBlock
  /\ block' = [block EXCEPT ![r] = NoBlock]
  /\ committed' = [committed EXCEPT ![r] = <<>>]
  /\ ring' = [ring EXCEPT ![block[r]] = [s \in Slot |-> Stale]]
  /\ pooled' = [pooled EXCEPT ![r] = [g \in Group |-> [j \in 0 .. R - 1 |-> Stale]]]
  /\ UNCHANGED <<rows, todo>>

Next ==
  \/ \E r \in Req, b \in Block : Admit(r, b)
  \/ \E chunk \in [Req -> Chunks] : Schedule(chunk)
  \/ \E r \in Req : \E i \in todo[r] : RunItem(r, i)
  \/ \E kept \in [Req -> 0 .. MaxChunk] : Accept(kept)
  \/ \E r \in Req : Release(r)

Spec == Init /\ [][Next]_vars

-----------------------------------------------------------------------------
\* Blocks, keys, chunks and work items keep their types; a ring keeps its width.
TypeOK ==
  /\ committed \in [Req -> Seq(Key)]
  /\ rows \in [Req -> Seq(Key)]
  /\ block \in [Req -> Block \union {NoBlock}]
  /\ ring \in [Block -> [Slot -> Row]]
  /\ pooled \in [Req -> [Group -> Pool]]
  /\ todo \in [Req -> SUBSET Nat]

\* The keys a compressed row must average: those of the group's own tokens.
TrueGroup(keys, g) == [j \in 0 .. R - 1 |-> keys[g * R + j + 1]]

OpenPositions(len) == (len \div R) * R .. len - 1

Commits(r) == rows[r] # <<>> /\ 0 \notin todo[r]

RingHolds(r, keys, len) ==
  \A p \in OpenPositions(len) : ring[block[r]][p % C] = keys[p + 1]

(***************************************************************************)
(* A rejected draft row never destroys a key that is still needed: however *)
(* many rows of the chunk are kept, the ring then holds the key of every   *)
(* committed token of the group that is still open ("Anything narrower     *)
(* lets a rejected draft row overwrite a committed key the next step needs *)
(* to close the group", qsa_cache.py:830-834).                             *)
(***************************************************************************)
RingKeepsOpenGroup ==
  \A r \in Req : block[r] # NoBlock =>
    IF Commits(r)
    THEN \A kept \in Acceptable(r) : RingHolds(r, Context(r), Start(r) + kept)
    ELSE RingHolds(r, committed[r], Start(r))

(***************************************************************************)
(* When the work of a step is done, every compressed row its queries may   *)
(* select (visible_blocks) averages exactly the request's own keys of that *)
(* group, no key after the query, none of a rejected draft, and none a     *)
(* former owner of the ring block or of the pages left behind.             *)
(***************************************************************************)
QueriesSeeTrueGroups ==
  \A r \in Req : todo[r] = {} =>
    \A p \in Start(r) .. End(r) - 1 : \A g \in 0 .. VisibleBlocks(r, p) - 1 :
      /\ (g + 1) * R <= p + 1
      /\ pooled[r][g] = TrueGroup(Context(r), g)

(***************************************************************************)
(* The compressed row of a group whose tokens are all committed is final   *)
(* as long as the request keeps its state: no later step, and no item run  *)
(* in another order, pools it again.                                       *)
(***************************************************************************)
CommittedGroupsAreFinal ==
  [][\A r \in Req : \A g \in Group :
       (g + 1) * R <= Start(r) /\ block'[r] = block[r] =>
         pooled'[r][g] = pooled[r][g]]_vars

-----------------------------------------------------------------------------
\* What the queries of a finished step are shown.
View(r) ==
  IF rows[r] = <<>> \/ todo[r] # {} THEN {}
  ELSE {<<g, pooled[r][g]>> : g \in 0 .. VisibleBlocks(r, End(r) - 1) - 1}

Promise == INSTANCE QSAContext WITH view <- [r \in Req |-> View(r)]

(***************************************************************************)
(* The ring, the reuse of its blocks and the order of the work items do    *)
(* not show: every step of the cache is a step, or a stutter, of a cache   *)
(* that keeps the whole context and pools it afresh.                       *)
(***************************************************************************)
ImplementsContext == Promise!Spec

=============================================================================
