----------------------------- MODULE QSACapacity -----------------------------
(***************************************************************************)
(* How many rows a QSA ring gets: QSAKeyStateCache.get_kv_cache_spec       *)
(* (patches/qsa_cache.py), run once per layer when the engine starts.  The *)
(* rows are whole compression groups, at least one group and the drafts of *)
(* one step, and they have to divide the block size of the KV-cache        *)
(* manager.  The loop that looks for the divisor has no upper bound.       *)
(***************************************************************************)
EXTENDS Integers

CONSTANTS
  BlockSizes,   \* cache_config.block_size, in tokens
  Ratios,       \* compress_ratio
  Drafts,       \* num_speculative_tokens
  MaxCapacity   \* bound on the rows the loop may reach, for TLC

ASSUME InputsAssumption ==
  /\ BlockSizes \subseteq Nat \ {0}
  /\ Ratios \subseteq Nat \ {0}
  /\ Drafts \subseteq Nat
  /\ MaxCapacity \in Nat

VARIABLES block_size, compress_ratio, num_spec, capacity, pc

input == <<block_size, compress_ratio, num_spec>>
vars == <<block_size, compress_ratio, num_spec, capacity, pc>>

\* Slips: -a // b without the outer minus; a // b.
CdivNegative(a, b) == (-a) \div b
CdivDown(a, b) == a \div b

Cdiv(a, b) == (a + b - 1) \div b

Span == compress_ratio + num_spec
WholeGroups == compress_ratio * Cdiv(Span, compress_ratio)

\* _QSAStateCache.__init__ refuses a block size the ratio does not divide.
Init ==
  /\ block_size \in BlockSizes
  /\ compress_ratio \in Ratios
  /\ num_spec \in Drafts
  /\ block_size % compress_ratio = 0
  /\ capacity = 0
  /\ pc = "span"

\* Slip: the loop starts at the span itself, not at whole groups.
RoundUpToSpan ==
  /\ pc = "span"
  /\ capacity' = Span
  /\ pc' = "loop"
  /\ UNCHANGED input

RoundUp ==
  /\ pc = "span"
  /\ capacity' = WholeGroups
  /\ pc' = "loop"
  /\ UNCHANGED input

\* Slip: the loop advances by two groups.
AdvanceByTwoGroups ==
  /\ pc = "loop"
  /\ block_size % capacity # 0
  /\ capacity + 2 * compress_ratio <= MaxCapacity
  /\ capacity' = capacity + 2 * compress_ratio
  /\ UNCHANGED <<pc, input>>

Advance ==
  /\ pc = "loop"
  /\ block_size % capacity # 0
  /\ capacity + compress_ratio <= MaxCapacity
  /\ capacity' = capacity + compress_ratio
  /\ UNCHANGED <<pc, input>>

Return ==
  /\ pc = "loop"
  /\ block_size % capacity = 0
  /\ pc' = "done"
  /\ UNCHANGED <<capacity, input>>

Next == RoundUp \/ Advance \/ Return

Spec == Init /\ [][Next]_vars

-----------------------------------------------------------------------------
\* The configuration is one of those given, the rows stay numbers in their range.
TypeOK ==
  /\ block_size \in BlockSizes
  /\ compress_ratio \in Ratios
  /\ num_spec \in Drafts
  /\ capacity \in Nat
  /\ pc \in {"span", "loop", "done"}

(***************************************************************************)
(* The rows that come out are enough for the ring: they hold the open      *)
(* group and every row of a speculative step, and satisfy the assumption   *)
(* the ring is built on (CapacityAssumption of QSARing).                   *)
(***************************************************************************)
SpanFits ==
  pc = "done" => /\ capacity >= compress_ratio
                 /\ capacity + 1 >= compress_ratio + num_spec

(***************************************************************************)
(* They are whole groups and divide the manager's block: a group's rows    *)
(* never wrap between two rings, and the ring adds no factor of its own to *)
(* the scheduler's block size (qsa_cache.py:832-836).                      *)
(***************************************************************************)
DividesBlock ==
  pc = "done" => /\ capacity % compress_ratio = 0
                 /\ block_size % capacity = 0

(***************************************************************************)
(* The loop takes the smallest such number ("Advance by whole compression  *)
(* groups to the smallest divisor", qsa_cache.py:840-841).                 *)
(***************************************************************************)
SmallestDivisor ==
  pc = "done" =>
    \A n \in Span .. capacity - 1 :
      n % compress_ratio = 0 => block_size % n # 0

(***************************************************************************)
(* The engine starts: the loop ends whenever the open group and the drafts *)
(* of a step fit into one block of the manager.  When they do not, no      *)
(* number of rows divides the block and the loop runs on for ever.         *)
(***************************************************************************)
EndsIfSpanFits ==
  (pc = "span" /\ block_size % compress_ratio = 0 /\ Span <= block_size) ~> (pc = "done")
=============================================================================
