----------------------------- MODULE SequentialId -----------------------------
(***************************************************************************)
(* The date-sequence identifiers (PR-20260801-01, ...) that every document *)
(* of the backend is given: nextSequentialId and generateWithRetry of      *)
(* utils/sequentialIdGenerator.ts.  A request reads the identifiers of the *)
(* day, takes one more than the largest, and inserts its row; the unique   *)
(* column rejects the insert when another request was faster, and the      *)
(* request starts again with a fresh number, MaxAttempts times.  It does   *)
(* so on any P2002: a row that violates another unique column as well      *)
(* (qc_batches.order_id, say) uses up the attempts of its request too.     *)
(*                                                                         *)
(* One day's prefix; an identifier is its sequence number.                 *)
(***************************************************************************)
EXTENDS Integers, Sequences

CONSTANTS
  Clients,     \* requests that can be in flight at the same time
  MaxAttempts  \* maxAttempts: 5 in the code

VARIABLES
  ids,   \* the sequence numbers in the table, in the order of their insertion
  loop   \* what each client's request has read

vars == <<ids, loop>>

\* The numbers in use.  Rows with an identifier are never deleted.
Used(s) == {s[i] : i \in DOMAIN s}

\* One more than the largest number in use.
nextSequentialId(s) ==
  1 + CHOOSE m \in {0} \cup Used(s) : \A k \in Used(s) : k <= m

\* from is how many rows there were when the request came, others how many of
\* its attempts failed on another unique column: memories of the model, to say
\* why a request gave up.
Resting == [pc |-> "idle", id |-> 0, tries |-> 0, from |-> 0, others |-> 0]

Init == ids = << >> /\ loop = [c \in Clients |-> Resting]

Ask(c) ==
  /\ loop[c].pc = "idle"
  /\ loop' = [loop EXCEPT ![c] = [Resting EXCEPT !.pc = "number", !.from = Len(ids)]]
  /\ UNCHANGED ids

\* nextId(): a query of its own, before each attempt.
NextId(c) ==
  /\ loop[c].pc = "number"
  /\ loop' = [loop EXCEPT ![c].pc = "insert", ![c].id = nextSequentialId(ids)]
  /\ UNCHANGED ids

Insert(c) ==
  /\ loop[c].pc = "insert" /\ loop[c].id \notin Used(ids)
  /\ ids' = Append(ids, loop[c].id)
  /\ loop' = [loop EXCEPT ![c] = Resting]

\* P2002 on the identifier: the next attempt.
Collide(c) ==
  /\ loop[c].pc = "insert" /\ loop[c].id \in Used(ids)
  /\ loop[c].tries + 1 < MaxAttempts
  /\ loop' = [loop EXCEPT ![c].pc = "number", ![c].tries = @ + 1]
  /\ UNCHANGED ids

\* P2002 on another column of the row, whatever the number: isUniqueConstraintConflict
\* does not tell them apart.
CollideElsewhere(c) ==
  /\ loop[c].pc = "insert" /\ loop[c].tries + 1 < MaxAttempts
  /\ loop' = [loop EXCEPT ![c].pc = "number", ![c].tries = @ + 1, ![c].others = @ + 1]
  /\ UNCHANGED ids

\* allocationExhaustedError, a 409.
GiveUp(c) ==
  /\ loop[c].pc = "insert" /\ loop[c].id \in Used(ids)
  /\ loop[c].tries + 1 >= MaxAttempts
  /\ loop' = [loop EXCEPT ![c] = Resting]
  /\ UNCHANGED ids

\* The same 409 when the last attempt failed on another column.
GiveUpElsewhere(c) ==
  /\ loop[c].pc = "insert" /\ loop[c].tries + 1 >= MaxAttempts
  /\ loop' = [loop EXCEPT ![c] = Resting]
  /\ UNCHANGED ids

\* Any other error propagates at once.
Abandon(c) ==
  /\ loop[c].pc # "idle"
  /\ loop' = [loop EXCEPT ![c] = Resting]
  /\ UNCHANGED ids

Next == \E c \in Clients :
  \/ Ask(c) \/ NextId(c) \/ Insert(c) \/ Abandon(c)
  \/ Collide(c) \/ GiveUp(c) \/ CollideElsewhere(c) \/ GiveUpElsewhere(c)

Spec == Init /\ [][Next]_vars

-----------------------------------------------------------------------------
\* Numbers are given out in order, without a gap and never twice: the n-th row
\* of the day carries the number n, however the requests interleave.
GapFree == \A i \in DOMAIN ids : ids[i] = i

\* The attempts that failed on the number itself.
Overtaken(c) == loop[c].tries - loop[c].others

\* Every failed attempt has its reason: a request that failed k times on its
\* number has seen k rows of others inserted since it came.
CrowdedOut == \A c \in Clients :
  loop[c].pc # "idle" => Len(ids) >= loop[c].from + Overtaken(c)

\* The 409 of generateWithRetry accounts for all attempts: they failed on
\* another unique column, or a row of others was inserted for each of them
\* while the request was trying.
GivesUpForAReason == [][\A c \in Clients :
  /\ GiveUp(c) => Len(ids) >= loop[c].from + (MaxAttempts - loop[c].others)
  /\ GiveUpElsewhere(c) => Len(ids) >= loop[c].from + (MaxAttempts - 1 - loop[c].others)]_vars

=============================================================================
