---------------------------- MODULE VectorStore ----------------------------
(***************************************************************************)
(* Where the risk analysis keeps past fraud cases                          *)
(* (infrastructure/ai_adapter/vector_store.go): a Milvus collection that   *)
(* all servers share, and in each server's memory a bounded list that      *)
(* answers when Milvus does not.                                           *)
(*                                                                         *)
(* A case is the number of the event it was made from; Sample stands for   *)
(* the five cases that every memory starts with.  Which cases resemble a   *)
(* query is arbitrary.                                                     *)
(***************************************************************************)
EXTENDS Integers, FiniteSets, SequencesExt

CONSTANTS
  Servers,        \* server processes
  MilvusEnabled,  \* milvus.enabled, with an address
  WriteEnabled,   \* milvus.write_enabled
  TopK,           \* how many cases a search returns at most (3 by default)
  MemoryLimit     \* how many cases the memory keeps (1000)

ASSUME StoreAssumption ==
  /\ MilvusEnabled \in BOOLEAN
  /\ WriteEnabled \in BOOLEAN
  /\ TopK \in Nat \ {0}
  /\ MemoryLimit \in Nat \ {0}

VARIABLES
  kind,      \* each server's VectorStore: "milvus" or "memory"
  memory,    \* each server's list, newest first
  milvus,    \* the cases in the collection
  learned    \* history: the cases a server has written since it started

store == <<kind, memory, milvus, learned>>

Sample == 0

StoreInit ==
  /\ kind = [s \in Servers |-> "memory"]
  /\ memory = [s \in Servers |-> <<Sample>>]
  /\ milvus = {}
  /\ learned = [s \in Servers |-> {}]

-----------------------------------------------------------------------------
Forget(s) ==
  /\ memory' = [memory EXCEPT ![s] = <<Sample>>]
  /\ learned' = [learned EXCEPT ![s] = {}]
  /\ UNCHANGED milvus

\* A server's memory goes with it.
CloseStore(s) == kind' = [kind EXCEPT ![s] = "memory"] /\ Forget(s)

\* NewVectorStore: a Milvus that cannot be reached, or has no such
\* collection, leaves the server with its memory until it is started again.
NewVectorStore(s) ==
  /\ \E k \in {"memory"} \cup (IF MilvusEnabled THEN {"milvus"} ELSE {}) :
       kind' = [kind EXCEPT ![s] = k]
  /\ Forget(s)

\* InMemoryVectorStore.Search: the topK best of the list, whatever they are.
MemoryMatches(s) ==
  LET size == IF Len(memory[s]) < TopK THEN Len(memory[s]) ELSE TopK
  IN  {cases \in SUBSET ToSet(memory[s]) : Cardinality(cases) = size}

\* What Milvus may answer: topK cases of its own, or fewer where an answer
\* has no text.
MilvusMatches == {cases \in SUBSET milvus : Cardinality(cases) <= TopK}

\* Variant of Matches: what Milvus answers is passed on, empty or not.
MatchesAsAnswered(s) ==
  IF kind[s] = "milvus" THEN MilvusMatches ELSE MemoryMatches(s)

\* Search: what Milvus finds, or when it fails or finds nothing what the
\* memory does.  It never fails.
Matches(s) ==
  MemoryMatches(s) \cup (IF kind[s] = "milvus" THEN MilvusMatches \ {{}} ELSE {})

\* Variant of Newest: the list is cut at its new end.
NewestCutInFront(cases) ==
  IF Len(cases) > MemoryLimit
    THEN SubSeq(cases, Len(cases) - MemoryLimit + 1, Len(cases))
    ELSE cases

\* The cases that the memory keeps of a list that has grown by one.
Newest(cases) ==
  IF Len(cases) > MemoryLimit THEN SubSeq(cases, 1, MemoryLimit) ELSE cases

\* InMemoryVectorStore.UpsertCase
Remember(s, case) ==
  memory' = [memory EXCEPT ![s] = Newest(<<case>> \o @)]

WritesMilvus(s) == kind[s] = "milvus" /\ WriteEnabled

\* UpsertCase: into Milvus; when that call fails, before or after it took
\* effect, and when Milvus is not written at all, into the memory.
UpsertCase(s, case) ==
  /\ \/ /\ WritesMilvus(s)
        /\ milvus' = milvus \cup {case}
        /\ UNCHANGED memory
     \/ /\ Remember(s, case)
        /\ milvus' \in
             {milvus} \cup (IF WritesMilvus(s) THEN {milvus \cup {case}} ELSE {})
  /\ learned' = [learned EXCEPT ![s] = @ \cup {case}]
  /\ UNCHANGED kind

-----------------------------------------------------------------------------
StoreTypeOK ==
  /\ kind \in [Servers -> {"memory", "milvus"}]
  /\ \A s \in Servers : Len(memory[s]) \in 1 .. MemoryLimit
  /\ Sample \notin milvus

\* A case that a server has written can be found, in Milvus or in that
\* server's memory, until as many later ones as the memory holds have
\* followed it there or the server stops: no failure of Milvus
\* loses it.
CaseIsKept ==
  \A s \in Servers : \A case \in learned[s] :
    \/ case \in milvus
    \/ case \in ToSet(memory[s])
    \/ /\ Len(memory[s]) = MemoryLimit
       /\ \A newer \in ToSet(memory[s]) : newer > case
=============================================================================
