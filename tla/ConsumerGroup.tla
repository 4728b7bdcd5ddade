--------------------------- MODULE ConsumerGroup ---------------------------
(***************************************************************************)
(* What the two consumers are written to get from their Redis stream,      *)
(* without servers, calls or failures: every entry is handed out at most   *)
(* once and in the order of publication, whoever asks, and is pending from *)
(* then until it is acknowledged, which happens only to an entry that was  *)
(* handled.                                                                *)
(***************************************************************************)
EXTENDS Integers

CONSTANT MayTrim   \* TRUE: entries can be dropped before they are handed out

VARIABLES
  published,   \* how many entries there have been
  last,        \* the last one that was handed out
  pending,     \* handed out and not acknowledged
  handled      \* those somebody has tried to do what they ask for

vars == <<published, last, pending, handled>>

Init ==
  /\ published = 0
  /\ last = 0
  /\ pending = {}
  /\ handled = {}

Publish ==
  /\ published' = published + 1
  /\ UNCHANGED <<last, pending, handled>>

\* The next entries up to one of them, except those that were trimmed.
HandOut ==
  /\ last' \in (last + 1) .. published
  /\ \E trimmed \in SUBSET ((last + 1) .. (last' - 1)) :
       /\ MayTrim \/ trimmed = {}
       /\ pending' = pending \cup (((last + 1) .. last') \ trimmed)
  /\ UNCHANGED <<published, handled>>

\* An entry is handled, again perhaps, and may be acknowledged at once.
Handle ==
  /\ \E id \in 1 .. last :
       /\ handled' = handled \cup {id}
       /\ pending' \in {pending, pending \ {id}}
  /\ UNCHANGED <<published, last>>

Acknowledge ==
  /\ pending' \subseteq pending
  /\ pending \ pending' \subseteq handled
  /\ UNCHANGED <<published, last, handled>>

Next == Publish \/ HandOut \/ Handle \/ Acknowledge

Spec == Init /\ [][Next]_vars
=============================================================================
