--------------------------- MODULE DataAssistant ---------------------------
(***************************************************************************)
(* A merchant's question about its own data: CopilotApp.AskData and the    *)
(* gateway LangChainNL2SQLGateway.AskData behind it.                       *)
(*                                                                         *)
(* The statement is known by what the two checks and MySQL look at:        *)
(*   select   its text, stripped of blanks and backquotes, starts with     *)
(*            "select" (a fenced ```sql block does not)                    *)
(*   writes   it contains a word like "update " or "drop "                 *)
(*   scoped   it contains " merchant_id " or "merchant_id="                *)
(*   column   its result has a column merchant_id and can be selected from *)
(*   runs     MySQL accepts it                                            *)
(* A question is served in three seconds altogether: the calls that the    *)
(* deadline cuts off are calls that fail.                                  *)
(***************************************************************************)

Statement == [select : BOOLEAN, writes : BOOLEAN, scoped : BOOLEAN,
              column : BOOLEAN, runs : BOOLEAN]

\* What can happen to a question: does it name a merchant and hold 1 to 500
\* characters, is there a language model, does it write a statement in time
\* and which, does the replica answer, and does the model explain the rows.
Question ==
  [valid : BOOLEAN, llm : BOOLEAN, writer : BOOLEAN, written : Statement,
   replica : BOOLEAN, explains : BOOLEAN]

\* The statement that is asked for when no API key is configured.
LatestOrders ==
  [select |-> TRUE, writes |-> FALSE, scoped |-> TRUE, column |-> FALSE,
   runs |-> TRUE]

GenerateSQL(q) == IF q.llm THEN q.written ELSE LatestOrders

\* SELECT 1 takes the place of a statement that does not look like a query.
SelectOne == [select |-> TRUE, writes |-> FALSE, scoped |-> FALSE,
              column |-> FALSE, runs |-> TRUE]

LooksReadOnly(s) == s.select /\ ~s.writes

EnforceReadOnly(s) == IF LooksReadOnly(s) THEN s ELSE SelectOne

\* A statement that does not speak of merchant_id is selected from, WHERE
\* merchant_id: MySQL refuses that when it has no such column.
EnforceMerchantScope(s) ==
  IF s.scoped THEN s
  ELSE [s EXCEPT !.scoped = TRUE, !.runs = s.runs /\ s.column]

\* Variant of Executed: the scope is enforced before the read-only check.
ExecutedScopeFirst(s) == EnforceReadOnly(EnforceMerchantScope(s))

\* The statement that the replica is sent.
Executed(s) == EnforceMerchantScope(EnforceReadOnly(s))

\* An error, the rows as JSON, or the model's explanation of them.
AskData(q) ==
  IF ~q.valid \/ (q.llm /\ ~q.writer) THEN "error"
  ELSE IF ~(q.replica /\ Executed(GenerateSQL(q)).runs) THEN "error"
  ELSE IF q.llm /\ q.explains THEN "explanation"
  ELSE "rows"
=============================================================================
