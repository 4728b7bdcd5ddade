---------------------------- MODULE MCFunctions ----------------------------
(***************************************************************************)
(* Checks the functions of AlipayAmount, ChannelCallback, Config and       *)
(* DataAssistant over bounded inputs: the amounts one after the other, and *)
(* one state for each input of the others.                                 *)
(***************************************************************************)
EXTENDS MCAlipayAmount, ChannelCallback, Config, DataAssistant

CONSTANT NoInput   \* no input has been chosen

VARIABLE input

FunctionsInit == Init /\ input = NoInput

Choose(inputs) ==
  /\ input = NoInput
  /\ input' \in inputs
  /\ UNCHANGED cents

NextAmount == input = NoInput /\ Next /\ UNCHANGED input

ChooseSetting == cents = 1 /\ Choose([setting : Sources])

ChooseQuestion == cents = 1 /\ Choose([question : Question])

ChooseNotice ==
  cents = 1 /\ Choose([notice : Notice, taken : BOOLEAN])

FunctionsNext ==
  \/ NextAmount
  \/ ChooseSetting
  \/ ChooseQuestion
  \/ ChooseNotice

FunctionsSpec == FunctionsInit /\ [][FunctionsNext]_<<cents, input>>

Is(field) == input # NoInput /\ field \in DOMAIN input

-----------------------------------------------------------------------------
Usable(kind, text) ==
  text \notin {Unset, Blank} /\ (kind = "parsed" => text # Garbled)

\* The primary's setting of the same name, given by its environment.
Primary(kind) == [kind |-> kind, environment |-> "primary",
                  dotenv |-> <<>>, yaml |-> Unset, default |-> "default"]

\* The first line of .env that names the key.
Line(s) == IF s.dotenv = <<>> THEN Unset ELSE s.dotenv[1]

\* The value of a setting is the one of the highest source that gives a
\* usable one: .env, config.yaml, the default, as config.go:110, main.go:40
\* and README.md:93 promise, below the environment the process was started in;
\* of the lines of .env only the first counts.  Nothing is said of a key that
\* this environment has with a text that is empty or does not parse: it hides
\* .env although it gives no value.  The replica's connection takes the
\* primary's setting instead of a blank, and never uses a text of blanks or a
\* number that is not positive; a default of its own counts as a value
\* (langchain_nl2sql.go:106-110).
SettingsAreRanked ==
  Is("setting") =>
    LET s == input.setting
        line == IF s.environment = Unset THEN Line(s) ELSE Unset
        replica == ReplicaSetting(s, Primary(s.kind))
    IN  /\ Usable(s.kind, s.environment) => Setting(s) = s.environment
        /\ Usable(s.kind, line) => Setting(s) = line
        /\ s.environment = Unset /\ ~Usable(s.kind, line) =>
             Setting(s) = IF s.yaml # Unset THEN s.yaml ELSE s.default
        /\ replica \notin {Blank, Hollow}
        /\ replica = "primary" <=> Setting(s) \in {Blank, Hollow}

\* A text of the language model that is no query, or that seems to write, is
\* never answered: SELECT 1 takes its place, and is refused by MySQL once the
\* merchant's filter is put around it, for it has no such column
\* (langchain_nl2sql.go:49-54).
RejectedIsNotAnswered ==
  Is("question") =>
    LET q == input.question IN
      q.llm /\ ~LooksReadOnly(q.written) => AskData(q) = "error"

\* PayApp is handed a channel's notice only if the channel says that the
\* trade was paid, and a notice that says so is answered "success", which
\* ends its repetition, only if PayApp took it (webhook_handler.go:58-114).
OnlyPaymentsAreTaken ==
  Is("notice") =>
    LET n == input.notice
        paid == IF n.channel = "wechat"
                THEN n.returnCode = "SUCCESS" /\ n.status = "SUCCESS"
                ELSE n.status \in {"TRADE_SUCCESS", "TRADE_FINISHED"}
    IN  /\ Processed(n) => paid
        /\ paid /\ AnswerTo(n, input.taken) = "success"
             => Processed(n) /\ input.taken
=============================================================================
