------------------------------- MODULE Config -------------------------------
(***************************************************************************)
(* How a setting gets its value when the server starts                     *)
(* (internal/config/config.go), and what the replica's connection makes of *)
(* it (ai_adapter/langchain_nl2sql.go, newReadReplicaDB).                  *)
(*                                                                         *)
(* A setting is given by up to four sources: the environment the process   *)
(* was started in, the lines of .env that name its key, config.yaml and    *)
(* the defaults.  All fifty settings are read alike, texts as they are and *)
(* numbers and switches through a parser.  A value is known here by the    *)
(* source it comes from.                                                   *)
(***************************************************************************)
EXTENDS Integers, Sequences

CONSTANT MaxLines   \* bound on the lines of .env that name one key

ASSUME MaxLinesAssumption == MaxLines \in Nat

Unset == "unset"        \* the source does not name the key
Blank == "blank"        \* an empty text; for a number of config.yaml, a zero
Garbled == "garbled"    \* a text that neither Atoi nor ParseBool reads
Hollow == "hollow"      \* a number that is not positive, or a text of blanks

Kind == {"text", "parsed"}

\* What defaultConfig sets: most settings to a value, the others to "" or 0.
Defaults == {Blank, "default"}

Text(source) == {Blank, Garbled, Hollow, source}

\* Where a setting's value can come from.  The lines of .env are trimmed, and
\* config.yaml has passed its parser: a value that does not fit its field
\* makes Load, and with it the start, fail, but a number may be negative there
\* and a text consist of blanks.  (A key without a value counts as not named.)
Sources ==
  {s \in [kind : Kind,
          environment : {Unset} \cup Text("environment"),
          dotenv  : UNION {[1 .. n -> Text("dotenv")] : n \in 0 .. MaxLines},
          yaml    : {Unset, Blank, Hollow, "yaml"},
          default : Defaults] :
     s.kind = "text" => \A i \in DOMAIN s.dotenv : s.dotenv[i] # Hollow}

-----------------------------------------------------------------------------
(* LoadEnvFile                                                             *)

\* Variant of SetIfMissing: every line sets its key.
SetAlways(variable, text) == text

\* A line of .env sets a key that the environment does not have; a key that
\* it has with an empty value is left alone as well.
SetIfMissing(variable, text) == IF variable = Unset THEN text ELSE variable

\* The variable after all lines that name it, the file read from the top.
LoadEnvFile(variable, lines) ==
  LET after[i \in 0 .. Len(lines)] ==
        IF i = 0 THEN variable ELSE SetIfMissing(after[i - 1], lines[i])
  IN  after[Len(lines)]

-----------------------------------------------------------------------------
(* Load                                                                    *)

\* Unmarshal writes the keys of config.yaml over the defaults.
LoadYAML(default, yaml) == IF yaml = Unset THEN default ELSE yaml

\* Getenv gives "" for a missing variable too, and a text that does not
\* parse is dropped without a word.
LoadEnv(kind, value, variable) ==
  IF variable \in {Unset, Blank} \/ (kind = "parsed" /\ variable = Garbled)
  THEN value
  ELSE variable

Setting(s) ==
  LoadEnv(s.kind,
          LoadYAML(s.default, s.yaml),
          LoadEnvFile(s.environment, s.dotenv))

-----------------------------------------------------------------------------
(* newReadReplicaDB                                                        *)

\* fallbackString and fallbackInt.
Fallback(value, fallback) ==
  IF value \in {Blank, Hollow} THEN fallback ELSE value

\* What the replica's connection uses, from the setting of the readonly
\* section and the primary's setting of the same name.
ReplicaSetting(readonly, primary) ==
  Fallback(Setting(readonly), Setting(primary))
=============================================================================
