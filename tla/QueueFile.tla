----------------------------- MODULE QueueFile -----------------------------
(***************************************************************************)
(* internal/config/queue.go and template.go: what a text of queues.yaml    *)
(* means.  A text is a function from queue names to definitions; one that  *)
(* is not YAML, or has a field nobody knows, is the text that defines      *)
(* nothing.  A template is the placeholders of its text, in order; one     *)
(* that the pattern does not match is Malformed.  Durations are in days of *)
(* retention and minutes of timeout, the budget in cents.                  *)
(***************************************************************************)
EXTENDS Integers, Sequences, SequencesExt

CONSTANTS
  Files,             \* names of the texts the file may have
  Text,              \* what each of them defines
  DefaultRetention   \* 180 days in the code

\* What is kept of Queue.
Fields == {"named", "prompt", "turns", "timeout", "retention", "weight", "budget",
           "args", "refs", "sysrefs", "notify"}

ASSUME QueueFileAssumptions ==
  /\ DefaultRetention \in Nat \ {0}
  /\ \A f \in Files : \A n \in DOMAIN Text[f] :
       DOMAIN Text[f][n] = Fields /\ Text[f][n].retention \in Int

DefaultMaxTurns == 30
DefaultTimeout == 10
DefaultWeight == 1
MinMaxTurns == 5

ArgTypes == {"string", "integer", "number", "boolean"}
NotifyEvents == {"job.succeeded", "job.failed", "job.needs_input", "job.interrupted",
                 "job.cancelled"}

Malformed == "{{"

-----------------------------------------------------------------------------
applyDefaults(d) ==
  [d EXCEPT !.turns = IF @ = 0 THEN DefaultMaxTurns ELSE @,
            !.timeout = IF @ = 0 THEN DefaultTimeout ELSE @,
            !.retention = IF @ = 0 THEN DefaultRetention ELSE @,
            !.weight = IF @ = 0 THEN DefaultWeight ELSE @]

\* The names a template uses; it is refused for its first placeholder only.  A
\* malformed one that comes later stays in the text as it is.
templateRefs(tmpl) == ToSet(tmpl) \ {Malformed}
wellFormed(tmpl) == tmpl = << >> \/ Head(tmpl) # Malformed

\* An empty definition and a blank prompt are definitions without a prompt; a name
\* the pattern refuses is a queue without a name.  Retention may be negative.
validate(d) ==
  /\ d.named /\ d.prompt
  /\ d.turns >= MinMaxTurns
  /\ d.timeout > 0 /\ d.weight > 0 /\ d.budget >= 0
  /\ \A x \in DOMAIN d.args : /\ d.args[x].type \in ArgTypes
                              /\ d.args[x].format \in {"", "uri"}
  /\ \A tmpl \in {d.refs, d.sysrefs} :
       wellFormed(tmpl) /\ templateRefs(tmpl) \ {"input"} \subseteq DOMAIN d.args
  /\ d.notify \subseteq NotifyEvents

\* The queues a text defines, or none when it is refused.
ParseQueues(t) ==
  LET qs == [n \in DOMAIN t |-> applyDefaults(t[n])]
  IN IF \A n \in DOMAIN qs : validate(qs[n]) THEN qs ELSE << >>

Queues == [f \in Files |-> ParseQueues(Text[f])]
Valid == {f \in Files : DOMAIN Queues[f] # {}}

\* ConfigHash: SHA-256 of the name and the definition, defaults applied; two that
\* differ are taken to have different hashes.
hash(n, d) == <<n, d>>

-----------------------------------------------------------------------------
\* The values a JSON body may hold, by the types that take them; "empty" is the
\* string without characters, which is no absolute URI.
ArgValues == {"empty", "text", "uri", "whole", "fraction", "truth"}
Takes(type) == CASE type = "string"  -> {"empty", "text", "uri"}
                 [] type = "integer" -> {"whole"}
                 [] type = "number"  -> {"whole", "fraction"}
                 [] type = "boolean" -> {"truth"}

validateValue(spec, v) ==
  /\ v \in Takes(spec.type)
  /\ spec.type = "string" =>
       (spec.format = "uri" => v = "uri") /\ (spec.enum # {} => v \in spec.enum)

\* Mutant: an argument nobody declared is refused, one that is missing is not.
ValidateArgsGiven(d, args) ==
  \A x \in DOMAIN args : x \in DOMAIN d.args /\ validateValue(d.args[x], args[x])

ValidateArgs(d, args) ==
  /\ \A x \in DOMAIN d.args : IF x \in DOMAIN args THEN validateValue(d.args[x], args[x])
                              ELSE ~d.args[x].required
  /\ DOMAIN args \subseteq DOMAIN d.args

\* Render: the arguments that come out empty, not given or given as "".  Only the
\* prompt is rendered; the placeholders of the system prompt are checked and sent as
\* they are.
Blank(d, args) ==
  {x \in templateRefs(d.refs) \ {"input"} : x \in DOMAIN args => args[x] = "empty"}

=============================================================================
