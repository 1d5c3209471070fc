---------------------------- MODULE MessageCheck ----------------------------
(***************************************************************************)
(* The assessment of one message: what the evaluator finds (its rules, the *)
(* link reviewed with it, the model) becomes a summary (message_evaluator),*)
(* which an independent contract validates (shared_message_contract), the  *)
(* consumer settles and every later answer projects again, when the threat *)
(* found may no longer be current. The three versions of the contract.     *)
(***************************************************************************)
EXTENDS Naturals, FiniteSets

CONSTANTS
  MaxTime,  \* bound of the clock
  None

MessageAssumption == MaxTime \in Nat

VARIABLES
  now,
  message,  \* what is asked: the contract's version and the reviewed message
  job,      \* the execution of the check
  row,      \* its summary in the authority, when settled
  shown     \* the last answer

vars == <<now, message, job, row, shown>>

Times == 0..MaxTime
Grave == {"DEMAND_GIFT_CARD_PAYMENT", "REQUEST_SECRET_DISCLOSURE"}
Pressure == "PAYMENT_WITH_SECRECY_PRESSURE"
Benign == "BENIGN_FIXED_TEXT"
Outage == {"PROVIDER_UNAVAILABLE", "PROVIDER_RESPONSE_INVALID", "BUDGET_LIMIT"}
Untrusted == {"HOSTILE_INPUT_STOP", "UNKNOWN_SPEAKER", "UNSUPPORTED_CONTENT"}

\* One of the two grave rules stands for both. At most one rule matches a message.
RuleSets == {{}, {"REQUEST_SECRET_DISCLOSURE"}, {Pressure}, {Benign}}

\* Messages the contract accepts. Candidate 3 may run without a model (rulesOnly).
Messages ==
  {msg \in [version : 1..3, rulesOnly : BOOLEAN, coverage : RuleSets, hostile : BOOLEAN,
            speaker : {"other", "self", "unknown"}, quoted : BOOLEAN, withheld : BOOLEAN,
            link : {"none", "full_url", "origin_only"}] : msg.rulesOnly => msg.version = 3}

Idle == [phase |-> "idle"]
Init ==
  /\ now = 0
  /\ message \in Messages
  /\ job = Idle /\ row = None /\ shown = None

-----------------------------------------------------------------------------
(* The policies *)

Matched(evidence) == \E e \in evidence : e.outcome = "match"
Demands(rules) == rules \cap Grave # {}
Summary(verdict, outcome, limits, rules, evidence, action, key) ==
  [verdict |-> verdict, outcome |-> outcome, limits |-> limits, rules |-> rules,
   evidence |-> evidence, action |-> action, key |-> key]

Extent(limits) == IF limits # {} THEN "partial" ELSE "complete"

\* policy.result and policy_v2.result: nothing is known of the message.
Undecided(limits, more, rules, evidence, key) ==
  IF "HOSTILE_INPUT_STOP" \in limits
  THEN Summary("unknown", "blocked", limits, rules, evidence, "review_input", "hostile_stop")
  ELSE IF limits \cap Outage # {}
  THEN Summary("unknown", "unavailable", limits, rules, evidence, "use_built_in_help",
               "provider_unavailable")
  ELSE Summary("unknown", "inconclusive", limits \cup more, rules, evidence, "review_input", key)

\* policy.result: fixed rules and known threats.
Rules(rules, given, evidence) ==
  LET match == Matched(evidence)
      limits == IF match /\ given = {} THEN {"INSUFFICIENT_EVIDENCE"} ELSE given
  IN IF match \/ Demands(rules)
     THEN Summary("high_risk", Extent(limits), limits, rules, evidence,
                  IF match THEN "avoid_link" ELSE "pause_and_verify",
                  IF match THEN "partial_known_threat" ELSE "high_risk_request")
     ELSE IF Pressure \in rules
     THEN Summary("suspicious", Extent(limits), limits, rules, evidence, "verify_independently",
                  "suspicious_request")
     ELSE IF rules = {Benign} /\ limits = {}
     THEN Summary("no_known_threat_detected", "complete", limits, rules, evidence,
                  "verify_independently", "no_supported_finding")
     ELSE Undecided(limits, {"INSUFFICIENT_EVIDENCE"}, rules, evidence, "inconclusive")

Independent(rules, evidence) == Demands(rules) \/ Pressure \in rules \/ Matched(evidence)

\* policy_v2.result: what remains of the model's finding beside the rest.
Trusted(status, rules, limits, evidence) ==
  IF /\ status \in {"warning", "no_warning"}
     /\ \/ limits \cap Untrusted # {}
        \/ "INSUFFICIENT_EVIDENCE" \in limits /\ ~Matched(evidence)
        \/ status = "warning" /\ Benign \in rules
  THEN "abstained" ELSE status

Missing(given, status) ==
  IF given = {} /\ status = "abstained" THEN {"INSUFFICIENT_EVIDENCE"}
  ELSE IF given = {} /\ status = "unavailable" THEN {"PROVIDER_UNAVAILABLE"} ELSE {}

WithModel(rules, given, evidence, said) ==
  LET status == Trusted(said, rules, given, evidence)
      limits == given \cup Missing(given, status)
      lim == IF limits = {} THEN {"INSUFFICIENT_EVIDENCE"} ELSE limits
      value ==
        IF Independent(rules, evidence) \/ (rules = {Benign} /\ limits = {} /\ status # "warning")
        THEN Rules(rules, limits, evidence)
        ELSE IF status = "warning"
        THEN Summary("suspicious", Extent(limits), limits, rules, evidence, "verify_independently",
                     "ai_warning")
        ELSE IF status = "no_warning" /\ limits = {}
        THEN Summary("no_known_threat_detected", "complete", limits, rules, evidence,
                     "verify_independently", "ai_no_warning")
        ELSE Undecided(lim, {}, rules, evidence, "ai_inconclusive")
  IN [s |-> value, ai |-> status]

-----------------------------------------------------------------------------
(* The contract: what a reader of a summary accepts. The consumer and the   *)
(* authority refuse anything else.                                          *)

Unknown(limits, key) ==
  IF "HOSTILE_INPUT_STOP" \in limits THEN <<"blocked", "hostile_stop", "review_input">>
  ELSE IF limits \cap Outage # {} THEN <<"unavailable", "provider_unavailable", "use_built_in_help">>
  ELSE <<"inconclusive", key, "review_input">>

ValidRules(v) ==
  LET match == Matched(v.evidence) IN
  /\ IF match \/ Demands(v.rules)
     THEN /\ v.verdict = "high_risk" /\ v.outcome \in {"complete", "partial"}
          /\ v.action = IF match THEN "avoid_link" ELSE "pause_and_verify"
          /\ v.key = IF match THEN "partial_known_threat" ELSE "high_risk_request"
          /\ match => v.outcome = "partial" /\ v.limits # {}
     ELSE IF Pressure \in v.rules
     THEN /\ v.verdict = "suspicious" /\ v.outcome \in {"complete", "partial"}
          /\ v.action = "verify_independently" /\ v.key = "suspicious_request"
     ELSE IF v.rules = {Benign} /\ v.limits = {}
     THEN /\ v.verdict = "no_known_threat_detected" /\ v.outcome = "complete"
          /\ v.action = "verify_independently" /\ v.key = "no_supported_finding"
     ELSE v.verdict = "unknown" /\ <<v.outcome, v.key, v.action>> = Unknown(v.limits, "inconclusive")
  /\ v.outcome = "complete" <=> v.limits = {}

ValidModel(m) ==
  LET v == m.s IN
  /\ v.limits = {} <=> v.outcome = "complete"
  /\ m.ai \in {"abstained", "unavailable"} => v.limits # {}
  /\ m.ai = "unavailable" => v.limits \cap Outage # {}
  /\ m.ai = "abstained" => v.limits \cap (Untrusted \cup {"INSUFFICIENT_EVIDENCE"}) # {}
  /\ m.ai \in {"warning", "no_warning"} =>
       /\ v.limits \cap Untrusted = {}
       /\ "INSUFFICIENT_EVIDENCE" \in v.limits => Matched(v.evidence)
       /\ ~(m.ai = "warning" /\ Benign \in v.rules)
  /\ IF Independent(v.rules, v.evidence) \/ (v.rules = {Benign} /\ v.limits = {} /\ m.ai # "warning")
     THEN ValidRules(v)
     ELSE IF m.ai = "warning"
     THEN /\ v.verdict = "suspicious" /\ v.key = "ai_warning" /\ v.outcome = Extent(v.limits)
          /\ v.action = "verify_independently"
     ELSE IF m.ai = "no_warning" /\ v.limits = {}
     THEN /\ v.verdict = "no_known_threat_detected" /\ v.key = "ai_no_warning"
          /\ v.outcome = "complete" /\ v.action = "verify_independently"
     ELSE v.verdict = "unknown" /\ <<v.outcome, v.key, v.action>> = Unknown(v.limits, "ai_inconclusive")

\* Mutant: a result is rebuilt from all evidence, the expired with it.
AllEvidence(evidence) == evidence

\* validation_v3.baseline: a threat that is no longer current does not count.
Fresh(evidence) == {e \in evidence : e.freshness # "expired"}

Baseline(m) == [m EXCEPT !.s.evidence = Fresh(m.s.evidence)]

Valid(m) ==
  CASE message.version = 1 -> ValidRules(m.s)
    [] message.version = 2 -> ValidModel(m)
    [] message.version = 3 ->
         /\ \A e \in m.s.evidence : (e.outcome = "match") <=> (e.freshness \in {"current", "expired"})
         /\ ValidModel(Baseline(m))

-----------------------------------------------------------------------------
(* Later answers *)

\* shared_lookup_freshness.current
Current(e) == e.at <= now /\ now < e.until

\* A stale link leaves limited coverage, never a clean result.
LimitsWithout(m) ==
  LET limits == m.s.limits \cup {"WITHHELD_LINKS"} IN
  IF m.ai \in {"warning", "no_warning"} THEN limits \ {"INSUFFICIENT_EVIDENCE"} ELSE limits

\* validation_v3.present.
Present(m) ==
  LET stale == {e \in m.s.evidence : e.freshness = "current" /\ ~Current(e)}
      evidence == (m.s.evidence \ stale) \cup {[e EXCEPT !.freshness = "expired"] : e \in stale}
      rebuilt == WithModel(m.s.rules, LimitsWithout(m), Fresh(evidence), m.ai)
  IN IF stale = {} THEN m ELSE [rebuilt EXCEPT !.s.evidence = evidence]

\* legacy_freshness.historical: matches stored without their validity are dropped.
Historical(m) ==
  LET evidence == {e \in m.s.evidence : e.outcome # "match"} IN
  IF evidence = m.s.evidence THEN m
  ELSE IF message.version = 2 THEN WithModel(m.s.rules, LimitsWithout(m), evidence, m.ai)
  ELSE [s |-> Rules(m.s.rules, m.s.limits \cup {"WITHHELD_LINKS"}, evidence), ai |-> m.ai]

Projected(m) == IF message.version = 3 THEN Present(m) ELSE Historical(m)

-----------------------------------------------------------------------------
(* The evaluation: policy.evaluate, policy_v2.evaluate, policy_v3.evaluate *)

Fixed ==
  LET blocked == (IF message.hostile THEN {"HOSTILE_INPUT_STOP"} ELSE {})
                 \cup (IF message.speaker = "unknown" THEN {"UNKNOWN_SPEAKER"} ELSE {})
      found == blocked = {} /\ message.coverage # {}
               /\ (message.coverage = {Benign} \/ message.speaker = "other")
  IN [rules |-> IF found THEN message.coverage ELSE {},
      limits |-> blocked \cup (IF found THEN {} ELSE {"INSUFFICIENT_EVIDENCE"})
                 \cup (IF message.withheld THEN {"WITHHELD_LINKS"} ELSE {})]

\* The consumer settles without an evaluation when the provider budget or the time
\* are used up.
Limited(limits) ==
  IF message.version = 1 THEN [s |-> Rules({}, limits, {}), ai |-> "not_assessed"]
                         ELSE WithModel({}, limits, {}, "not_assessed")

Begin ==
  /\ job = Idle /\ row = None
  /\ \/ job' = [phase |-> "link", rules |-> Fixed.rules, limits |-> Fixed.limits, evidence |-> {}]
     \/ ~message.rulesOnly /\ job' = [phase |-> "settle", sum |-> Limited({"BUDGET_LIMIT"})]
  /\ UNCHANGED <<now, message, row, shown>>

\* The assessment of the reviewed link; rules alone look nothing up. Candidates 1 and
\* 2 accept an assessment without validity, candidate 3 one with it.
Looked(limits, evidence) ==
  job' = [job EXCEPT !.phase = "model", !.limits = job.limits \cup limits, !.evidence = evidence]
Match(until) ==
  [outcome |-> "match", at |-> now, until |-> until, freshness |-> "current"]
Clean == [outcome |-> "no_match", at |-> now, until |-> None, freshness |-> "observation_only"]

Lookup ==
  /\ job.phase = "link"
  /\ IF message.link = "none" \/ message.rulesOnly THEN Looked({}, {})
     ELSE \/ \E until \in (now + 1)..(now + 2) : Looked({"WITHHELD_LINKS"}, {Match(until)})
          \/ message.link = "full_url" /\ Looked({}, {Clean})
          \/ Looked({"PROVIDER_UNAVAILABLE", "WITHHELD_LINKS"}, {})  \* not assessed to its end
          \/ \E limit \in {"PROVIDER_UNAVAILABLE", "BUDGET_LIMIT"} : Looked({limit}, {})
  /\ UNCHANGED <<now, message, row, shown>>

Decide(sum) ==
  /\ job' = [phase |-> "evaluated", sum |-> sum]
  /\ UNCHANGED <<now, message, row, shown>>

\* Candidate 1: a model proposes, its proposal decides nothing.
DecideByRules ==
  /\ job.phase = "model" /\ message.version = 1
  /\ \E limit \in {{}} \cup {{x} : x \in Outage} :
       /\ limit # {} => job.rules = {} /\ message.speaker = "other" /\ ~message.hostile
       /\ Decide([s |-> Rules(job.rules, job.limits \cup limit, job.evidence), ai |-> "not_assessed"])

DecideRulesOnly ==
  /\ job.phase = "model" /\ message.rulesOnly
  /\ Decide(WithModel(job.rules,
       job.limits \cup (IF message.link # "none" THEN {"INSUFFICIENT_EVIDENCE"} ELSE {}), {},
       "not_assessed"))

Asks == message.version > 1 /\ ~message.rulesOnly
Base == Rules(job.rules, job.limits, job.evidence).limits
DecideWithoutModel ==
  /\ job.phase = "model" /\ Asks
  /\ \/ job.rules # {} /\ Decide(WithModel(job.rules, Base, job.evidence, "not_assessed"))
     \/ /\ job.rules = {} /\ (message.hostile \/ message.speaker # "other")
        /\ Decide(WithModel({}, Base, job.evidence, "abstained"))
     \/ /\ job.rules = {} /\ ~message.hostile /\ message.speaker = "other" /\ message.quoted
        /\ Decide(WithModel({}, Base \cup {"UNSUPPORTED_CONTENT"}, job.evidence, "abstained"))

\* The model answers with a finding, abstains, answers wrongly, late or not at all.
AskModel ==
  /\ job.phase = "model" /\ Asks
  /\ job.rules = {} /\ ~message.hostile /\ message.speaker = "other" /\ ~message.quoted
  /\ \/ \E said \in {"warning", "no_warning"} :
          Decide(WithModel({}, Base \ {"INSUFFICIENT_EVIDENCE"}, job.evidence, said))
     \/ \E limit \in {"UNSUPPORTED_CONTENT", "INSUFFICIENT_EVIDENCE"} :
          Decide(WithModel({}, Base \cup {limit}, job.evidence, "abstained"))
     \/ \E limit \in Outage : Decide(WithModel({}, Base \cup {limit}, job.evidence, "unavailable"))

-----------------------------------------------------------------------------
(* The consumer: message_consumer.handle *)

\* An evaluation that is lost, or that the contract refuses, is none.
Receive ==
  /\ job.phase = "evaluated"
  /\ \E lost \in BOOLEAN :
       job' = [phase |-> "settle",
               sum |-> LET sum == IF lost \/ ~Valid(job.sum) THEN Limited({"PROVIDER_UNAVAILABLE"})
                                  ELSE job.sum
                       IN IF message.version = 3 THEN Present(sum) ELSE sum]
  /\ UNCHANGED <<now, message, row, shown>>

\* Authority.settle refuses a threat that is no longer current: it is presented again.
Expired(m) == message.version = 3 /\ \E e \in m.s.evidence : e.freshness = "current" /\ ~Current(e)

PresentAgain ==
  /\ job.phase = "settle" /\ Expired(job.sum)
  /\ job' = [job EXCEPT !.sum = Present(job.sum)]
  /\ UNCHANGED <<now, message, row, shown>>

Settle ==
  /\ job.phase = "settle" /\ ~Expired(job.sum)
  /\ row' = job.sum
  /\ shown' = [at |-> now, sum |-> Projected(row')]
  /\ job' = [phase |-> "done"]
  /\ UNCHANGED <<now, message>>

\* A repeated request or a reconciliation.
Replay ==
  /\ row # None
  /\ shown' = [at |-> now, sum |-> Projected(row)]
  /\ UNCHANGED <<now, message, job, row>>

Tick ==
  /\ now < MaxTime
  /\ now' = now + 1
  /\ UNCHANGED <<message, job, row, shown>>

Next ==
  \/ Begin \/ Lookup \/ DecideByRules \/ DecideRulesOnly \/ DecideWithoutModel \/ AskModel
  \/ Receive \/ PresentAgain \/ Settle \/ Replay \/ Tick

Spec == Init /\ [][Next]_vars

-----------------------------------------------------------------------------
(* Properties *)

TypeOK ==
  /\ now \in Times /\ message \in Messages
  /\ job.phase \in {"idle", "link", "model", "evaluated", "settle", "done"}

\* Two independent descriptions agree: the contract accepts every summary the policies
\* produce, before it is settled, as it is stored and in every projection of a later
\* day. (A refused one would be an outage of the evaluator, or a receipt nobody can read.)
AlwaysReadable ==
  /\ job.phase \in {"evaluated", "settle"} => Valid(job.sum)
  /\ row # None => Valid(row) /\ Valid(Projected(row))

\* Nobody is told that no threat is known unless the text was assessed, its speaker
\* known, nothing withheld and a link with it looked up to its end.
CleanOnlyIfAllKnown ==
  shown # None /\ (shown # None => shown.sum.s.verdict = "no_known_threat_detected") =>
    /\ ~message.hostile /\ message.speaker # "unknown" /\ ~message.withheld
    /\ message.link # "none" => \E e \in row.s.evidence : e.outcome = "no_match"
    /\ message.coverage = {Benign} \/ row.ai = "no_warning"

\* A known threat is told exactly while it is current; what the text said on its own
\* account stays said.
ThreatWhileCurrent ==
  shown # None =>
    LET sum == shown.sum
        found == \E e \in row.s.evidence : e.outcome = "match" /\ shown.at < e.until
    IN message.version = 3 =>
         /\ sum.s.action = "avoid_link" <=> found
         /\ Demands(row.s.rules) => sum.s.verdict = "high_risk"
         /\ Pressure \in row.s.rules \/ row.ai = "warning" => sum.s.verdict \in {"high_risk", "suspicious"}

\* A charged check was complete and reads as complete on every later day.
ChargedStaysComplete ==
  row # None /\ (row # None => row.s.outcome = "complete") => Projected(row).s.outcome = "complete"

\* A later answer is never more reassuring than an earlier one.
NeverReassuredLater ==
  shown # None /\ (shown # None => shown.sum.s.verdict # "no_known_threat_detected")
    => shown'.sum.s.verdict # "no_known_threat_detected"

-----------------------------------------------------------------------------
(* The invariant the properties are proved from (ServicesProofs)            *)

Limits == Outage \cup Untrusted \cup {"INSUFFICIENT_EVIDENCE", "WITHHELD_LINKS"}
Says == {"warning", "no_warning", "abstained", "unavailable", "not_assessed"}
Seen ==
  [outcome : {"match"}, at : Nat, until : Nat, freshness : {"current", "expired"}]
    \cup [outcome : {"no_match"}, at : Nat, until : {None}, freshness : {"observation_only"}]
Summaries ==
  [verdict : {"high_risk", "suspicious", "no_known_threat_detected", "unknown"},
   outcome : {"complete", "partial", "blocked", "unavailable", "inconclusive"},
   limits : SUBSET Limits, rules : RuleSets, evidence : SUBSET Seen,
   action : {"avoid_link", "pause_and_verify", "verify_independently", "review_input",
             "use_built_in_help"},
   key : {"partial_known_threat", "high_risk_request", "suspicious_request",
          "no_supported_finding", "ai_warning", "ai_no_warning", "ai_inconclusive",
          "hostile_stop", "provider_unavailable", "inconclusive"}]
Sums == [s : Summaries, ai : Says]

\* A match is marked expired only when it is, and only by the third contract.
Dated(evidence) ==
  \A e \in evidence : /\ e.at <= now
                      /\ e.freshness = "expired" => message.version = 3 /\ e.until <= now

\* What a summary is wherever it is kept.
Good(m) ==
  /\ m \in Sums /\ Valid(m) /\ Dated(m.s.evidence)
  /\ Matched(m.s.evidence) => m.s.limits # {}
  /\ m.s.action = "avoid_link" <=> Matched(Fresh(m.s.evidence))

Known(evidence) ==
  /\ ~message.hostile /\ message.speaker # "unknown" /\ ~message.withheld
  /\ message.link # "none" => \E e \in evidence : e.outcome = "no_match"
Cleared(m) ==
  m.s.verdict = "no_known_threat_detected" =>
    Known(m.s.evidence) /\ (message.coverage = {Benign} \/ m.ai = "no_warning")

\* What is not known of the message is among the limits of the evaluation.
Found ==
  /\ job.rules = {} => "INSUFFICIENT_EVIDENCE" \in job.limits
  /\ job.rules # {} => job.rules = message.coverage
  /\ message.hostile => "HOSTILE_INPUT_STOP" \in job.limits
  /\ message.speaker = "unknown" => "UNKNOWN_SPEAKER" \in job.limits
  /\ message.withheld => "WITHHELD_LINKS" \in job.limits
  /\ Matched(job.evidence) => "WITHHELD_LINKS" \in job.limits
  /\ Dated(job.evidence) /\ Fresh(job.evidence) = job.evidence
  /\ job.phase = "model" /\ message.link # "none" /\ ~message.rulesOnly =>
       \/ \E e \in job.evidence : e.outcome = "no_match"
       \/ job.limits \cap {"WITHHELD_LINKS", "PROVIDER_UNAVAILABLE", "BUDGET_LIMIT"} # {}

JobInv ==
  \/ job = Idle
  \/ /\ job \in [phase : {"link", "model"}, rules : RuleSets, limits : SUBSET Limits,
                 evidence : SUBSET Seen]
     /\ Found
  \/ /\ job \in [phase : {"evaluated", "settle"}, sum : Sums]
     /\ Good(job.sum) /\ Cleared(job.sum)
  \/ job = [phase |-> "done"] /\ Good(row) /\ Cleared(row)

Reassures(m) == m.s.verdict = "no_known_threat_detected"

IInv ==
  /\ now \in Times /\ message \in Messages /\ JobInv
  /\ job.phase # "done" => row = None /\ shown = None
  /\ shown # None => ThreatWhileCurrent /\ (Reassures(shown.sum) <=> Reassures(row))
=============================================================================
