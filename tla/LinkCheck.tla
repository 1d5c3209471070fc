------------------------------ MODULE LinkCheck ------------------------------
(***************************************************************************)
(* One link check: the consumer admits it once (url_consumer), the assessment *)
(* follows the link's redirects (url_redirect_resolver) and asks the provider *)
(* about every observed hop (url_assessment), the authority keeps the result *)
(* and every later answer is mapped from it for the day it is given on     *)
(* (reference_mapping). A known threat is valid until an instant named by  *)
(* the provider, which may pass at any point of this.                      *)
(***************************************************************************)
EXTENDS Naturals, Sequences, FiniteSets, SequencesExt

CONSTANTS
  Urls,          \* eligible destinations
  MaxRedirects,
  Workers,       \* consumer invocations under way at once
  Lease,         \* how long an admitted check waits for its settlement
  MaxTime,       \* bound of the clock
  None

LinkAssumption ==
  /\ MaxRedirects \in Nat /\ Lease \in Nat /\ MaxTime \in Nat
  /\ None \notin Nat /\ None # "complete"

VARIABLES
  now,
  scope,    \* what the account reviewed: the full link or its origin
  row,      \* the check's row in the authority
  job,      \* consumer invocations
  shown     \* the last answer a client was given, and when

vars == <<now, scope, row, job, shown>>

Times == 0..MaxTime
Idle == [phase |-> "idle"]
NotStarted == [state |-> "NOT_STARTED", lease |-> 0, outcome |-> None, summary |-> None]

Init ==
  /\ now = 0
  /\ scope \in {"full_url", "origin_only"}
  /\ row = NotStarted
  /\ job = [w \in Workers |-> Idle]
  /\ shown = None

-----------------------------------------------------------------------------
(* The assessment. Its result, without the fields that identify the check: *)

\* base_result; `at` and `until` are lookupObservedAt and lookupValidUntil.
BaseResult ==
  [verdict |-> "unknown", outcome |-> "invalid_input", coverage |-> "not_assessed",
   reasons |-> {"INVALID_REQUEST"}, threat |-> FALSE,
   looked |-> 0, called |-> 0, observed |-> 0, at |-> None, until |-> None]

\* shared_lookup_freshness.current.
Current(at, until, t) == at <= t /\ t < until

\* resolve: one more request along the redirects. `chain` holds the hops observed.
Resolving(w) == job[w].phase = "resolve"
Resolved(w, complete, status) ==
  job' = [job EXCEPT ![w] =
    IF job[w].chain = << >>
    THEN [phase |-> "done", result |-> [BaseResult EXCEPT
            !.outcome = IF status \in {"blocked", "invalid_input"} THEN status ELSE "unavailable",
            !.reasons = {"NO_ELIGIBLE_OBSERVATION"}]]
    ELSE [phase |-> "lookup", chain |-> job[w].chain, complete |-> complete, threats |-> {},
          result |-> [BaseResult EXCEPT !.observed = Len(job[w].chain), !.outcome = "partial",
                        !.coverage = "limited", !.reasons = {"HTTP_CHAIN_INCOMPLETE"}]]]

\* A destination is refused, its addresses are not public, the request fails, the
\* answer is neither a redirect nor a page, or the time is up.
Stop(w) ==
  /\ Resolving(w)
  /\ \E status \in {"partial", "blocked", "invalid_input"} : Resolved(w, FALSE, status)
  /\ UNCHANGED <<now, scope, row, shown>>

Loops(w) == Contains(job[w].chain, job[w].next)
Loop(w) ==
  /\ Resolving(w) /\ Loops(w)
  /\ Resolved(w, FALSE, "partial")
  /\ UNCHANGED <<now, scope, row, shown>>

Redirect(w) ==
  /\ Resolving(w) /\ ~Loops(w) /\ Len(job[w].chain) < MaxRedirects
  /\ \E u \in Urls :
       job' = [job EXCEPT ![w].chain = Append(@, job[w].next), ![w].next = u]
  /\ UNCHANGED <<now, scope, row, shown>>

\* The answer that ends the chain: a page, or one that cannot be followed further.
Terminal(w) ==
  LET hops == Append(job[w].chain, job[w].next) IN
  /\ Resolving(w) /\ ~Loops(w)
  /\ \E complete \in BOOLEAN :
       job' = [job EXCEPT ![w] =
         [phase |-> "lookup", chain |-> hops, complete |-> complete, threats |-> {},
          result |-> [BaseResult EXCEPT !.observed = Len(hops), !.outcome = "partial",
                        !.coverage = "limited", !.reasons = {"HTTP_CHAIN_INCOMPLETE"}]]]
  /\ UNCHANGED <<now, scope, row, shown>>

\* The resolver is not reached, or answers something else.
ResolverLost(w) ==
  /\ Resolving(w)
  /\ job' = [job EXCEPT ![w] = [phase |-> "done",
       result |-> [BaseResult EXCEPT !.outcome = "unavailable", !.reasons = {"RESOLVER_UNAVAILABLE"}]]]
  /\ UNCHANGED <<now, scope, row, shown>>

Pending(w) == job[w].phase = "lookup" /\ job[w].result.looked < Len(job[w].chain)

Earlier(at, t) == IF at = None THEN t ELSE IF at < t THEN at ELSE t

LookupClean(w) ==
  /\ Pending(w)
  /\ job' = [job EXCEPT ![w].result.looked = @ + 1, ![w].result.called = @ + 1,
                        ![w].result.at = Earlier(@, now)]
  /\ UNCHANGED <<now, scope, row, shown>>

\* A match ends the lookups. `at` is the second it was asked for in, `until` the
\* instant the provider names; it is checked again when the answer is in.
LookupMatch(w) ==
  /\ Pending(w)
  /\ \E at \in {now, now - 1} \cap Times, until \in now..(now + 2) :
       /\ Current(at, until, at)
       /\ job' = [job EXCEPT ![w] = [phase |-> "done", result |->
            IF Current(at, until, now)
            THEN [job[w].result EXCEPT !.looked = @ + 1, !.called = @ + 1, !.at = at, !.until = until,
                    !.verdict = "high_risk", !.threat = TRUE, !.reasons = {"KNOWN_THREAT_MATCH"}]
            ELSE [job[w].result EXCEPT !.looked = @ + 1, !.called = @ + 1, !.at = Earlier(@, at),
                    !.reasons = {"PROVIDER_RESPONSE_INVALID"}]]]
  /\ UNCHANGED <<now, scope, row, shown>>

\* The provider is not asked (no key) or does not answer; a time budget used up
\* before the lookup does not count it.
LookupFails(w) ==
  /\ Pending(w)
  /\ \E looked \in {0, 1}, called \in {0, 1} :
       /\ called <= looked
       /\ job' = [job EXCEPT ![w] = [phase |-> "done", result |->
            [job[w].result EXCEPT !.looked = @ + looked, !.called = @ + called,
               !.reasons = IF looked = 0 THEN {"TIME_BUDGET_EXCEEDED"} ELSE {"PROVIDER_UNAVAILABLE"}]]]
  /\ UNCHANGED <<now, scope, row, shown>>

\* No hop is listed.
Unlisted(w) ==
  LET r == job[w].result IN
  IF job[w].complete /\ scope = "full_url"
  THEN [r EXCEPT !.verdict = "no_known_threat_detected", !.outcome = "complete",
                 !.coverage = "supported_checks_complete",
                 !.reasons = {"NO_LIST_MATCH", "BROWSER_NAVIGATION_NOT_EVALUATED"}]
  ELSE IF scope = "origin_only" THEN [r EXCEPT !.reasons = {"ORIGIN_ONLY_NOT_FULL_LINK"}]
  ELSE r

Assessed(w) ==
  /\ job[w].phase = "lookup" /\ ~Pending(w)
  /\ job' = [job EXCEPT ![w] = [phase |-> "done", result |-> Unlisted(w)]]
  /\ UNCHANGED <<now, scope, row, shown>>

-----------------------------------------------------------------------------
(* The contract both sides validate, and what a client is shown *)

\* supported_private, with _legacy_supported.
Supported(r) ==
  /\ r.called <= r.looked /\ r.looked <= r.observed
  /\ r.verdict = "high_risk" =>
       r.threat /\ r.called > 0 /\ r.outcome \in {"complete", "partial"} /\ r.reasons = {"KNOWN_THREAT_MATCH"}
  /\ r.verdict # "high_risk" => ~r.threat /\ "KNOWN_THREAT_MATCH" \notin r.reasons
  /\ r.verdict = "no_known_threat_detected" =>
       /\ scope = "full_url" /\ r.outcome = "complete" /\ r.coverage = "supported_checks_complete"
       /\ r.reasons = {"NO_LIST_MATCH", "BROWSER_NAVIGATION_NOT_EVALUATED"}
       /\ 0 < r.called /\ r.called = r.looked /\ r.looked = r.observed
  /\ IF r.at = None THEN r.until = None /\ r.verdict = "unknown"
     ELSE IF r.verdict = "high_risk" THEN r.until # None /\ (r.until # None => r.at < r.until)
     ELSE r.until = None

\* map_private at time t: the verdict, how complete, and how fresh the evidence is.
Public(r, t) ==
  LET stale == r.verdict = "high_risk" /\ ~Current(r.at, r.until, t)
      observed == r.verdict = "no_known_threat_detected" \/ "ORIGIN_ONLY_NOT_FULL_LINK" \in r.reasons IN
  IF stale THEN [verdict |-> "unknown", outcome |-> "partial", action |-> "use_built_in_help",
                 freshness |-> "expired"]
  ELSE [verdict |-> r.verdict, outcome |-> r.outcome,
        action |-> IF r.verdict = "high_risk" THEN "avoid_link"
                   ELSE IF observed THEN "verify_independently"
                   ELSE IF r.outcome \in {"invalid_input", "blocked"} THEN "review_input" ELSE "use_built_in_help",
        freshness |-> IF r.verdict = "high_risk" THEN "current" ELSE IF observed THEN "observation_only" ELSE "none"]

-----------------------------------------------------------------------------
(* The consumer: url_consumer.handle *)

\* envelope: what is stored, mapped for now.
Envelope(rw) ==
  [at |-> now, state |-> rw.state,
   result |-> IF rw.summary = None THEN None ELSE Public(rw.summary, now)]

\* The authority admits the check and hands out one execution; the consumer has
\* to have the time for an assessment, else it settles without one.
Admit(w) ==
  /\ job[w] = Idle /\ row.state = "NOT_STARTED"
  /\ row' = [row EXCEPT !.state = "ADMITTED", !.lease = now + Lease]
  /\ \E u \in Urls, entered \in BOOLEAN :
       job' = [job EXCEPT ![w] = IF entered THEN [phase |-> "resolve", chain |-> << >>, next |-> u]
                                            ELSE [phase |-> "done", result |-> None]]
  /\ UNCHANGED <<now, scope, shown>>

\* The answer of the assessment is lost.
Unanswered(w) ==
  /\ job[w].phase \in {"resolve", "lookup"}
  /\ job' = [job EXCEPT ![w] = [phase |-> "done", result |-> None]]
  /\ UNCHANGED <<now, scope, row, shown>>

\* What is handed to the authority: a supported result whose match is still valid.
Usable(r) ==
  /\ r # None
  /\ r # None => Supported(r) /\ (r.verdict = "high_risk" => Current(r.at, r.until, now))

Judge(w) ==
  /\ job[w].phase = "done"
  /\ job' = [job EXCEPT ![w] = [phase |-> "settle",
       result |-> IF Usable(job[w].result) THEN job[w].result ELSE None]]
  /\ UNCHANGED <<now, scope, row, shown>>

\* Authority.settle: a match that is no longer valid is not kept.
Expired(r) == r # None /\ (r # None => r.verdict = "high_risk" /\ ~Current(r.at, r.until, now))

SettleExpired(w) ==
  /\ job[w].phase = "settle" /\ row.state = "ADMITTED" /\ Expired(job[w].result)
  /\ job' = [job EXCEPT ![w] = [phase |-> "settle", result |-> None]]
  /\ UNCHANGED <<now, scope, row, shown>>

Settle(w) ==
  LET r == job[w].result IN
  /\ job[w].phase = "settle" /\ row.state = "ADMITTED" /\ now < row.lease /\ ~Expired(r)
  /\ row' = [row EXCEPT !.state = "SETTLED", !.summary = r,
                        !.outcome = IF r = None THEN "failed" ELSE r.outcome]
  /\ job' = [job EXCEPT ![w] = [phase |-> "answer"]]
  /\ UNCHANGED <<now, scope, shown>>

\* A receipt that is settled already is answered; one whose lease has passed is left
\* to recover_expired, and the client told that nothing is known.
SettleRefused(w) ==
  /\ job[w].phase = "settle"
  /\ row.state = "SETTLED" \/ (row.lease <= now /\ ~Expired(job[w].result))
  /\ job' = [job EXCEPT ![w] = IF row.state = "SETTLED" THEN [phase |-> "answer"] ELSE Idle]
  /\ UNCHANGED <<now, scope, row, shown>>

\* The answer to the request that settled, to a repeated one, or to a reconciliation.
Answer(w) ==
  /\ job[w].phase \in {"idle", "answer"}
  /\ row.state # "NOT_STARTED"
  /\ shown' = Envelope(row)
  /\ job' = [job EXCEPT ![w] = Idle]
  /\ UNCHANGED <<now, scope, row>>

\* reconcile of a check whose lease has passed: recover_expired.
Reconcile(w) ==
  /\ job[w] = Idle /\ row.state = "ADMITTED" /\ row.lease <= now
  /\ row' = [row EXCEPT !.state = "SETTLED", !.outcome = "failed"]
  /\ shown' = Envelope(row')
  /\ UNCHANGED <<now, scope, job>>

Crash(w) ==
  /\ job[w] # Idle
  /\ job' = [job EXCEPT ![w] = Idle]
  /\ UNCHANGED <<now, scope, row, shown>>

Tick ==
  /\ now < MaxTime
  /\ now' = now + 1
  /\ UNCHANGED <<scope, row, job, shown>>

Next ==
  \/ \E w \in Workers :
       \/ Admit(w) \/ Stop(w) \/ Loop(w) \/ Redirect(w) \/ Terminal(w) \/ ResolverLost(w)
       \/ LookupClean(w) \/ LookupMatch(w) \/ LookupFails(w) \/ Assessed(w)
       \/ Unanswered(w) \/ Judge(w) \/ SettleExpired(w) \/ Settle(w)
       \/ SettleRefused(w) \/ Answer(w) \/ Reconcile(w) \/ Crash(w)
  \/ Tick

Spec == Init /\ [][Next]_vars

-----------------------------------------------------------------------------
(* Properties *)

TypeOK ==
  /\ now \in Times
  /\ row.state \in {"NOT_STARTED", "ADMITTED", "SETTLED"}
  /\ \A w \in Workers : job[w].phase \in {"idle", "resolve", "lookup", "done", "settle", "answer"}

\* Every result the assessment can give is one the consumer accepts: none is thrown
\* away after the provider was asked.
EveryResultSupported ==
  \A w \in Workers : job[w].phase = "done" =>
    job[w].result = None \/ Supported(job[w].result)

\* A check runs at most one assessment, also when it is submitted again while one is
\* under way or after a crash: lookups are never repeated.
OneAssessment ==
  Cardinality({w \in Workers : job[w].phase \in {"resolve", "lookup", "done", "settle"}}) <= 1

\* A client is told of a known threat only while the provider vouches for it, and of
\* none only if every hop of the whole link was asked about.
ToldWhatIsKnown ==
  shown # None /\ (shown # None => shown.result # None) =>
    LET p == shown.result
        r == row.summary
    IN /\ p.verdict = "high_risk" => r.at <= shown.at /\ shown.at < r.until
       /\ p.verdict = "no_known_threat_detected" =>
            r.called = r.observed /\ r.observed > 0 /\ ~r.threat /\ scope = "full_url"
       /\ r.threat => p.verdict \in {"high_risk", "unknown"}
       /\ row.outcome = "complete" => p.outcome = "complete"

\* The redirects followed do not pass their limit or visit a destination twice.
NoDetour ==
  \A w \in Workers :
    job[w].phase \in {"resolve", "lookup"} =>
      /\ Len(job[w].chain) <= MaxRedirects + 1
      /\ Cardinality(ToSet(job[w].chain)) = Len(job[w].chain)

\* What was settled stays settled, with the result it was settled with.
SettledOnce == row.state = "SETTLED" => row' = row

-----------------------------------------------------------------------------
(* The invariant the properties are proved from (ServicesProofs) *)

Verdicts == {"unknown", "high_risk", "no_known_threat_detected"}
Reasons ==
  {"INVALID_REQUEST", "NO_ELIGIBLE_OBSERVATION", "HTTP_CHAIN_INCOMPLETE", "RESOLVER_UNAVAILABLE",
   "KNOWN_THREAT_MATCH", "PROVIDER_RESPONSE_INVALID", "TIME_BUDGET_EXCEEDED",
   "PROVIDER_UNAVAILABLE", "NO_LIST_MATCH", "BROWSER_NAVIGATION_NOT_EVALUATED",
   "ORIGIN_ONLY_NOT_FULL_LINK"}
Outcomes == {"partial", "complete", "blocked", "invalid_input", "unavailable"}
Results ==
  [verdict : Verdicts, outcome : Outcomes,
   coverage : {"not_assessed", "limited", "supported_checks_complete"}, reasons : SUBSET Reasons,
   threat : BOOLEAN, looked : Nat, called : Nat, observed : Nat,
   at : Times \cup {None}, until : Nat \cup {None}]

\* The hops of a chain are distinct.
Chain(c, n) == c \in Seq(Urls) /\ Len(c) <= n /\ Cardinality(ToSet(c)) = Len(c)

\* What may be kept: the contract holds of it, and a match is never all that was asked.
Keepable(r) == r \in Results /\ Supported(r) /\ (r.verdict = "high_risk" => r.outcome = "partial")

\* Before its last lookup a result says that nothing is known yet.
Looking(r, chain) ==
  /\ r \in Results
  /\ r.verdict = "unknown" /\ r.outcome = "partial" /\ r.coverage = "limited" /\ ~r.threat
  /\ r.reasons = {"HTTP_CHAIN_INCOMPLETE"} /\ r.until = None
  /\ r.observed = Len(chain) /\ r.called = r.looked /\ r.looked <= r.observed
  /\ r.looked > 0 => r.at # None

Assessing == {"resolve", "lookup", "done", "settle"}

JobInv(w) ==
  LET j == job[w] IN
  \/ j = Idle
  \/ j.phase = "resolve" /\ Chain(j.chain, MaxRedirects) /\ j.next \in Urls
  \/ /\ j.phase = "lookup" /\ Chain(j.chain, MaxRedirects + 1) /\ j.chain # << >>
     /\ Looking(j.result, j.chain) /\ j.complete \in BOOLEAN
  \/ j.phase \in {"done", "settle"} /\ (j.result = None \/ Keepable(j.result))
  \/ j.phase = "answer" /\ row.state = "SETTLED"

RowInv ==
  /\ row \in [state : {"NOT_STARTED", "ADMITTED", "SETTLED"}, lease : Nat,
              outcome : Outcomes \cup {"failed", None}, summary : Results \cup {None}]
  /\ row.state # "SETTLED" => row.summary = None
  /\ row.summary # None => Keepable(row.summary) /\ row.outcome = row.summary.outcome
  /\ row.outcome = "complete" => row.summary # None

\* Whatever was shown is the row's result on its day, and that of a settled row.
ShownInv ==
  \/ shown = None \/ shown.result = None
  \/ row.summary # None /\ shown.at \in Times /\ shown.result = Public(row.summary, shown.at)

IInv ==
  /\ now \in Times /\ scope \in {"full_url", "origin_only"}
  /\ RowInv /\ ShownInv /\ DOMAIN job = Workers
  /\ \A w \in Workers : JobInv(w)
  /\ \A w \in Workers : row.state = "NOT_STARTED" => job[w] = Idle
  /\ \A v, w \in Workers : job[v].phase \in Assessing /\ job[w].phase \in Assessing => v = w
=============================================================================
