---------------------------- MODULE AccessSources ----------------------------
(***************************************************************************)
(* The ACCESS row of one account and who writes it: an explicit trial, a   *)
(* verified purchase, an operator's complimentary grant, and the refresh   *)
(* that a snapshot begins with (shared_check_authority/entitlements.py,    *)
(* v1_entitlements).  Every writer reads the row, computes it anew with    *)
(* its own source replaced and the first source in force as the basis, and *)
(* commits on the revision it read.  Rows are kept under a pseudonym of    *)
(* the account that depends on the active key; the inventory of issued     *)
(* keys is conditioned by every transaction.                               *)
(*                                                                         *)
(* An operation id that has its receipt already commits nothing: as its    *)
(* transaction moved the revision, the repetition could not have either.   *)
(***************************************************************************)
EXTENDS Integers, FiniteSets

CONSTANTS
  Workers,      \* invocations of any writer
  TrialLength,  \* TRIAL_SECONDS
  MaxKeys,      \* bound: issued keys
  MaxRevision,  \* bound: writes of an ACCESS row
  MaxVersion,   \* bound: device bindings
  MaxTime,      \* bound: the clock stops here
  None

VARIABLES
  now,        \* epoch seconds
  active,     \* the account is, and is not fenced by its deletion
  keys,       \* issued keys are 1 .. keys, and the last is the active one
  device,     \* stateVersion of the binding that requests come from
  access,     \* ACCESS row under each key, or None
  trial,      \* activation instant of the TRIAL_HISTORY row under each key, or None
  job,        \* local state of each invocation
  activated,  \* history: instants a trial was activated at
  whole       \* history: whether each snapshot told was the case at one instant

vars == <<now, active, keys, device, access, trial, job, activated, whole>>

-----------------------------------------------------------------------------
(* Rows *)

Keys == 1 .. MaxKeys
Bases == {"complimentary", "paid", "trial"}
Source(on, from, until) == [on |-> on, from |-> from, until |-> until]
NoSources == [b \in Bases |-> None]
Sources(row) == IF row = None THEN NoSources ELSE row.sources
Revision(row) == IF row = None THEN 0 ELSE row.revision

Lasts(source, t) == source.until # None => t < source.until
InForce(source, t) == source # None /\ source.on /\ source.from <= t /\ Lasts(source, t)

Basis(sources, t) ==
  IF InForce(sources["complimentary"], t) THEN "complimentary"
  ELSE IF InForce(sources["paid"], t) THEN "paid"
  ELSE IF InForce(sources["trial"], t) THEN "trial" ELSE None

Effective(old, sources, t) ==
  [revision |-> Revision(old) + 1, sources |-> sources, basis |-> Basis(sources, t)]

\* The window an ACTIVE row carries is its source's.
Granted(row, t) == row # None /\ row.basis # None /\ InForce(row.sources[row.basis], t)

\* _validate_sources: what _read accepts.
Readable(row) ==
  \A b \in Bases : LET s == row.sources[b] IN s # None =>
    IF s.until = None THEN b = "complimentary"
    ELSE /\ s.from < s.until \/ (b = "paid" /\ ~s.on /\ s.from = s.until)
         /\ b = "trial" => s.until = s.from + TrialLength

\* trial_history: one activation under all keys, which a trial source repeats.
Activations == {trial[k] : k \in 1 .. keys} \ {None}
Consistent(row, seen) ==
  LET s == Sources(row)["trial"] IN
  /\ Cardinality(seen) <= 1 /\ \A t \in seen : t <= now
  /\ s # None => seen = {s.from}

Requests == {"trial", "grant", "revoke", "paid", "snapshot"}

Idle == [kind |-> None, phase |-> "idle", keys |-> 0, device |-> None, at |-> 0, end |-> None,
         row |-> None, past |-> {}, grant |-> None, stood |-> FALSE]

SourceRows == [on : BOOLEAN, from : Int, until : Int \cup {None}]
AccessRows == [revision : Nat, sources : [Bases -> SourceRows \cup {None}], basis : Bases \cup {None}]

\* A trial lasts, the bounds are of use, and None is nothing that is written.
AccessAssumption ==
  /\ {TrialLength, MaxKeys, MaxVersion} \subseteq Nat \ {0} /\ {MaxRevision, MaxTime} \subseteq Nat
  /\ None \notin Int /\ None \notin Bases /\ None \notin SourceRows /\ None \notin AccessRows

Init ==
  /\ now = 0 /\ active = TRUE /\ keys = 1 /\ device = 1
  /\ access = [k \in Keys |-> None]
  /\ trial = [k \in Keys |-> None]
  /\ job = [w \in Workers |-> Idle]
  /\ activated = {} /\ whole = TRUE

-----------------------------------------------------------------------------
(* Reading and committing *)

rows == <<active, keys, device, access, trial>>
Move(w, j) == job' = [job EXCEPT ![w] = j] /\ UNCHANGED <<now, rows, activated, whole>>

\* The caller and its request are checked; the keyring must be the inventory's. An
\* operator's grant may end at any instant ahead, or never.
Begin(w, kind) ==
  /\ job[w].phase = "idle"
  /\ active
  /\ \E end \in IF kind = "grant" THEN {None} \cup {now + 1} ELSE {None} :
       Move(w, [Idle EXCEPT !.kind = kind, !.phase = "asked", !.keys = keys,
                            !.device = IF kind = "trial" THEN device ELSE None, !.end = end])

\* _read: the row under the active key, and none under another.
Read(w) ==
  LET j == job[w]  row == access[j.keys] IN
  /\ j.phase = "asked"
  /\ active
  /\ \A k \in 1 .. j.keys - 1 : access[k] = None
  /\ row # None => Readable(row)
  /\ Move(w, [j EXCEPT !.row = row, !.at = now,
                       !.phase = IF j.kind \in {"trial", "snapshot"} THEN "past" ELSE "commit"])

\* activate_trial refuses beside a source that is on and lasts.
Eligible(row, t) ==
  \A b \in Bases : LET s == Sources(row)[b] IN s # None => ~s.on \/ ~Lasts(s, t)

ReadHistory(w) ==
  LET j == job[w]  seen == {trial[k] : k \in 1 .. j.keys} \ {None} IN
  /\ j.phase = "past"
  /\ Consistent(j.row, seen)
  /\ j.kind = "trial" => seen = {} /\ Eligible(j.row, now)
  /\ Move(w, [j EXCEPT !.past = seen, !.at = now, !.phase = "commit"])

\* The source an invocation writes, from the clock it read last.
Change(j) ==
  CASE j.kind = "trial" -> [Sources(j.row) EXCEPT !["trial"] = Source(TRUE, j.at, j.at + TrialLength)]
    [] j.kind = "grant" -> [Sources(j.row) EXCEPT !["complimentary"] = Source(TRUE, j.at, j.end)]
    [] j.kind = "revoke" -> [Sources(j.row) EXCEPT !["complimentary"] = Source(FALSE, j.at, None)]
    [] j.kind = "paid" -> [Sources(j.row) EXCEPT !["paid"] = Source(TRUE, j.at, j.at + 1)]
    [] OTHER -> Sources(j.row)

\* _commit: the account and the inventory, no row under another key, and the revision.
Committable(j) ==
  /\ active /\ j.keys = keys
  /\ \A k \in 1 .. keys - 1 : access[k] = None
  /\ Revision(access[j.keys]) = Revision(j.row)

Write(j, t) ==
  /\ Revision(access[j.keys]) < MaxRevision
  /\ access' = [access EXCEPT ![j.keys] = Effective(j.row, Change(j), t)]

\* The writers, the clock of _effective being later than that of the source.
Commit(w) ==
  LET j == job[w] IN
  /\ j.phase = "commit" /\ j.kind # "snapshot"
  /\ Committable(j)
  /\ \E t \in j.at .. now : Write(j, t)
  /\ IF j.kind = "trial"
     THEN /\ device = j.device /\ \A k \in 1 .. keys : trial[k] = None
          /\ trial' = [trial EXCEPT ![j.keys] = j.at]
          /\ activated' = activated \cup {j.at}
     ELSE UNCHANGED <<trial, activated>>
  /\ job' = [job EXCEPT ![w] = Idle]
  /\ UNCHANGED <<now, active, keys, device, whole>>

\* An error, a refusal, a death.
Stop(w) == job[w].phase # "idle" /\ Move(w, Idle)

-----------------------------------------------------------------------------
(* access_snapshot *)

\* refresh_for_account: a row whose basis has run out is computed anew.
Refresh(w) ==
  LET j == job[w] IN
  /\ j.phase = "commit" /\ j.kind = "snapshot"
  /\ IF j.row = None \/ Basis(j.row.sources, now) = j.row.basis
     THEN UNCHANGED access
     ELSE Committable(j) /\ Write(j, now)
  /\ job' = [job EXCEPT ![w].phase = "baseline"]
  /\ UNCHANGED <<now, active, keys, device, trial, activated, whole>>

ReadBaseline(w) ==
  /\ job[w].phase = "baseline"
  /\ Move(w, [job[w] EXCEPT !.row = access[job[w].keys], !.phase = "device"])

ReadDevice(w) ==
  /\ job[w].phase = "device"
  /\ Move(w, [job[w] EXCEPT !.device = device, !.phase = "grant"])

\* _grant, which finds no access in a row that is not in force.
ReadGrant(w) ==
  LET j == job[w]  row == access[j.keys] IN
  /\ j.phase = "grant"
  /\ Move(w, [j EXCEPT !.grant = IF Granted(row, now) THEN row ELSE None, !.phase = "again"])

\* The row is the one the snapshot began with.
StillGranted(j) == access[j.keys] = j.row /\ (j.grant = None \/ j.grant = j.row)

ReadAgain(w) ==
  LET j == job[w] IN
  /\ j.phase = "again"
  /\ StillGranted(j)
  /\ Move(w, [j EXCEPT !.phase = "tell",
                       !.stood = /\ access[j.keys] = j.row /\ j.grant \in {None, j.row}
                                 /\ device = j.device
                                 /\ {trial[k] : k \in 1 .. j.keys} \ {None} = j.past])

\* The histories and the device are as they were, and what is told still lasts.
Tell(w) ==
  LET j == job[w] IN
  /\ j.phase = "tell"
  /\ {trial[k] : k \in 1 .. j.keys} \ {None} = j.past
  /\ device = j.device
  /\ j.grant # None => Lasts(j.grant.sources[j.grant.basis], now)
  /\ active
  /\ whole' = (whole /\ j.stood)
  /\ job' = [job EXCEPT ![w] = Idle]
  /\ UNCHANGED <<now, rows, activated>>

-----------------------------------------------------------------------------
(* The account around them *)

Rotate ==
  /\ keys < MaxKeys
  /\ keys' = keys + 1
  /\ UNCHANGED <<now, active, device, access, trial, job, activated, whole>>

\* Another device is bound in the place of the one.
Rebind ==
  /\ device < MaxVersion
  /\ device' = device + 1
  /\ UNCHANGED <<now, active, keys, access, trial, job, activated, whole>>

RequestDeletion ==
  /\ active
  /\ active' = FALSE
  /\ UNCHANGED <<now, keys, device, access, trial, job, activated, whole>>

Tick ==
  /\ now < MaxTime
  /\ now' = now + 1
  /\ UNCHANGED <<rows, job, activated, whole>>

Next ==
  \/ \E w \in Workers :
       \/ \E kind \in Requests : Begin(w, kind)
       \/ Read(w) \/ ReadHistory(w) \/ Commit(w) \/ Stop(w)
       \/ Refresh(w) \/ ReadBaseline(w) \/ ReadDevice(w) \/ ReadGrant(w) \/ ReadAgain(w) \/ Tell(w)
  \/ Rotate \/ Rebind \/ RequestDeletion \/ Tick

Spec == Init /\ [][Next]_vars

-----------------------------------------------------------------------------
(* Properties *)

\* Every row and job holds values the code writes.
TypeOK ==
  /\ now \in 0 .. MaxTime /\ active \in BOOLEAN /\ keys \in Keys /\ device \in 1 .. MaxVersion
  /\ \A k \in Keys : access[k] # None =>
       access[k].revision \in 1 .. MaxRevision /\ access[k].basis \in Bases \cup {None}
  /\ \A k \in Keys : trial[k] = None \/ trial[k] \in 0 .. now
  /\ \A w \in Workers : job[w].phase \in {"idle", "asked", "past", "commit", "baseline",
                                          "device", "grant", "again", "tell"}

\* An account has one authority and one trial in all its time, whichever keys its rows
\* were kept under when requests raced with each other and with a rotation.
OneAuthority ==
  /\ Cardinality({k \in Keys : access[k] # None}) <= 1
  /\ Cardinality(activated) <= 1

\* What the writers leave is what they accept the next time: neither a source nor the
\* trial's history ever stops an account's requests. (A complimentary grant may: one
\* that ends while it is being made, see the README.)
NeverUnreadable ==
  \A k \in Keys : access[k] # None =>
    /\ Consistent(access[k], Activations)
    /\ Readable(access[k]) \/ LET s == access[k].sources["complimentary"] IN
                                s # None /\ s.until # None /\ s.until <= s.from

\* A snapshot combines what was the case together at one instant: access, history of the
\* trial and device.
SnapshotsWhole == whole

\* No writer takes back what another one wrote, and a trial is activated only where
\* nothing else is in force, whatever is granted meanwhile.
SourcesKept ==
  \A k \in Keys : access'[k] # access[k] =>
    /\ Cardinality({b \in Bases : access'[k].sources[b] # Sources(access[k])[b]}) <= 1
    /\ trial'[k] # trial[k] => \A b \in Bases \ {"trial"} : ~InForce(access'[k].sources[b], now)

-----------------------------------------------------------------------------
(* The invariant the properties are proved from (AccountRecordsProofs) *)

\* What the writers write. A complimentary source may end when it begins.
Written(row) ==
  /\ row \in AccessRows
  /\ \A b \in {"paid", "trial"} : LET s == row.sources[b] IN s # None => s.until # None /\ s.from < s.until
  /\ LET s == row.sources["trial"] IN s # None => s.until = s.from + TrialLength

Jobs == [kind : Requests \cup {None},
         phase : {"idle", "asked", "past", "commit", "baseline", "device", "grant", "again", "tell"},
         keys : Int, device : Int \cup {None}, at : Int, end : Int \cup {None},
         row : AccessRows \cup {None}, past : SUBSET Int, grant : AccessRows \cup {None}, stood : BOOLEAN]

Seen(n) == {trial[k] : k \in 1 .. n} \ {None}

\* A writer commits on the row it read, and a trial where it saw nothing else that
\* lasts; what a snapshot finds changed is never again as it was.
JobInv(w) ==
  LET j == job[w] IN
  /\ j \in Jobs
  /\ j.phase # "idle" => j.kind \in Requests /\ j.keys \in 1 .. keys /\ j.at \in 0 .. now
  /\ j.phase = "past" => j.kind \in {"trial", "snapshot"}
  /\ j.phase \in {"past", "commit"} =>
       /\ j.row # None => Written(j.row)
       /\ Revision(j.row) <= Revision(access[j.keys])
       /\ Revision(j.row) = Revision(access[j.keys]) => j.row = access[j.keys]
  /\ j.phase = "commit" /\ j.kind = "trial" => Eligible(j.row, j.at)
  /\ j.phase \in {"baseline", "device", "grant", "again", "tell"} => j.kind = "snapshot"
  /\ j.phase \notin {"idle", "asked", "past"} /\ j.kind = "snapshot" => j.past \subseteq Seen(j.keys)
  /\ j.phase \in {"grant", "again", "tell"} => j.device \in 1 .. device
  /\ j.phase = "tell" => j.stood \/ j.device # device \/ j.past # Seen(j.keys)

\* The one row of an account, under a key that is issued, and the one activation.
RowsInv ==
  /\ DOMAIN access = Keys /\ DOMAIN trial = Keys
  /\ \A k \in Keys : access[k] # None =>
       /\ k <= keys /\ Written(access[k])
       /\ \A l \in Keys : access[l] # None => l = k
       /\ LET s == access[k].sources["trial"] IN s # None => Activations = {s.from}
  /\ \A k \in Keys : trial[k] # None => k <= keys
  /\ activated = Activations
  /\ \A s, t \in activated : s = t

IInv == TypeOK /\ RowsInv /\ whole /\ DOMAIN job = Workers /\ \A w \in Workers : JobInv(w)
=============================================================================
