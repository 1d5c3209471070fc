--------------------------- MODULE Reconciliation ---------------------------
(***************************************************************************)
(* The scheduled scans that find deletion commands again. Three drivers    *)
(* walk the ledger page by page and keep their place in a checkpoint:      *)
(*   "session"   account_data_api: saves before and after each command,    *)
(*               isolates a command's failure, reports only clean passes;  *)
(*   "history"   history_account_deletion_bridge: saves after each page, a *)
(*               failure ends the run;                                     *)
(*   "authority" v1_authority_deletion and url_lease_recovery: isolates    *)
(*               failures, saves once per run by compare-and-set.          *)
(* What a driver does with a command is the business of other modules:     *)
(* here it succeeds, fails or takes the run down with it.                  *)
(***************************************************************************)
EXTENDS Integers, FiniteSetsExt

CONSTANTS
  Rows,        \* number of places in the ledger, in scan order
  Runs,        \* invocations at work at once
  PageSize, MaxPages,
  PerRun,      \* commands one run attempts
  MaxRevision  \* bound of the compare-and-set checkpoint's revision

ReconciliationAssumption ==
  /\ Rows \in Nat /\ PageSize \in Nat \ {0} /\ MaxPages \in Nat /\ PerRun \in Nat
  /\ MaxRevision \in Nat

VARIABLES
  driver,    \* which of the three
  crew,      \* the invocations at work: all, or one at a time
  requested, \* places with a command
  saved,     \* the checkpoint, and what the pass it belongs to still owes
  job,       \* invocations
  known,     \* commands that were there when a pass began, with one run at a time
  since      \* per command, the others that had a turn since its own

vars == <<driver, crew, requested, saved, job, known, since>>

Places == 1..Rows
Alone == \E r \in Runs : crew = {r}
Idle == [phase |-> "idle"]

TypeOK ==
  /\ driver \in {"session", "history", "authority"} /\ crew \subseteq Runs
  /\ requested \subseteq Places /\ known \subseteq requested
  /\ saved \in [at : 0..Rows, failed : BOOLEAN, revision : 0..MaxRevision, owed : SUBSET Places]
  /\ \A r \in Runs : job[r].phase \in {"idle", "scan", "page", "work", "clean"}
  /\ since \in [Places -> SUBSET Places]

Init ==
  /\ driver \in {"session", "history", "authority"}
  /\ crew \in {Runs} \cup {{r} : r \in Runs}
  /\ requested = {} /\ known = {}
  /\ saved = [at |-> 0, failed |-> FALSE, revision |-> 0, owed |-> {}]
  /\ job = [r \in Runs |-> Idle]
  /\ since = [c \in Places |-> {}]

Request(c) ==
  /\ c \notin requested /\ requested' = requested \cup {c}
  /\ UNCHANGED <<driver, crew, saved, job, known, since>>

\* A run reads the checkpoint. Without a place to go on from, a pass begins: it owes
\* every command that is there.
Start(r) ==
  LET fresh == saved.at = 0 IN
  /\ r \in crew /\ job[r].phase \in {"idle", "clean"} /\ saved.revision < MaxRevision
  /\ job' = [job EXCEPT ![r] =
       [phase |-> "scan", at |-> saved.at, failed |-> saved.failed, revision |-> saved.revision,
        owed |-> IF fresh THEN requested ELSE saved.owed, pages |-> 0, tries |-> 0]]
  /\ known' = IF fresh /\ Alone THEN requested ELSE known
  /\ UNCHANGED <<driver, crew, requested, saved, since>>

\* One page: the commands on it now, and where the next one starts (0: nowhere).
ReadPage(r) ==
  LET j == job[r]
      end == j.at + PageSize
  IN
  /\ j.phase = "scan" /\ j.pages < MaxPages
  /\ job' = [job EXCEPT ![r] =
       [phase |-> "page", at |-> j.at, failed |-> j.failed, revision |-> j.revision, owed |-> j.owed,
        pages |-> j.pages + 1, tries |-> j.tries,
        todo |-> {c \in requested : j.at < c /\ c <= end}, next |-> IF end > Rows THEN 0 ELSE end]]
  /\ UNCHANGED <<driver, crew, requested, saved, known, since>>

\* _save_reconciliation_checkpoint: whatever is there is replaced.
Save(at, failed, owed) == saved' = [saved EXCEPT !.at = at, !.failed = failed, !.owed = owed]

\* Mutant: the place is saved before the work without the mark.
MarkedLate(c, j) == Save(c, j.failed, j.owed)

\* "Advance before work. A timeout must not starve every later account. The fail-closed
\* marker prevents that pass being reported clean."
SaveBefore(c, j) == Save(c, TRUE, j.owed)

\* A command has its turn.
Take(r) ==
  LET j == job[r]
      c == Min(j.todo)
  IN
  /\ j.phase = "page" /\ j.todo # {}
  /\ driver # "history" => j.tries < PerRun
  /\ IF driver = "session" THEN SaveBefore(c, j) ELSE UNCHANGED saved
  /\ job' = [job EXCEPT ![r] =
       IF driver = "history" THEN [j EXCEPT !.phase = "work"]
       ELSE [j EXCEPT !.phase = "work", !.at = c, !.tries = j.tries + 1]]
  /\ since' = [d \in Places |->
       IF d = c THEN {} ELSE IF d \in known THEN since[d] \cup {c} ELSE since[d]]
  /\ UNCHANGED <<driver, crew, requested, known>>

\* What the pass owes after a command's turn: the scan of the sessions and that of the
\* History owe its success, that of the authority its attempt.
Paid(j, c, success) == IF success \/ driver = "authority" THEN j.owed \ {c} ELSE j.owed

\* The command is worked on, or fails and is counted.
Work(r) == \E success \in BOOLEAN :
  LET j == job[r]
      c == Min(j.todo)
      failed == j.failed \/ ~success
      owed == Paid(j, c, success)
  IN
  /\ j.phase = "work" /\ (driver = "history" => success)
  /\ job' = [job EXCEPT ![r] = [j EXCEPT !.phase = "page", !.todo = j.todo \ {c},
                                         !.failed = failed, !.owed = owed]]
  /\ IF driver = "session" THEN Save(j.at, failed, owed) ELSE UNCHANGED saved
  /\ UNCHANGED <<driver, crew, requested, known, since>>

\* verify_command: the command is no longer the account's; the checkpoint of before the
\* work stays.
Obsolete(r) ==
  LET j == job[r]
      c == Min(j.todo)
  IN
  /\ driver = "session" /\ j.phase = "work"
  /\ job' = [job EXCEPT ![r] = [j EXCEPT !.phase = "page", !.todo = j.todo \ {c},
                                         !.owed = j.owed \ {c}]]
  /\ UNCHANGED <<driver, crew, requested, saved, known, since>>

\* A pass that reached the end is reported.
Ended(j) == IF j.next = 0 /\ (driver = "session" => ~j.failed)
            THEN [phase |-> "clean", owed |-> j.owed] ELSE Idle

\* What a run does at the end of a page, or when its last page is over.
Continue(j) ==
  IF j.next = 0 \/ j.pages = MaxPages THEN Ended(j)
  ELSE [phase |-> "scan", at |-> j.next, failed |-> j.failed, revision |-> j.revision, owed |-> j.owed,
        pages |-> j.pages, tries |-> j.tries]

EndPage(r) ==
  LET j == job[r] IN
  /\ driver # "authority" /\ j.phase = "page" /\ j.todo = {}
  /\ Save(j.next, j.failed /\ j.next # 0, j.owed)
  /\ job' = [job EXCEPT ![r] = Continue(j)]
  /\ UNCHANGED <<driver, crew, requested, known, since>>

\* Out of attempts or of time: the session scan stops where its checkpoint is.
Stop(r) ==
  /\ driver = "session" /\ job[r].phase \in {"scan", "page"}
  /\ job' = [job EXCEPT ![r] = Idle]
  /\ UNCHANGED <<driver, crew, requested, saved, known, since>>

NextPage(r) ==
  LET j == job[r] IN
  /\ driver = "authority" /\ j.phase = "page" /\ j.todo = {} /\ j.next # 0 /\ j.pages < MaxPages
  /\ job' = [job EXCEPT ![r] = Continue(j)]
  /\ UNCHANGED <<driver, crew, requested, saved, known, since>>

\* "CAS prevents concurrent invocations silently overwriting progress."
Current(j) == saved.revision = j.revision

\* The authority's scan ends: at the end of a page, or anywhere when it is out of
\* attempts or of time.
Commit(r) ==
  LET j == job[r]
      ended == j.phase = "page" /\ j.todo = {}
  IN
  /\ driver = "authority" /\ j.phase \in {"scan", "page"} /\ Current(j)
  /\ saved' = [at |-> IF ended THEN j.next ELSE j.at, failed |-> FALSE, revision |-> j.revision + 1, owed |-> j.owed]
  /\ job' = [job EXCEPT ![r] = IF ended THEN Ended(j) ELSE Idle]
  /\ UNCHANGED <<driver, crew, requested, known, since>>

\* The run is cut short: it dies, its command raises (History), another run committed
\* first (authority). What these two had done since their checkpoint has another turn.
CutShort(r) ==
  /\ job[r].phase \in {"scan", "page", "work"}
  /\ job' = [job EXCEPT ![r] = Idle]
  /\ since' = IF driver = "session" THEN since ELSE [c \in Places |-> {}]
  /\ UNCHANGED <<driver, crew, requested, saved, known>>

Next ==
  \/ \E c \in Places : Request(c)
  \/ \E r \in Runs :
       \/ Start(r) \/ ReadPage(r) \/ Take(r) \/ Work(r) \/ Obsolete(r)
       \/ EndPage(r) \/ Stop(r) \/ NextPage(r) \/ Commit(r) \/ CutShort(r)

Spec == Init /\ [][Next]_vars

-----------------------------------------------------------------------------
(* The invariants the properties are proved from (ServicesProofs) *)

\* What a pass at `at` still owes lies ahead of it, or it is marked as failed.
Marked(failed) == driver = "session" /\ failed
Ahead(at, failed, owed) ==
  owed \subseteq requested /\ (Marked(failed) \/ \A c \in owed : at < c)

\* The end of the page in work: whether c is not beyond it.
OnPage(j, c) == j.next = 0 \/ c <= j.next

Cleans == [phase : {"clean"}, owed : {{}}]
Scanning == [phase : {"scan"}, at : 0..Rows, failed : BOOLEAN, revision : 0..(MaxRevision - 1),
             owed : SUBSET Places, pages : Nat, tries : Nat]
Paging == [phase : {"page", "work"}, at : 0..Rows, failed : BOOLEAN, revision : 0..(MaxRevision - 1),
           owed : SUBSET Places, pages : Nat, tries : Nat, todo : SUBSET Places, next : 0..Rows]

PageInv(j) ==
  /\ j.todo \subseteq requested /\ j.owed \subseteq requested
  /\ OnPage(j, j.at)
  /\ \A c \in j.todo : OnPage(j, c) /\ (IF j.phase = "page" THEN j.at < c ELSE j.at <= c)
  /\ Marked(j.failed) \/ \A c \in j.owed : c \in j.todo \/ ~OnPage(j, c)
  /\ j.phase = "work" => j.todo # {} /\ (driver # "history" => j.at = Min(j.todo))

JobInv(r) ==
  LET j == job[r] IN
  \/ j = Idle \/ j \in Cleans
  \/ j \in Scanning /\ Ahead(j.at, j.failed, j.owed)
  \/ j \in Paging /\ PageInv(j)

\* Where the one run is: the place c has been passed.
Passed(r, c) ==
  LET j == job[r] IN
  \/ j.phase \in {"idle", "clean"} /\ c <= saved.at
  \/ (j.phase = "scan" \/ (j.phase \in {"page", "work"} /\ driver # "history")) /\ c <= j.at
  \/ /\ j.phase \in {"page", "work"} /\ driver = "history" /\ OnPage(j, c)
     /\ c \notin j.todo \/ (j.phase = "work" /\ c = Min(j.todo))

\* Whoever had a turn since the turn of c comes between c and the run, in the order of
\* the scan.
InOrder(r) ==
  /\ \A c \in Places \ known : since[c] = {}
  /\ \A c \in known : \A d \in since[c] :
       IF Passed(r, c) THEN c < d /\ Passed(r, d) ELSE c < d \/ Passed(r, d)

\* No command of the pass is skipped on a page, and the checkpoint of the sessions is
\* where the run is.
InPlace(r) ==
  LET j == job[r] IN
  /\ j.phase \in {"page", "work"} =>
       \A c \in known : OnPage(j, c) /\ c \notin j.todo =>
         IF driver = "history" THEN \A d \in j.todo : c < d ELSE c <= j.at
  /\ driver = "session" /\ j.phase \in {"scan", "page", "work"} => saved.at = j.at

PassInv ==
  /\ TypeOK /\ DOMAIN job = Runs
  /\ Ahead(saved.at, saved.failed, saved.owed)
  /\ \A r \in Runs : JobInv(r)

CrewInv ==
  /\ crew \in {Runs} \cup {{r} : r \in Runs}
  /\ ~Alone => known = {}
  /\ \A r \in Runs \ crew : job[r] = Idle
  /\ \A r \in Runs : crew = {r} => InOrder(r) /\ InPlace(r)

IInv == PassInv /\ CrewInv

-----------------------------------------------------------------------------
(* Properties *)

\* However many runs share the checkpoint and wherever they die, a pass that is
\* reported complete left out no command that was there when it began.
PassesComplete == \A r \in Runs : job[r].phase = "clean" => job[r].owed = {}

\* While one run is at work at a time, no command has two turns while another that
\* waits has none; in the session scan not even when a run dies over the command.
TurnsFair ==
  \A r \in Runs :
    job[r].phase = "page" /\ job'[r].phase = "work" =>
      \A c \in known : Min(job[r].todo) \notin since[c] \/ c = Min(job[r].todo)
=============================================================================
