------------------------------ MODULE Execution ------------------------------
(***************************************************************************)
(* From a compiled query to released rows: admission ticket, preflight,     *)
(* uniqueness attestations, the gateway and its ledger, the result contract.*)
(* Two callers drive the gateway through the same calls and differ in what  *)
(* they recheck: the execute node of the graph, and Pipeline.run.           *)
(*                                                                          *)
(* Everything here is synchronous Python on one event loop, so one run at a *)
(* time is inside the gateway.  What moves meanwhile is outside the process:*)
(* the clock, the policy, and whether the warehouse file can be attached.   *)
(***************************************************************************)
EXTENDS Integers, FiniteSets

CONSTANTS
  Runs,             \* executions of a compiled query
  Queries,          \* canonical hashes of SQL and parameter values
  None,
  TTL,              \* ttl_seconds of a ticket
  MaxRows,          \* the row cap of a ticket
  MaxAttestations,  \* as-of joins a query may carry
  MaxClock,         \* bound of the model: ticks of the clock
  MaxEpoch          \* bound of the model: policy changes

ASSUME LimitAssumption ==
  /\ TTL \in Nat /\ MaxRows \in Nat /\ MaxAttestations \in Nat
  /\ MaxClock \in Nat /\ MaxEpoch \in Nat
  /\ None \notin Queries

VARIABLES
  front,   \* which caller this process is: "graph" or "pipeline"
  run,     \* run[r]: the local variables of an execution
  active,  \* the run the interpreter is inside, or None
  ledger,  \* ExecutionLedger: the state of the job each run opened
  policy,  \* the live policy
  up,      \* the warehouse can be attached
  clock

vars == <<front, run, active, ledger, policy, up, clock>>

Ended == {"released", "refused", "raised"}

NewRun ==
  [phase |-> "new", query |-> None, bound |-> 0, attestations |-> 0,
   scope |-> 0, ticket |-> None, submitted |-> 0, stored |-> 0, rows |-> 0,
   truncated |-> FALSE, disclosed |-> FALSE]

Init ==
  /\ front \in {"graph", "pipeline"}
  /\ run = [r \in Runs |-> NewRun]
  /\ active = None
  /\ ledger = [r \in Runs |-> "none"]
  /\ policy = [epoch |-> 1, known |-> TRUE, disclose |-> TRUE]
  /\ up = TRUE
  /\ clock = 0

-----------------------------------------------------------------------------
(* The environment.                                                          *)

Tick ==
  /\ clock < MaxClock
  /\ clock' = clock + 1
  /\ UNCHANGED <<front, run, active, ledger, policy, up>>

WarehouseFlips ==
  /\ up' = ~up
  /\ UNCHANGED <<front, run, active, ledger, policy, clock>>

PolicyChange ==
  /\ policy.epoch < MaxEpoch
  /\ policy' \in [epoch : {policy.epoch + 1}, known : BOOLEAN,
                   disclose : BOOLEAN]
  /\ ~policy'.known => ~policy'.disclose
  /\ UNCHANGED <<front, run, active, ledger, up, clock>>

-----------------------------------------------------------------------------
(* The steps of a run.  Before(r, phase) is where a step may start.          *)

Before(r, phase) ==
  /\ run[r].phase = phase
  /\ active = r

\* The call a run is in returns or raises; when the run has ended, the event loop
\* is free for another.
Becomes(r, phase) ==
  /\ run' = [run EXCEPT ![r].phase = phase]
  /\ active' = IF phase \in Ended THEN None ELSE active

Environment == UNCHANGED <<front, policy, up, clock>>

\* Binding and compiling.  Pipeline.run goes on without yielding; in the graph
\* the execute node is scheduled later, and other runs may come between.
Bind(r) ==
  /\ run[r].phase = "new" /\ active = None
  /\ policy.known
  /\ \E q \in Queries, n \in 0..MaxAttestations :
       run' = [run EXCEPT ![r] = [@ EXCEPT !.phase = "bound", !.query = q,
                                          !.bound = policy.epoch,
                                          !.attestations = n]]
  /\ active' = IF front = "pipeline" THEN r ELSE None
  /\ UNCHANGED ledger /\ Environment

\* Variant: the epoch the plan was bound under is not compared.
UncheckedEpoch(r) == TRUE

\* Pipeline.run refuses a plan bound under another epoch; execute does not look.
EpochAccepted(r) == front = "pipeline" => run[r].bound = policy.epoch

\* reauthorize, then issue_ticket under the fresh scope.
Admit(r) ==
  /\ run[r].phase = "bound" /\ active \in {None, r}
  /\ IF policy.known /\ EpochAccepted(r)
       THEN /\ run' = [run EXCEPT
                         ![r].phase = "admitted", ![r].scope = policy.epoch,
                         ![r].ticket = [query |-> run[r].query, issued |-> clock,
                                        epoch |-> policy.epoch]]
            /\ active' = r
       ELSE /\ run' = [run EXCEPT ![r].phase =
                         IF front = "pipeline" /\ ~policy.known
                           THEN "raised" ELSE "refused"]
            /\ active' = None
  /\ UNCHANGED ledger /\ Environment

\* EXPLAIN.  A failure to connect is not a GovernedError and leaves the caller.
Preflight(r) ==
  /\ Before(r, "admitted")
  /\ IF up THEN Becomes(r, "preflighted") \/ Becomes(r, "refused")
           ELSE Becomes(r, "raised")
  /\ UNCHANGED ledger /\ Environment

Unproven(r) == run[r].attestations > 0

\* One diagnostic query per as-of join, all built before the first is run.  A join
\* without a column to probe makes that raise a ValueError, which no caller catches;
\* a parameter nobody supplied is a GovernedError.
BuildAttestations(r) ==
  /\ Before(r, "preflighted")
  /\ \/ Becomes(r, "attesting")
     \/ Unproven(r) /\ (Becomes(r, "refused") \/ Becomes(r, "raised"))
  /\ UNCHANGED ledger /\ Environment

\* One diagnostic query: it proves the join, finds an overlap or an unmatched
\* fact, or fails.
Attest(r) ==
  /\ Before(r, "attesting")
  /\ Unproven(r)
  /\ IF up THEN \/ /\ run' = [run EXCEPT ![r].attestations = @ - 1]
                   /\ UNCHANGED active
                \/ Becomes(r, "refused")
           ELSE Becomes(r, "raised")
  /\ UNCHANGED ledger /\ Environment

\* Variant: a ticket does not expire.
VerifyWithoutExpiry(r) ==
  run[r].ticket.query = run[r].query /\ run[r].ticket.epoch = run[r].scope

\* AdmissionTicket.verify; both callers pass the scope the ticket was issued under.
Verify(r) ==
  /\ clock <= run[r].ticket.issued + TTL
  /\ run[r].ticket.query = run[r].query
  /\ run[r].ticket.epoch = run[r].scope

\* Variant: identical submissions are not looked for.
NothingOpen(q) == FALSE

\* find_open: the ledger holds an identical submission without an outcome.
FindOpen(q) ==
  \E s \in Runs : run[s].query = q /\ ledger[s] = "submitted"

\* gateway.execute up to the query: the job is opened before the connection.
Submit(r) ==
  /\ Before(r, "attesting")
  /\ ~Unproven(r)
  /\ IF Verify(r) /\ ~FindOpen(run[r].query)
       THEN /\ ledger' = [ledger EXCEPT ![r] = "submitted"]
            /\ run' = [run EXCEPT ![r].submitted = clock,
                                  ![r].phase = IF up THEN "querying" ELSE "raised"]
            /\ active' = IF up THEN r ELSE None
       ELSE /\ Becomes(r, "refused")
            /\ UNCHANGED ledger
  /\ Environment

\* Variant: exactly the cap is fetched, so nothing ever looks truncated.
FetchCapped(n) == IF n <= MaxRows THEN n ELSE MaxRows

\* fetchmany(max_rows + 1)
Fetch(n) == IF n <= MaxRows + 1 THEN n ELSE MaxRows + 1

\* The except clause closes the job as failed.
FailedClosed(r) == ledger' = [ledger EXCEPT ![r] = "failed"]

\* The query has n rows, or fails; the cap is where sizes start to differ.
Query(r) ==
  /\ Before(r, "querying")
  /\ \/ \E n \in MaxRows..(MaxRows + 2) :
          /\ run' = [run EXCEPT
                       ![r].phase = "fetched", ![r].stored = n,
                       ![r].rows = IF Fetch(n) > MaxRows THEN MaxRows ELSE Fetch(n),
                       ![r].truncated = Fetch(n) > MaxRows]
          /\ ledger' = [ledger EXCEPT ![r] = "completed"]
          /\ UNCHANGED active
     \/ Becomes(r, "refused") /\ FailedClosed(r)
  /\ Environment

\* Pipeline.run rechecks DISCLOSE against the live policy before rendering.
Disclosable(r) ==
  front = "pipeline" => policy.disclose

\* validate_result: truncation and the other breaches block; then the release.
\* An unknown principal makes the policy engine raise out of Pipeline.run.
Release(r) ==
  /\ Before(r, "fetched")
  /\ \/ /\ ~run[r].truncated /\ Disclosable(r)
        /\ run' = [run EXCEPT
                     ![r].phase = "released",
                     ![r].disclosed = policy.known /\ policy.disclose]
        /\ active' = None
     \/ Becomes(r, "refused")
     \/ front = "pipeline" /\ ~policy.known /\ ~run[r].truncated /\ Becomes(r, "raised")
  /\ UNCHANGED ledger /\ Environment

-----------------------------------------------------------------------------
Step(r) ==
  \/ Bind(r) \/ Admit(r) \/ Preflight(r) \/ BuildAttestations(r) \/ Attest(r)
  \/ Submit(r) \/ Query(r) \/ Release(r)

Next == Tick \/ WarehouseFlips \/ PolicyChange \/ \E r \in Runs : Step(r)

Spec == Init /\ [][Next]_vars

-----------------------------------------------------------------------------
(* Properties.                                                               *)

Phases ==
  {"new", "bound", "admitted", "preflighted", "attesting", "querying", "fetched"}
    \cup Ended

Tickets == [query : Queries, issued : Nat, epoch : Nat]

RunStates ==
  [phase : Phases, query : Queries \cup {None}, bound : Nat, attestations : Nat,
   scope : Nat, ticket : Tickets \cup {None}, submitted : Nat, stored : Nat,
   rows : Nat, truncated : BOOLEAN, disclosed : BOOLEAN]

TypeOK ==
  /\ front \in {"graph", "pipeline"}
  /\ run \in [Runs -> RunStates]
  /\ active \in Runs \cup {None}
  /\ ledger \in [Runs -> {"none", "submitted", "completed", "failed"}]
  /\ policy \in [epoch : Nat, known : BOOLEAN, disclose : BOOLEAN]
  /\ up \in BOOLEAN
  /\ clock \in Nat

\* The ledger's own claim, that it "records every submission so an uncertain outcome
\* can be reconciled": a job is open while its query is in the warehouse, and not
\* after its run has given up.
OpenJobsAreInFlight ==
  \A r \in Runs : ledger[r] = "submitted" => run[r].phase = "querying"

\* An open job is never duplicated, not even by the runs that come after one was
\* abandoned.
NoDuplicateOpen ==
  \A r, s \in Runs :
    r # s /\ ledger[r] = "submitted" /\ ledger[s] = "submitted"
      => run[r].query # run[s].query

\* A released answer is the whole result: fetching stops at the cap, and a result
\* cut there is noticed on every way to the release.
CompleteAnswersOnly ==
  \A r \in Runs : run[r].phase = "released" => run[r].rows = run[r].stored

\* However long the preflight and the attestations take, a query reaches the
\* warehouse within the lifetime of the authorization it was admitted under.
SubmittedWhileAdmitted ==
  \A r \in Runs :
    ledger[r] # "none" =>
      /\ run[r].submitted - run[r].ticket.issued \in 0..TTL
      /\ run[r].ticket.query = run[r].query

\* Pipeline.run: an answer was bound and admitted under one epoch, and is
\* disclosed under the policy of the moment it is released.
PipelineRechecks ==
  front = "pipeline" =>
    \A r \in Runs : run[r].phase = "released" =>
      run[r].bound = run[r].ticket.epoch /\ run[r].disclosed

=============================================================================
