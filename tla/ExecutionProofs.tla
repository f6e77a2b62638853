--------------------------- MODULE ExecutionProofs ---------------------------
(***************************************************************************)
(* The safety of the gateway for any number of runs and queries, any cap,   *)
(* lifetime and number of attestations, and with clock, policy and warehouse*)
(* moving between any two steps.                                             *)
(***************************************************************************)
EXTENDS Execution, TLAPS

-----------------------------------------------------------------------------
(* The inductive invariant: what holds of a run, its job and its caller.      *)

Jobs == {"none", "submitted", "completed", "failed"}

\* The job of a run says where the run is.
Ledgered(now, job) ==
  /\ now.phase \in {"new", "bound", "admitted", "preflighted", "attesting"} => job = "none"
  /\ now.phase = "querying" => job = "submitted"
  /\ now.phase \in {"fetched", "released"} => job = "completed"
  /\ job = "submitted" => now.phase \in {"querying", "raised"}
  /\ job = "failed" => now.phase = "refused"

\* A run goes on under the ticket of its query, issued at some time before now.
Ticketed(now, job) ==
  (now.phase \in {"admitted", "preflighted", "attesting", "querying", "fetched", "released"}
     \/ job # "none") =>
  /\ now.ticket \in Tickets
  /\ now.ticket.query = now.query
  /\ now.ticket.issued <= clock
  /\ front = "pipeline" => now.ticket.epoch = now.bound

SubmittedInTime(now, job) ==
  job # "none" => now.submitted - now.ticket.issued \in 0..TTL

\* What looks complete is complete.
Whole(now) ==
  /\ now.phase = "fetched" /\ ~now.truncated => now.rows = now.stored
  /\ now.phase = "released" => now.rows = now.stored

Disclosed(now) == front = "pipeline" /\ now.phase = "released" => now.disclosed

Sound(now, job) ==
  /\ now.phase # "new" => now.query \in Queries
  /\ Ledgered(now, job) /\ Ticketed(now, job) /\ SubmittedInTime(now, job)
  /\ Whole(now) /\ Disclosed(now)

\* An unknown principal may not be disclosed anything.
PolicySound == policy.disclose => policy.known

Inv == TypeOK /\ NoDuplicateOpen /\ PolicySound /\ \A r \in Runs : Sound(run[r], ledger[r])

LEMMA InvInit == Init => Inv
<1>. SUFFICES ASSUME Init PROVE Inv OBVIOUS
<1>1. NewRun \in RunStates BY DEF NewRun, RunStates, Phases, Ended
<1>2. TypeOK BY <1>1 DEF Init, TypeOK
<1>3. NoDuplicateOpen BY DEF Init, NoDuplicateOpen
<1>4. \A r \in Runs : Sound(run[r], ledger[r])
  BY DEF Init, NewRun, Sound, Ledgered, Ticketed, SubmittedInTime, Whole, Disclosed
<1>5. PolicySound BY DEF Init, PolicySound
<1>. QED BY <1>2, <1>3, <1>4, <1>5 DEF Inv

-----------------------------------------------------------------------------
(* The environment moves nothing but what is named.                           *)

LEMMA EnvironmentKeeps ==
  ASSUME Inv, UNCHANGED <<front, run, active, ledger>>, clock' \in Nat, clock' >= clock,
         policy' \in [epoch : Nat, known : BOOLEAN, disclose : BOOLEAN], up' \in BOOLEAN,
         PolicySound'
  PROVE  Inv'
<1>1. TypeOK' BY DEF Inv, TypeOK
<1>2. NoDuplicateOpen' BY DEF Inv, NoDuplicateOpen
<1>3. ASSUME NEW r \in Runs PROVE Sound(run[r], ledger[r])'
  <2>1. Sound(run[r], ledger[r]) BY DEF Inv
  <2>2. Ticketed(run[r], ledger[r])' BY <2>1 DEF Sound, Ticketed, Tickets, Inv, TypeOK
  <2>. QED BY <2>1, <2>2 DEF Sound, Ledgered, SubmittedInTime, Whole, Disclosed
<1>. QED BY <1>1, <1>2, <1>3 DEF Inv

LEMMA TickKeeps == ASSUME Inv, Tick PROVE Inv'
BY EnvironmentKeeps DEF Tick, Inv, TypeOK, PolicySound

LEMMA WarehouseFlipsKeeps == ASSUME Inv, WarehouseFlips PROVE Inv'
BY EnvironmentKeeps DEF WarehouseFlips, Inv, TypeOK, PolicySound

LEMMA PolicyChangeKeeps == ASSUME Inv, PolicyChange PROVE Inv'
<1>1. policy.epoch + 1 \in Nat BY DEF Inv, TypeOK
<1>2. policy' \in [epoch : Nat, known : BOOLEAN, disclose : BOOLEAN]
  BY <1>1 DEF PolicyChange
<1>3. clock \in Nat BY DEF Inv, TypeOK
<1>4. up' \in BOOLEAN BY DEF Inv, TypeOK, PolicyChange
<1>5. PolicySound' BY <1>2 DEF PolicyChange, PolicySound
<1>. QED BY <1>2, <1>3, <1>4, <1>5, EnvironmentKeeps DEF PolicyChange

-----------------------------------------------------------------------------
(* A step of a run.                                                          *)

\* A run becomes `now` and its job `job`; if that opens the job, no other like it is open.
LEMMA RunKeeps ==
  ASSUME Inv, NEW r \in Runs, NEW now \in RunStates, NEW job \in Jobs,
         run' = [run EXCEPT ![r] = now], ledger' = [ledger EXCEPT ![r] = job],
         active' \in Runs \cup {None}, Environment,
         Sound(now, job),
         job = "submitted" => /\ now.query = run[r].query
                              /\ ledger[r] = "submitted" \/ ~FindOpen(now.query)
  PROVE  Inv'
<1>1. run \in [Runs -> RunStates] /\ ledger \in [Runs -> Jobs]
  BY DEF Inv, TypeOK, Jobs
<1>2. \A s \in Runs : /\ run'[s] = IF s = r THEN now ELSE run[s]
                      /\ ledger'[s] = IF s = r THEN job ELSE ledger[s]
  BY <1>1
<1>3. TypeOK' BY <1>1 DEF Inv, TypeOK, Environment, Jobs
<1>4. NoDuplicateOpen'
  <2>. SUFFICES ASSUME NEW p \in Runs, NEW s \in Runs, p # s,
                       ledger'[p] = "submitted", ledger'[s] = "submitted"
                PROVE  run'[p].query # run'[s].query
    BY DEF NoDuplicateOpen
  <2>1. CASE p # r /\ s # r BY <1>2, <2>1 DEF Inv, NoDuplicateOpen
  <2>2. CASE p = r \/ s = r
    <3>1. PICK t \in {p, s} : t # r OBVIOUS
    <3>2. ledger[t] = "submitted" /\ job = "submitted" BY <1>2, <2>2, <3>1
    <3>3. now.query # run[t].query
      <4>1. CASE ledger[r] = "submitted" BY <3>1, <3>2, <4>1 DEF Inv, NoDuplicateOpen
      <4>2. CASE ledger[r] # "submitted" BY <3>1, <3>2, <4>2 DEF FindOpen
      <4>. QED BY <4>1, <4>2
    <3>. QED BY <1>2, <2>2, <3>1, <3>3
  <2>. QED BY <2>1, <2>2
<1>5. ASSUME NEW s \in Runs PROVE Sound(run[s], ledger[s])'
  <2>1. CASE s = r
    BY <1>2, <2>1 DEF Environment, Sound, Ledgered, Ticketed, SubmittedInTime, Whole, Disclosed
  <2>2. CASE s # r
    BY <1>2, <2>2 DEF Inv, Environment, Sound, Ledgered, Ticketed, SubmittedInTime, Whole,
       Disclosed
  <2>. QED BY <2>1, <2>2
<1>6. PolicySound' BY DEF Inv, PolicySound, Environment
<1>. QED BY <1>3, <1>4, <1>5, <1>6 DEF Inv

\* What the invariant says of one run.
LEMMA RunState ==
  ASSUME Inv, NEW r \in Runs
  PROVE  /\ run \in [Runs -> RunStates] /\ run[r] \in RunStates
         /\ ledger \in [Runs -> Jobs] /\ ledger[r] \in Jobs
         /\ ledger = [ledger EXCEPT ![r] = ledger[r]]
         /\ active \in Runs \cup {None} /\ clock \in Nat
         /\ policy.epoch \in Nat /\ policy.known \in BOOLEAN /\ policy.disclose \in BOOLEAN
         /\ Sound(run[r], ledger[r])
BY DEF Inv, TypeOK, Jobs

\* A run that moves on to a later phase, its job as it was.
LEMMA BecomesKeeps ==
  ASSUME Inv, NEW r \in Runs, NEW phase \in {"preflighted", "attesting", "refused", "raised"},
         Becomes(r, phase), UNCHANGED ledger, Environment,
         \/ run[r].phase \in {"admitted", "preflighted", "attesting"}
         \/ run[r].phase = "fetched" /\ phase \notin {"preflighted", "attesting"}
  PROVE  Inv'
<1>. DEFINE now == [run[r] EXCEPT !.phase = phase]
<1>0. run[r] \in RunStates BY RunState
<1>1. now \in RunStates BY <1>0 DEF RunStates, Phases, Ended
<1>2. run' = [run EXCEPT ![r] = now] BY RunState DEF Becomes
<1>3. Sound(now, ledger[r])
  BY <1>0, RunState
  DEF RunStates, Sound, Ledgered, Ticketed, SubmittedInTime, Whole, Disclosed
<1>4. ledger[r] # "submitted" BY RunState DEF Sound, Ledgered
<1>5. active' \in Runs \cup {None} BY RunState DEF Becomes
<1>. HIDE DEF now
<1>. QED BY <1>1, <1>2, <1>3, <1>4, <1>5, RunState, RunKeeps

LEMMA BindKeeps == ASSUME Inv, NEW r \in Runs, Bind(r) PROVE Inv'
<1>1. PICK q \in Queries, n \in 0..MaxAttestations :
        run' = [run EXCEPT ![r] = [@ EXCEPT !.phase = "bound", !.query = q,
                                           !.bound = policy.epoch, !.attestations = n]]
  BY DEF Bind
<1>. DEFINE now == [run[r] EXCEPT !.phase = "bound", !.query = q, !.bound = policy.epoch,
                                  !.attestations = n]
<1>0. run[r] \in RunStates /\ n \in Nat BY RunState, LimitAssumption
<1>2. now \in RunStates BY <1>0, RunState DEF RunStates, Phases
<1>3. run' = [run EXCEPT ![r] = now] BY <1>1, RunState
<1>4. ledger[r] = "none" BY RunState DEF Bind, Sound, Ledgered
<1>5. Sound(now, ledger[r])
  BY <1>0, <1>4, RunState
  DEF RunStates, Sound, Ledgered, Ticketed, SubmittedInTime, Whole, Disclosed
<1>6. active' \in Runs \cup {None} BY DEF Bind
<1>. HIDE DEF now
<1>. QED BY <1>2, <1>3, <1>4, <1>5, <1>6, RunState, RunKeeps DEF Bind

LEMMA AdmitKeeps == ASSUME Inv, NEW r \in Runs, Admit(r) PROVE Inv'
<1>0. /\ run[r] \in RunStates /\ run[r].phase = "bound" /\ ledger[r] = "none"
      /\ run[r].query \in Queries /\ active' \in Runs \cup {None}
  BY RunState DEF Admit, Sound, Ledgered
<1>1. CASE policy.known /\ EpochAccepted(r)
  <2>. DEFINE pass == [query |-> run[r].query, issued |-> clock, epoch |-> policy.epoch]
              now == [run[r] EXCEPT !.phase = "admitted", !.scope = policy.epoch,
                                    !.ticket = pass]
  <2>1. run' = [run EXCEPT ![r] = now] BY <1>1, RunState DEF Admit
  <2>2. pass \in Tickets BY <1>0, RunState DEF Tickets
  <2>3. now \in RunStates BY <1>0, <2>2, RunState DEF RunStates, Phases
  <2>4. Sound(now, ledger[r])
    <3>. HIDE DEF pass
    <3>1. /\ now.phase = "admitted" /\ now.query = run[r].query /\ now.bound = run[r].bound
          /\ now.ticket = pass
      BY <1>0 DEF RunStates
    <3>2. /\ pass.query = run[r].query /\ pass.issued = clock /\ pass.epoch = policy.epoch
      BY DEF pass
    <3>3. front = "pipeline" => run[r].bound = policy.epoch BY <1>1 DEF EpochAccepted
    <3>. HIDE DEF now
    <3>. QED BY <1>0, <2>2, <3>1, <3>2, <3>3, RunState
         DEF Sound, Ledgered, Ticketed, SubmittedInTime, Whole, Disclosed
  <2>. HIDE DEF now
  <2>. QED BY <1>0, <2>1, <2>3, <2>4, RunState, RunKeeps DEF Admit
<1>2. CASE ~(policy.known /\ EpochAccepted(r))
  <2>1. PICK phase \in {"raised", "refused"} : run' = [run EXCEPT ![r].phase = phase]
    BY <1>2 DEF Admit
  <2>. DEFINE now == [run[r] EXCEPT !.phase = phase]
  <2>2. run' = [run EXCEPT ![r] = now] BY <2>1, RunState
  <2>3. now \in RunStates BY <1>0 DEF RunStates, Phases, Ended
  <2>4. Sound(now, ledger[r])
    BY <1>0 DEF RunStates, Sound, Ledgered, Ticketed, SubmittedInTime, Whole, Disclosed
  <2>. HIDE DEF now
  <2>. QED BY <1>0, <2>2, <2>3, <2>4, RunState, RunKeeps DEF Admit
<1>. QED BY <1>1, <1>2

LEMMA PreflightKeeps == ASSUME Inv, NEW r \in Runs, Preflight(r) PROVE Inv'
BY BecomesKeeps DEF Preflight, Before

LEMMA BuildAttestationsKeeps == ASSUME Inv, NEW r \in Runs, BuildAttestations(r) PROVE Inv'
BY BecomesKeeps DEF BuildAttestations, Before

LEMMA AttestKeeps == ASSUME Inv, NEW r \in Runs, Attest(r) PROVE Inv'
<1>0. /\ run[r] \in RunStates /\ run[r].phase = "attesting" /\ run[r].attestations > 0
      /\ ledger[r] = "none"
  BY RunState DEF Attest, Before, Unproven, Sound, Ledgered
<1>1. CASE run' = [run EXCEPT ![r].attestations = @ - 1] /\ UNCHANGED active
  <2>. DEFINE now == [run[r] EXCEPT !.attestations = @ - 1]
  <2>1. run' = [run EXCEPT ![r] = now] BY <1>1, RunState
  <2>2. now \in RunStates BY <1>0 DEF RunStates
  <2>3. Sound(now, ledger[r])
    BY <1>0, RunState
    DEF RunStates, Sound, Ledgered, Ticketed, SubmittedInTime, Whole, Disclosed
  <2>. HIDE DEF now
  <2>. QED BY <1>0, <1>1, <2>1, <2>2, <2>3, RunState, RunKeeps DEF Attest
<1>2. CASE Becomes(r, "refused") \/ Becomes(r, "raised")
  BY <1>0, <1>2, BecomesKeeps DEF Attest
<1>. QED BY <1>1, <1>2 DEF Attest

LEMMA SubmitKeeps == ASSUME Inv, NEW r \in Runs, Submit(r) PROVE Inv'
<1>0. /\ run[r] \in RunStates /\ run[r].phase = "attesting" /\ ledger[r] = "none"
      /\ clock \in Nat
  BY RunState DEF Submit, Before, Sound, Ledgered
<1>1. CASE Verify(r) /\ ~FindOpen(run[r].query)
  <2>1. PICK phase \in {"querying", "raised"} :
          run' = [run EXCEPT ![r].submitted = clock, ![r].phase = phase]
    BY <1>1 DEF Submit
  <2>. DEFINE now == [run[r] EXCEPT !.submitted = clock, !.phase = phase]
  <2>2. run' = [run EXCEPT ![r] = now] BY <2>1, RunState
  <2>3. now \in RunStates BY <1>0 DEF RunStates, Phases, Ended
  <2>4. now.query = run[r].query BY <1>0 DEF RunStates
  <2>5. Sound(now, "submitted")
    <3>1. /\ now.phase \in {"querying", "raised"} /\ now.ticket = run[r].ticket
          /\ now.bound = run[r].bound /\ now.submitted = clock
      BY <1>0 DEF RunStates
    <3>2. /\ run[r].ticket \in Tickets /\ run[r].ticket.query = run[r].query
          /\ run[r].ticket.issued <= clock /\ run[r].query \in Queries
          /\ front = "pipeline" => run[r].ticket.epoch = run[r].bound
      BY <1>0, RunState DEF Sound, Ticketed
    <3>3. run[r].ticket.issued \in Nat BY <3>2 DEF Tickets
    <3>4. clock - run[r].ticket.issued \in 0..TTL
      BY <1>0, <1>1, <3>2, <3>3, LimitAssumption DEF Verify
    <3>. HIDE DEF now
    <3>. QED BY <2>4, <3>1, <3>2, <3>4
         DEF Sound, Ledgered, Ticketed, SubmittedInTime, Whole, Disclosed
  <2>6. ledger' = [ledger EXCEPT ![r] = "submitted"] /\ active' \in Runs \cup {None}
    BY <1>1 DEF Submit
  <2>7. "submitted" \in Jobs BY DEF Jobs
  <2>. HIDE DEF now
  <2>. QED BY <1>1, <2>2, <2>3, <2>4, <2>5, <2>6, <2>7, RunKeeps DEF Submit
<1>2. CASE ~(Verify(r) /\ ~FindOpen(run[r].query))
  BY <1>0, <1>2, BecomesKeeps DEF Submit
<1>. QED BY <1>1, <1>2

LEMMA QueryKeeps == ASSUME Inv, NEW r \in Runs, Query(r) PROVE Inv'
<1>0. /\ run[r] \in RunStates /\ run[r].phase = "querying" /\ ledger[r] = "submitted"
  BY RunState DEF Query, Before, Sound, Ledgered
<1>1. ASSUME NEW n \in MaxRows..(MaxRows + 2),
             run' = [run EXCEPT
                       ![r].phase = "fetched", ![r].stored = n,
                       ![r].rows = IF Fetch(n) > MaxRows THEN MaxRows ELSE Fetch(n),
                       ![r].truncated = Fetch(n) > MaxRows],
             ledger' = [ledger EXCEPT ![r] = "completed"], UNCHANGED active
      PROVE  Inv'
  <2>. DEFINE cut == Fetch(n) > MaxRows
              rows == IF Fetch(n) > MaxRows THEN MaxRows ELSE Fetch(n)
              now == [run[r] EXCEPT !.phase = "fetched", !.stored = n, !.rows = rows,
                                    !.truncated = cut]
  <2>0. n \in Nat /\ rows \in Nat /\ cut \in BOOLEAN /\ (~cut => rows = n)
    BY LimitAssumption DEF Fetch
  <2>1. run' = [run EXCEPT ![r] = now] BY <1>1, RunState
  <2>. HIDE DEF rows, cut
  <2>2. now \in RunStates BY <1>0, <2>0 DEF RunStates, Phases
  <2>3. Sound(now, "completed")
    <3>1. /\ now.phase = "fetched" /\ now.ticket = run[r].ticket /\ now.query = run[r].query
          /\ now.bound = run[r].bound /\ now.submitted = run[r].submitted
          /\ now.stored = n /\ now.rows = rows /\ now.truncated = cut
      BY <1>0 DEF RunStates
    <3>2. Sound(run[r], "submitted") BY <1>0, RunState
    <3>. HIDE DEF now
    <3>. QED BY <1>0, <2>0, <3>1, <3>2
         DEF Sound, Ledgered, Ticketed, SubmittedInTime, Whole, Disclosed
  <2>4. "completed" \in Jobs BY DEF Jobs
  <2>. HIDE DEF now
  <2>. QED BY <1>1, <2>1, <2>2, <2>3, <2>4, RunState, RunKeeps DEF Query
<1>2. CASE Becomes(r, "refused") /\ FailedClosed(r)
  <2>. DEFINE now == [run[r] EXCEPT !.phase = "refused"]
  <2>1. run' = [run EXCEPT ![r] = now] BY <1>2, RunState DEF Becomes
  <2>2. now \in RunStates BY <1>0 DEF RunStates, Phases, Ended
  <2>3. Sound(now, "failed")
    BY <1>0, RunState
    DEF RunStates, Sound, Ledgered, Ticketed, SubmittedInTime, Whole, Disclosed
  <2>4. "failed" \in Jobs BY DEF Jobs
  <2>5. active' \in Runs \cup {None} /\ ledger' = [ledger EXCEPT ![r] = "failed"]
    BY <1>2, RunState DEF Becomes, FailedClosed
  <2>. HIDE DEF now
  <2>. QED BY <2>1, <2>2, <2>3, <2>4, <2>5, RunKeeps DEF Query
<1>. QED BY <1>1, <1>2 DEF Query

LEMMA ReleaseKeeps == ASSUME Inv, NEW r \in Runs, Release(r) PROVE Inv'
<1>0. /\ run[r] \in RunStates /\ run[r].phase = "fetched" /\ ledger[r] = "completed"
  BY RunState DEF Release, Before, Sound, Ledgered
<1>1. CASE /\ ~run[r].truncated /\ Disclosable(r)
           /\ run' = [run EXCEPT ![r].phase = "released",
                                 ![r].disclosed = policy.known /\ policy.disclose]
           /\ active' = None
  <2>. DEFINE shown == policy.known /\ policy.disclose
              now == [run[r] EXCEPT !.phase = "released", !.disclosed = shown]
  <2>0. shown \in BOOLEAN OBVIOUS
  <2>1. run' = [run EXCEPT ![r] = now] BY <1>1, RunState
  <2>2. front = "pipeline" => shown BY <1>1 DEF Disclosable, Inv, PolicySound
  <2>. HIDE DEF shown
  <2>3. now \in RunStates BY <1>0, <2>0 DEF RunStates, Phases, Ended
  <2>4. Sound(now, ledger[r])
    <3>1. /\ now.phase = "released" /\ now.ticket = run[r].ticket /\ now.query = run[r].query
          /\ now.bound = run[r].bound /\ now.submitted = run[r].submitted
          /\ now.stored = run[r].stored /\ now.rows = run[r].rows /\ now.disclosed = shown
      BY <1>0 DEF RunStates
    <3>2. Sound(run[r], "completed") BY <1>0, RunState
    <3>. HIDE DEF now
    <3>. QED BY <1>0, <1>1, <2>2, <3>1, <3>2
         DEF Sound, Ledgered, Ticketed, SubmittedInTime, Whole, Disclosed
  <2>. HIDE DEF now
  <2>. QED BY <1>0, <1>1, <2>1, <2>3, <2>4, RunState, RunKeeps DEF Release
<1>2. CASE Becomes(r, "refused") \/ Becomes(r, "raised")
  BY <1>0, <1>2, BecomesKeeps DEF Release
<1>. QED BY <1>1, <1>2 DEF Release

LEMMA InvStep == Inv /\ [Next]_vars => Inv'
<1>. SUFFICES ASSUME Inv, [Next]_vars PROVE Inv' OBVIOUS
<1>1. CASE Tick BY <1>1, TickKeeps
<1>2. CASE WarehouseFlips BY <1>2, WarehouseFlipsKeeps
<1>3. CASE PolicyChange BY <1>3, PolicyChangeKeeps
<1>4. ASSUME NEW r \in Runs, Step(r) PROVE Inv'
  BY <1>4, BindKeeps, AdmitKeeps, PreflightKeeps, BuildAttestationsKeeps, AttestKeeps,
     SubmitKeeps, QueryKeeps, ReleaseKeeps DEF Step
<1>5. CASE UNCHANGED vars
  BY <1>5, EnvironmentKeeps DEF vars, Inv, TypeOK, PolicySound
<1>. QED BY <1>1, <1>2, <1>3, <1>4, <1>5 DEF Next

-----------------------------------------------------------------------------
(* Theorems.                                                                 *)

\* Runs, tickets, the ledger and the moving environment are well typed.
THEOREM ExecutionTypes == Spec => []TypeOK
<1>1. Inv => TypeOK BY DEF Inv
<1>. QED BY InvInit, InvStep, <1>1, PTL DEF Spec

\* No query is in the warehouse, or left open there, twice.
THEOREM OpenJobsDiffer == Spec => []NoDuplicateOpen
<1>1. Inv => NoDuplicateOpen BY DEF Inv
<1>. QED BY InvInit, InvStep, <1>1, PTL DEF Spec

\* What is released was fetched to its last row.
THEOREM AnswersComplete == Spec => []CompleteAnswersOnly
<1>1. Inv => CompleteAnswersOnly BY DEF Inv, CompleteAnswersOnly, Sound, Whole
<1>. QED BY InvInit, InvStep, <1>1, PTL DEF Spec

\* No query reaches the warehouse after its ticket ran out, or under another's ticket.
THEOREM TicketsAdmit == Spec => []SubmittedWhileAdmitted
<1>1. Inv => SubmittedWhileAdmitted
  BY DEF Inv, SubmittedWhileAdmitted, Sound, Ticketed, SubmittedInTime
<1>. QED BY InvInit, InvStep, <1>1, PTL DEF Spec

\* The pipeline releases under the epoch it bound under, what may be disclosed.
THEOREM PipelineHolds == Spec => []PipelineRechecks
<1>1. Inv => PipelineRechecks BY DEF Inv, PipelineRechecks, Sound, Ticketed, Disclosed
<1>. QED BY InvInit, InvStep, <1>1, PTL DEF Spec

=============================================================================
