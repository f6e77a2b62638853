------------------------------- MODULE Startup -------------------------------
(***************************************************************************)
(* Processes from start to service: a snapshot is published, each runtime   *)
(* loads it, projects it into the search index, and answers searches.  A    *)
(* runtime is one of the processes that load the snapshot.                  *)
(***************************************************************************)
EXTENDS Publication, SearchIndex

ASSUME ProcessAssumption == Runtimes = Loaders

vars == <<disk, pub, load, index, rt, builds, disturbed>>

Init == PubInit /\ IndexInit

\* Publishing and loading take no notice of the index.
PublicationStep == PubNext /\ UNCHANGED indexVars

\* AppRuntime.build goes on once Services.build has returned.
Build(r) == load[r].pc = "loaded" /\ BuildStep(r) /\ UNCHANGED pubVars

\* The next chat or message builds a runtime that failed once more, and a restart of
\* the process one in service; either starts from the snapshot.
Rebuild(r) ==
  /\ rt[r].pc \in {"up", "down"} /\ builds < MaxBuilds
  /\ rt' = [rt EXCEPT ![r].pc = "off", ![r].outcome = None]
  /\ load' = [load EXCEPT ![r] = [pc |-> "start", read |-> Unread, next |-> Manifest]]
  /\ UNCHANGED <<disk, pub, index, builds, disturbed>>

Serve(r) == (SearchBegins(r) \/ SearchStep(r)) /\ UNCHANGED pubVars

Next ==
  \/ PublicationStep
  \/ \E r \in Runtimes :
       Build(r) \/ (Unreachable(r) /\ UNCHANGED pubVars) \/ Rebuild(r) \/ Serve(r)

\* A process whose build has begun goes on with it.
Fairness == \A r \in Runtimes : WF_vars(rt[r].pc \in Building /\ Build(r))

Spec == Init /\ [][Next]_vars /\ Fairness
==============================================================================
