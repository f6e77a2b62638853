----------------------------- MODULE Publication -----------------------------
(***************************************************************************)
(* One snapshot directory: the processes that publish into it and those     *)
(* that load it.  publish checks, creates the directory and writes file     *)
(* after file, the manifest last; nothing but the file system stands        *)
(* between two of them, or between a writer and a reader.  A write first    *)
(* truncates, and a process may die, or a write fail, between any two steps.*)
(***************************************************************************)
EXTENDS Naturals

CONSTANTS
  Publishers,   \* processes running `ttsql catalog publish`
  Loaders,      \* processes building their Services
  Bundles,      \* what the source bundle may hold when publish reads it
  Refs,         \* IDs and pinned refs that records define or cite
  NumFiles,     \* record files, in the order of _FILES
  Absent, Torn  \* no file; a file that was truncated and not yet filled

ASSUME FileAssumption ==
  /\ NumFiles \in Nat \ {0}
  /\ Absent \notin Bundles \cup {Torn} /\ Torn \notin Bundles

\* A bundle as validation sees it: what it defines, what its records cite, and
\* the metrics it supersedes.
ASSUME BundleAssumption ==
  Bundles \subseteq [defines : SUBSET Refs, cites : SUBSET Refs,
                    supersedes : SUBSET Refs]

VARIABLES
  disk,   \* the directory: whether it exists, and what each file holds
  pub,    \* pub[p]: how far publish has come in process p
  load    \* load[l]: how far CatalogSnapshot has come in process l

pubVars == <<disk, pub, load>>

\* The manifest is the file after the record files.
Manifest == NumFiles + 1
Files == 1..Manifest

\* Every citation resolves, and nothing published is superseded as well.
Valid(b) == b.cites \subseteq b.defines /\ b.supersedes \cap b.defines = {}

Unread == [f \in Files |-> Absent]

PubInit ==
  /\ disk = [made |-> FALSE, file |-> Unread]
  /\ pub \in [Publishers -> [pc : {"start"}, bundle : Bundles, next : {0}]]
  /\ load = [l \in Loaders |-> [pc |-> "start", read |-> Unread, next |-> Manifest]]

-----------------------------------------------------------------------------
(* publish.                                                                  *)

PubGoes(p, pc) == pub' = [pub EXCEPT ![p].pc = pc]

\* build_records validates before anything is looked at on disk.
BuildRecords(p) ==
  /\ pub[p].pc = "start"
  /\ PubGoes(p, IF Valid(pub[p].bundle) THEN "valid" ELSE "rejected")
  /\ UNCHANGED <<disk, load>>

CheckTarget(p) ==
  /\ pub[p].pc = "valid"
  /\ PubGoes(p, IF disk.made THEN "rejected" ELSE "vacant")
  /\ UNCHANGED <<disk, load>>

\* Variant: mkdir(exist_ok=True).
MakeTargetTolerant(p) ==
  /\ pub[p].pc = "vacant"
  /\ pub' = [pub EXCEPT ![p].pc = "open", ![p].next = 1]
  /\ disk' = [disk EXCEPT !.made = TRUE]
  /\ UNCHANGED load

\* mkdir raises when another process made the directory since the check.
MakeTarget(p) ==
  /\ pub[p].pc = "vacant"
  /\ IF disk.made
       THEN PubGoes(p, "rejected") /\ UNCHANGED disk
       ELSE /\ pub' = [pub EXCEPT ![p].pc = "open", ![p].next = 1]
            /\ disk' = [disk EXCEPT !.made = TRUE]
  /\ UNCHANGED load

\* Variant: the manifest is written before the record files.
ManifestFirst(p) == IF pub[p].next = 1 THEN Manifest ELSE pub[p].next - 1

\* The file written in each turn: the record files in order, then the manifest.
Target(p) == pub[p].next

OpenFile(p) ==
  /\ pub[p].pc = "open"
  /\ disk' = [disk EXCEPT !.file[Target(p)] = Torn]
  /\ PubGoes(p, "fill")
  /\ UNCHANGED load

FillFile(p) ==
  /\ pub[p].pc = "fill"
  /\ disk' = [disk EXCEPT !.file[Target(p)] = pub[p].bundle]
  /\ pub' = [pub EXCEPT ![p].next = @ + 1,
                        ![p].pc = IF pub[p].next = Manifest THEN "published" ELSE "open"]
  /\ UNCHANGED load

\* The process is killed, or a write raises; what it wrote stays.
Abandon(p) ==
  /\ pub[p].pc \in {"vacant", "open", "fill"}
  /\ PubGoes(p, "abandoned")
  /\ UNCHANGED <<disk, load>>

PublishStep(p) ==
  \/ BuildRecords(p)
  \/ CheckTarget(p)
  \/ MakeTarget(p)
  \/ OpenFile(p)
  \/ FillFile(p)

-----------------------------------------------------------------------------
(* CatalogSnapshot.__init__: the manifest, which must exist, then each file. *)

\* A file that is missing or does not parse raises.
Readable(f) == disk.file[f] \in Bundles

Read(l, f) ==
  IF Readable(f)
    THEN load' = [load EXCEPT ![l] =
                   [pc |-> IF f = NumFiles THEN "loaded" ELSE "reading",
                    read |-> [load[l].read EXCEPT ![f] = disk.file[f]],
                    next |-> IF f = Manifest THEN 1 ELSE f + 1]]
    ELSE load' = [load EXCEPT ![l].pc = "raised"]

LoadManifest(l) ==
  /\ load[l].pc = "start"
  /\ Read(l, Manifest)
  /\ UNCHANGED <<disk, pub>>

LoadFile(l) ==
  /\ load[l].pc = "reading"
  /\ Read(l, load[l].next)
  /\ UNCHANGED <<disk, pub>>

\* Whoever wanted the services may build them again later.
LoadAgain(l) ==
  /\ load[l].pc = "raised"
  /\ load' = [load EXCEPT ![l] = [pc |-> "start", read |-> Unread, next |-> Manifest]]
  /\ UNCHANGED <<disk, pub>>

LoadStep(l) == LoadManifest(l) \/ LoadFile(l)

PubNext ==
  \/ \E p \in Publishers : PublishStep(p) \/ Abandon(p)
  \/ \E l \in Loaders : LoadStep(l) \/ LoadAgain(l)

PubSpec == PubInit /\ [][PubNext]_pubVars

-----------------------------------------------------------------------------
Contents == Bundles \cup {Absent, Torn}

PublisherStates ==
  [pc : {"start", "valid", "vacant", "open", "fill", "published", "rejected",
         "abandoned"},
   bundle : Bundles, next : 0..(Manifest + 1)]

\* The directory, the publishers and the loaders hold what the code can put there.
PubTypeOK ==
  /\ disk \in [made : BOOLEAN, file : [Files -> Contents]]
  /\ pub \in [Publishers -> PublisherStates]
  /\ load \in [Loaders -> [pc : {"start", "reading", "loaded", "raised"},
                           read : [Files -> Bundles \cup {Absent}], next : 1..Manifest]]

\* A snapshot a process works with is one valid bundle, whole: the manifest and
\* every record file come from the same publication, however loading interleaved
\* with publishing (CatalogSnapshot checks none of the hashes it reads).
LoadedWhole ==
  \A l \in Loaders : load[l].pc = "loaded" =>
    \E b \in Bundles : Valid(b) /\ load[l].read = [f \in Files |-> b]

\* What a reader can make of the directory.  Only a manifest makes it a snapshot.
Published ==
  IF disk.file[Manifest] \notin Bundles THEN Absent
  ELSE IF \E b \in Bundles : disk.file = [f \in Files |-> b]
         THEN disk.file[Manifest]
         ELSE Torn

Store == INSTANCE SnapshotStore WITH
           Acceptable <- {b \in Bundles : Valid(b)},
           Vacant <- Absent,
           snapshot <- Published

\* Publication implements the abstract store: the snapshot appears at once, with
\* its manifest, and is immutable from then on, whoever else publishes or dies.
ImplementsStore == Store!Spec
==============================================================================
