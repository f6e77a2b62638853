---------------------------- MODULE StartupProofs ----------------------------
(***************************************************************************)
(* From publication to service, for any number of processes, files and      *)
(* cards.  Publication is safe: the directory has at most one writer, who   *)
(* writes in order, the manifest last.  The search index is rebuilt and     *)
(* searched by many runtimes: what one tells of it is so, unless another one*)
(* has touched the index since.                                              *)
(***************************************************************************)
EXTENDS Startup, TLAPS

-----------------------------------------------------------------------------
(* Publication.                                                               *)

\* The one process whose mkdir succeeded.
Owner(p) == pub[p].next > 0

\* Where a publisher stands determines what it knows of its bundle and directory.
PublishersSound ==
  /\ \A p, q \in Publishers : Owner(p) /\ Owner(q) => p = q
  /\ \A p \in Publishers :
       /\ Owner(p) => disk.made /\ Valid(pub[p].bundle)
       /\ pub[p].pc \in {"start", "valid", "vacant"} => pub[p].next = 0
       /\ pub[p].pc \in {"valid", "vacant"} => Valid(pub[p].bundle)
       /\ pub[p].pc \in {"open", "fill"} => pub[p].next \in Files

\* The owner has written the files before the next one, and none after it.
WrittenInOrder ==
  /\ \A f \in Files : disk.file[f] # Absent => \E p \in Publishers : Owner(p)
  /\ \A p \in Publishers : Owner(p) =>
       \A f \in Files :
         /\ f < pub[p].next => disk.file[f] = pub[p].bundle
         /\ f = pub[p].next => disk.file[f] \in {Absent, Torn}
         /\ f > pub[p].next => disk.file[f] = Absent

\* A loader has read what is still there.
LoadersSound ==
  \A l \in Loaders : load[l].pc \in {"reading", "loaded"} =>
    /\ load[l].read[Manifest] \in Bundles
    /\ load[l].read[Manifest] = disk.file[Manifest]
    /\ load[l].next \in Files
    /\ \A f \in 1..NumFiles : load[l].pc = "loaded" \/ f < load[l].next =>
         load[l].read[f] = disk.file[f]

PubInv == PubTypeOK /\ PublishersSound /\ WrittenInOrder /\ LoadersSound

LEMMA FileNumbers ==
  /\ NumFiles \in Nat \ {0} /\ Manifest \in Nat /\ Manifest = NumFiles + 1
  /\ Files = 1..Manifest /\ Manifest \in Files
  /\ 1..NumFiles \subseteq Files
  /\ Absent \notin Bundles /\ Torn \notin Bundles /\ Absent # Torn
BY FileAssumption DEF Manifest, Files

\* With a manifest in place the directory is whole, and nobody writes any more.
LEMMA ManifestLast ==
  ASSUME PubInv, disk.file[Manifest] \in Bundles
  PROVE  /\ \E b \in Bundles : Valid(b) /\ \A f \in Files : disk.file[f] = b
         /\ \A p \in Publishers : pub[p].pc \notin {"open", "fill"}
<1>. USE FileNumbers
<1>1. PICK p \in Publishers : Owner(p)
  BY DEF PubInv, WrittenInOrder
<1>2. pub[p].next \in 0..(Manifest + 1) /\ pub[p].bundle \in Bundles
  BY DEF PubInv, PubTypeOK, PublisherStates
<1>3. pub[p].next = Manifest + 1
  <2>1. ~ (Manifest >= pub[p].next)
    BY <1>1, <1>2 DEF PubInv, WrittenInOrder
  <2>. QED BY <2>1, <1>2
<1>4. \A f \in Files : disk.file[f] = pub[p].bundle
  BY <1>1, <1>3 DEF PubInv, WrittenInOrder
<1>5. Valid(pub[p].bundle)
  BY <1>1 DEF PubInv, PublishersSound
<1>6. ASSUME NEW q \in Publishers, pub[q].pc \in {"open", "fill"} PROVE FALSE
  <2>1. pub[q].next \in Files BY <1>6 DEF PubInv, PublishersSound
  <2>2. Owner(q) BY <2>1 DEF Owner
  <2>. QED BY <1>1, <1>3, <2>1, <2>2 DEF PubInv, PublishersSound
<1>. QED BY <1>2, <1>4, <1>5, <1>6

LEMMA PubInitial == PubInit => PubInv
<1>. SUFFICES ASSUME PubInit PROVE PubInv OBVIOUS
<1>. USE FileNumbers DEF PubInit
<1>1. PubTypeOK BY DEF PubTypeOK, PublisherStates, Unread, Contents
<1>2. PublishersSound BY DEF PublishersSound, Owner
<1>3. WrittenInOrder BY DEF WrittenInOrder, Owner, Unread
<1>4. LoadersSound BY DEF LoadersSound
<1>. QED BY <1>1, <1>2, <1>3, <1>4 DEF PubInv

-----------------------------------------------------------------------------
(* Steps of a publisher that leave the directory alone.                      *)

LEMMA PublisherChecks ==
  ASSUME PubInv, NEW p \in Publishers,
         BuildRecords(p) \/ CheckTarget(p) \/ Abandon(p) \/ (MakeTarget(p) /\ disk.made)
  PROVE  PubInv'
<1>. USE FileNumbers
<1>. DEFINE outcomes == {"valid", "rejected", "vacant", "abandoned"}
<1>0. PICK pc \in outcomes :
        /\ PubGoes(p, pc)
        /\ pc = "valid" => pub[p].pc = "start" /\ Valid(pub[p].bundle)
        /\ pc = "vacant" => pub[p].pc = "valid"
  <2>1. CASE BuildRecords(p) BY <2>1, Zenon DEF BuildRecords
  <2>2. CASE CheckTarget(p) BY <2>2, Zenon DEF CheckTarget
  <2>3. CASE Abandon(p) BY <2>3 DEF Abandon
  <2>4. CASE MakeTarget(p) /\ disk.made BY <2>4, Zenon DEF MakeTarget
  <2>. QED BY <2>1, <2>2, <2>3, <2>4
<1>. UNCHANGED <<disk, load>> BY Zenon DEF BuildRecords, CheckTarget, Abandon, MakeTarget
<1>1. PubTypeOK'
  <2>1. pub \in [Publishers -> PublisherStates]
    BY DEF PubInv, PubTypeOK
  <2>2. pub' \in [Publishers -> PublisherStates]
    BY <1>0, <2>1 DEF PubGoes, PublisherStates
  <2>. QED BY <2>2 DEF PubInv, PubTypeOK
<1>2. /\ \A q \in Publishers : pub'[q].next = pub[q].next /\ pub'[q].bundle = pub[q].bundle
      /\ \A q \in Publishers : q # p => pub'[q] = pub[q]
      /\ pub'[p].pc = pc
  BY <1>0 DEF PubInv, PubTypeOK, PublisherStates, PubGoes
<1>3. PublishersSound'
  <2>1. \A q \in Publishers : Owner(q)' <=> Owner(q) BY <1>2 DEF Owner
  <2>2. \A q \in Publishers : Valid(pub[q].bundle)' <=> Valid(pub[q].bundle)
    BY <1>2 DEF Valid
  <2>. QED BY <1>0, <1>2, <2>1, <2>2 DEF PubInv, PublishersSound
<1>4. WrittenInOrder'
  <2>1. \A q \in Publishers : Owner(q)' <=> Owner(q) BY <1>2 DEF Owner
  <2>. QED BY <1>2, <2>1 DEF PubInv, WrittenInOrder
<1>5. LoadersSound' BY <1>2 DEF PubInv, LoadersSound
<1>. QED BY <1>1, <1>3, <1>4, <1>5 DEF PubInv

-----------------------------------------------------------------------------
(* Steps of a publisher that write.                                          *)

\* While somebody writes there is no manifest, and no loader past it.
LEMMA NoReaders ==
  ASSUME PubInv, disk.file[Manifest] \notin Bundles, UNCHANGED load
  PROVE  LoadersSound'
BY DEF PubInv, LoadersSound

LEMMA TargetMade ==
  ASSUME PubInv, NEW p \in Publishers, MakeTarget(p), ~disk.made
  PROVE  PubInv'
<1>. USE FileNumbers
<1>0. /\ pub[p].pc = "vacant" /\ UNCHANGED load
      /\ pub' = [pub EXCEPT ![p].pc = "open", ![p].next = 1]
      /\ disk' = [disk EXCEPT !.made = TRUE]
  BY Zenon DEF MakeTarget
<1>1. \A q \in Publishers : ~Owner(q) BY DEF PubInv, PublishersSound
<1>2. \A f \in Files : disk.file[f] = Absent BY <1>1 DEF PubInv, WrittenInOrder
<1>3. disk' \in [made : BOOLEAN, file : [Files -> Contents]] /\ disk'.made /\ disk'.file = disk.file
  BY <1>0 DEF PubInv, PubTypeOK
<1>t. pub \in [Publishers -> PublisherStates] BY DEF PubInv, PubTypeOK
<1>4. /\ pub' \in [Publishers -> PublisherStates]
      /\ pub'[p].pc = "open" /\ pub'[p].next = 1 /\ pub'[p].bundle = pub[p].bundle
      /\ \A q \in Publishers : q # p => pub'[q] = pub[q]
  <2>1. 1 \in 0..(Manifest + 1) OBVIOUS
  <2>2. [pub[p] EXCEPT !.pc = "open", !.next = 1] \in PublisherStates
    BY <2>1, <1>t DEF PublisherStates
  <2>3. pub' = [pub EXCEPT ![p] = [pub[p] EXCEPT !.pc = "open", !.next = 1]]
    BY <1>0, <1>t
  <2>4. pub' \in [Publishers -> PublisherStates] BY <2>2, <2>3, <1>t
  <2>5. pub'[p] = [pub[p] EXCEPT !.pc = "open", !.next = 1] BY <2>3, <1>t
  <2>6. \A q \in Publishers : q # p => pub'[q] = pub[q] BY <2>3, <1>t
  <2>. QED BY <2>4, <2>5, <2>6, <1>t DEF PublisherStates
<1>5. PubTypeOK' BY <1>0, <1>3, <1>4 DEF PubInv, PubTypeOK
<1>6. \A q \in Publishers : Owner(q)' <=> q = p BY <1>1, <1>4 DEF Owner
<1>7. Valid(pub[p].bundle) BY <1>0 DEF PubInv, PublishersSound
<1>8. PublishersSound'
  <2>1. \A q \in Publishers : Valid(pub[q].bundle)' <=> Valid(pub[q].bundle)
    BY <1>4 DEF Valid
  <2>. QED BY <1>3, <1>4, <1>6, <1>7, <2>1 DEF PubInv, PublishersSound
<1>9. WrittenInOrder'
  BY <1>2, <1>3, <1>4, <1>6 DEF WrittenInOrder
<1>10. LoadersSound' BY <1>0, <1>2, NoReaders
<1>. QED BY <1>5, <1>8, <1>9, <1>10 DEF PubInv

LEMMA FileOpened ==
  ASSUME PubInv, NEW p \in Publishers, OpenFile(p)
  PROVE  PubInv'
<1>. USE FileNumbers
<1>. DEFINE n == pub[p].next
<1>0. /\ pub[p].pc = "open" /\ UNCHANGED load
      /\ pub' = [pub EXCEPT ![p].pc = "fill"]
      /\ disk' = [disk EXCEPT !.file[n] = Torn]
  BY DEF OpenFile, PubGoes, Target
<1>1. n \in Files /\ Owner(p) BY <1>0 DEF PubInv, PublishersSound, Owner
<1>2. disk.file[Manifest] \notin Bundles BY <1>0, ManifestLast
<1>3. /\ disk' \in [made : BOOLEAN, file : [Files -> Contents]] /\ disk'.made = disk.made
      /\ disk'.file[n] = Torn
      /\ \A f \in Files : f # n => disk'.file[f] = disk.file[f]
  BY <1>0, <1>1 DEF PubInv, PubTypeOK, Contents
<1>t. pub \in [Publishers -> PublisherStates] BY DEF PubInv, PubTypeOK
<1>4. /\ pub' \in [Publishers -> PublisherStates]
      /\ pub'[p].pc = "fill"
      /\ \A q \in Publishers : pub'[q].bundle = pub[q].bundle /\ pub'[q].next = pub[q].next
      /\ \A q \in Publishers : q # p => pub'[q] = pub[q]
  BY <1>0, <1>t DEF PublisherStates
<1>5. PubTypeOK' BY <1>0, <1>3, <1>4 DEF PubInv, PubTypeOK
<1>6. \A q \in Publishers : Owner(q)' <=> Owner(q) BY <1>4 DEF Owner
<1>7. \A q \in Publishers : Valid(pub[q].bundle)' <=> Valid(pub[q].bundle)
  BY <1>4 DEF Valid
<1>8. PublishersSound'
  BY <1>1, <1>3, <1>4, <1>6, <1>7 DEF PubInv, PublishersSound
<1>9. WrittenInOrder'
  <2>1. \A q \in Publishers : Owner(q) => q = p BY <1>1 DEF PubInv, PublishersSound
  <2>2. \A f \in Files : /\ f < n => disk.file[f] = pub[p].bundle
                         /\ f > n => disk.file[f] = Absent
    BY <1>1 DEF PubInv, WrittenInOrder
  <2>3. \A q \in Publishers : Owner(q)' => q = p BY <1>6, <2>1
  <2>4. \A f \in Files :
          /\ f < pub'[p].next => disk'.file[f] = pub'[p].bundle
          /\ f = pub'[p].next => disk'.file[f] \in {Absent, Torn}
          /\ f > pub'[p].next => disk'.file[f] = Absent
    BY <1>1, <1>3, <1>4, <2>2
  <2>5. Owner(p)' BY <1>1, <1>6
  <2>. QED BY <2>3, <2>4, <2>5 DEF WrittenInOrder
<1>10. LoadersSound' BY <1>0, <1>2, NoReaders
<1>. QED BY <1>5, <1>8, <1>9, <1>10 DEF PubInv

LEMMA FileFilled ==
  ASSUME PubInv, NEW p \in Publishers, FillFile(p)
  PROVE  PubInv'
<1>. USE FileNumbers
<1>. DEFINE n == pub[p].next
<1>0. /\ pub[p].pc = "fill" /\ UNCHANGED load
      /\ pub' = [pub EXCEPT ![p].next = @ + 1,
                            ![p].pc = IF n = Manifest THEN "published" ELSE "open"]
      /\ disk' = [disk EXCEPT !.file[n] = pub[p].bundle]
  BY DEF FillFile, Target
<1>1. n \in Files /\ Owner(p) BY <1>0 DEF PubInv, PublishersSound, Owner
<1>2. disk.file[Manifest] \notin Bundles BY <1>0, ManifestLast
<1>b. pub[p].bundle \in Bundles BY DEF PubInv, PubTypeOK, PublisherStates
<1>3. /\ disk' \in [made : BOOLEAN, file : [Files -> Contents]] /\ disk'.made = disk.made
      /\ disk'.file[n] = pub[p].bundle
      /\ \A f \in Files : f # n => disk'.file[f] = disk.file[f]
  BY <1>0, <1>1, <1>b DEF PubInv, PubTypeOK, Contents
<1>t. pub \in [Publishers -> PublisherStates] BY DEF PubInv, PubTypeOK
<1>4. /\ pub' \in [Publishers -> PublisherStates]
      /\ pub'[p].pc = (IF n = Manifest THEN "published" ELSE "open")
      /\ pub'[p].next = n + 1
      /\ \A q \in Publishers : pub'[q].bundle = pub[q].bundle
      /\ \A q \in Publishers : q # p => pub'[q] = pub[q]
  BY <1>0, <1>1, <1>t DEF PublisherStates
<1>5. PubTypeOK' BY <1>0, <1>3, <1>4 DEF PubInv, PubTypeOK
<1>6. \A q \in Publishers : Owner(q)' <=> Owner(q) BY <1>1, <1>4 DEF Owner
<1>7. \A q \in Publishers : Valid(pub[q].bundle)' <=> Valid(pub[q].bundle)
  BY <1>4 DEF Valid
<1>n. n \in Nat /\ n <= Manifest /\ (n # Manifest => n + 1 \in Files) BY <1>1
<1>8. PublishersSound'
  <2>1. \A q \in Publishers : Owner(q) => q = p BY <1>1 DEF PubInv, PublishersSound
  <2>2. pub'[p].pc \in {"open", "published"}
    BY <1>4
  <2>3. pub'[p].pc = "open" => pub'[p].next \in Files
    BY <1>4, <1>n
  <2>. QED BY <1>1, <1>3, <1>4, <1>6, <1>7, <2>1, <2>2, <2>3 DEF PubInv, PublishersSound
<1>9. WrittenInOrder'
  <2>1. \A q \in Publishers : Owner(q) => q = p BY <1>1 DEF PubInv, PublishersSound
  <2>2. \A f \in Files : /\ f < n => disk.file[f] = pub[p].bundle
                         /\ f > n => disk.file[f] = Absent
    BY <1>1 DEF PubInv, WrittenInOrder
  <2>3. \A f \in Files : /\ f < n + 1 => disk'.file[f] = pub'[p].bundle
                         /\ f >= n + 1 => disk'.file[f] = Absent
    <3>. TAKE f \in Files
    <3>1. f < n \/ f = n \/ f > n BY <1>n
    <3>2. CASE f < n BY <3>2, <2>2, <1>3, <1>4, <1>n
    <3>3. CASE f = n BY <3>3, <1>3, <1>4, <1>n
    <3>4. CASE f > n BY <3>4, <2>2, <1>3, <1>4, <1>n
    <3>. QED BY <3>1, <3>2, <3>3, <3>4
  <2>4. \A q \in Publishers : Owner(q)' => q = p BY <1>6, <2>1
  <2>5. \A f \in Files :
          /\ f < pub'[p].next => disk'.file[f] = pub'[p].bundle
          /\ f = pub'[p].next => disk'.file[f] \in {Absent, Torn}
          /\ f > pub'[p].next => disk'.file[f] = Absent
    BY <1>4, <1>n, <2>3
  <2>6. Owner(p)' BY <1>1, <1>6
  <2>. QED BY <2>4, <2>5, <2>6 DEF WrittenInOrder
<1>10. LoadersSound' BY <1>0, <1>2, NoReaders
<1>. QED BY <1>5, <1>8, <1>9, <1>10 DEF PubInv

-----------------------------------------------------------------------------
(* Steps of a loader, which leave the directory and the publishers alone.    *)

LoaderStates ==
  [pc : {"start", "reading", "loaded", "raised"},
   read : [Files -> Bundles \cup {Absent}], next : 1..Manifest]

\* What LoadersSound says of one loader.
SoundWith(now) ==
  now.pc \in {"reading", "loaded"} =>
    /\ now.read[Manifest] \in Bundles
    /\ now.read[Manifest] = disk.file[Manifest]
    /\ now.next \in Files
    /\ \A f \in 1..NumFiles : now.pc = "loaded" \/ f < now.next =>
         now.read[f] = disk.file[f]

LEMMA OneLoader ==
  ASSUME PubInv, UNCHANGED <<disk, pub>>, NEW l \in Loaders, NEW now \in LoaderStates,
         load' = [load EXCEPT ![l] = now], SoundWith(now)
  PROVE  PubInv'
<1>. USE FileNumbers
<1>1. load \in [Loaders -> LoaderStates] BY DEF PubInv, PubTypeOK, LoaderStates
<1>2. load' \in [Loaders -> LoaderStates] BY <1>1
<1>3. PubTypeOK' BY <1>2 DEF PubInv, PubTypeOK, LoaderStates
<1>4. PublishersSound' BY DEF PubInv, PublishersSound, Owner, Valid
<1>5. WrittenInOrder' BY DEF PubInv, WrittenInOrder, Owner
<1>6. load'[l] = now /\ \A k \in Loaders : k # l => load'[k] = load[k] BY <1>1
<1>7. LoadersSound'
  <2>1. \A k \in Loaders : SoundWith(load[k]) BY DEF PubInv, LoadersSound, SoundWith
  <2>2. \A k \in Loaders : SoundWith(load'[k]) BY <1>6, <2>1
  <2>3. UNCHANGED disk OBVIOUS
  <2>. QED BY <2>2, <2>3 DEF LoadersSound, SoundWith
<1>. QED BY <1>3, <1>4, <1>5, <1>7 DEF PubInv

LEMMA FileRead ==
  ASSUME PubInv, UNCHANGED <<disk, pub>>, NEW l \in Loaders, NEW f \in Files, Read(l, f),
         \/ f = Manifest
         \/ load[l].pc = "reading" /\ f = load[l].next /\ f \in 1..NumFiles
  PROVE  PubInv'
<1>. USE FileNumbers
<1>1. load \in [Loaders -> LoaderStates] BY DEF PubInv, PubTypeOK, LoaderStates
<1>2. CASE ~Readable(f)
  <2>. DEFINE now == [load[l] EXCEPT !.pc = "raised"]
  <2>1. load' = [load EXCEPT ![l] = now] BY <1>1, <1>2 DEF Read
  <2>2. now \in LoaderStates /\ now.pc = "raised" BY <1>1 DEF LoaderStates
  <2>3. SoundWith(now) BY <2>2 DEF SoundWith
  <2>. QED BY <2>1, <2>2, <2>3, OneLoader
<1>3. CASE Readable(f)
  <2>. DEFINE pc == IF f = NumFiles THEN "loaded" ELSE "reading"
              next == IF f = Manifest THEN 1 ELSE f + 1
              now == [pc |-> pc, read |-> [load[l].read EXCEPT ![f] = disk.file[f]],
                      next |-> next]
  <2>1. disk.file[f] \in Bundles BY <1>3 DEF Readable
  <2>3. load' = [load EXCEPT ![l] = now] BY <1>3, Zenon DEF Read
  <2>4. load[l].read \in [Files -> Bundles \cup {Absent}] BY <1>1 DEF LoaderStates
  <2>5. next \in 1..Manifest /\ pc \in {"reading", "loaded"} OBVIOUS
  <2>6. now.read \in [Files -> Bundles \cup {Absent}] BY <2>1, <2>4
  <2>7. now \in LoaderStates BY <2>5, <2>6 DEF LoaderStates
  <2>8. SoundWith(now)
    <3>1. now.read[Manifest] \in Bundles /\ now.read[Manifest] = disk.file[Manifest]
      <4>1. CASE f = Manifest BY <4>1, <2>1, <2>4
      <4>2. CASE f # Manifest BY <4>2, <2>4 DEF PubInv, LoadersSound
      <4>. QED BY <4>1, <4>2
    <3>2. ASSUME NEW g \in 1..NumFiles, pc = "loaded" \/ g < next
          PROVE  now.read[g] = disk.file[g]
      <4>1. f # Manifest BY <3>2
      <4>2. load[l].pc = "reading" /\ f = load[l].next BY <4>1
      <4>3. g <= f BY <3>2, <4>1
      <4>4. g < f => load[l].read[g] = disk.file[g] BY <4>2 DEF PubInv, LoadersSound
      <4>. QED BY <4>3, <4>4, <2>4
    <3>. QED BY <2>5, <3>1, <3>2 DEF SoundWith
  <2>. HIDE DEF now
  <2>. QED BY <2>3, <2>7, <2>8, OneLoader
<1>. QED BY <1>2, <1>3

LEMMA LoaderReads ==
  ASSUME PubInv, NEW l \in Loaders, LoadStep(l) \/ LoadAgain(l)
  PROVE  PubInv'
<1>. USE FileNumbers
<1>. UNCHANGED <<disk, pub>> BY DEF LoadStep, LoadManifest, LoadFile, LoadAgain
<1>1. CASE LoadManifest(l) BY <1>1, FileRead DEF LoadManifest
<1>2. CASE LoadFile(l)
  <2>1. load[l].pc = "reading" /\ Read(l, load[l].next) BY <1>2 DEF LoadFile
  <2>2. load[l].next \in Files BY <2>1 DEF PubInv, LoadersSound
  <2>. QED BY <2>1, <2>2, FileRead
<1>3. CASE LoadAgain(l)
  <2>. DEFINE now == [pc |-> "start", read |-> Unread, next |-> Manifest]
  <2>1. now \in LoaderStates BY DEF LoaderStates, Unread
  <2>2. load' = [load EXCEPT ![l] = now] BY <1>3 DEF LoadAgain
  <2>3. SoundWith(now) BY DEF SoundWith
  <2>. QED BY <2>1, <2>2, <2>3, OneLoader
<1>. QED BY <1>1, <1>2, <1>3 DEF LoadStep

-----------------------------------------------------------------------------
(* The theorems.                                                             *)

LEMMA PubStep ==
  ASSUME PubInv, [PubNext]_pubVars
  PROVE  PubInv'
<1>1. CASE UNCHANGED pubVars
  BY <1>1 DEF pubVars, PubInv, PubTypeOK, PublishersSound, WrittenInOrder, LoadersSound,
              Owner, Valid
<1>2. ASSUME NEW p \in Publishers, PublishStep(p) \/ Abandon(p) PROVE PubInv'
  <2>1. CASE BuildRecords(p) BY <2>1, PublisherChecks
  <2>5. CASE CheckTarget(p) BY <2>5, PublisherChecks
  <2>6. CASE Abandon(p) BY <2>6, PublisherChecks
  <2>2. CASE MakeTarget(p) BY <2>2, TargetMade, PublisherChecks
  <2>3. CASE OpenFile(p) BY <2>3, FileOpened
  <2>4. CASE FillFile(p) BY <2>4, FileFilled
  <2>. QED BY <1>2, <2>1, <2>2, <2>3, <2>4, <2>5, <2>6 DEF PublishStep
<1>3. ASSUME NEW l \in Loaders, LoadStep(l) \/ LoadAgain(l) PROVE PubInv'
  BY <1>3, LoaderReads
<1>. QED BY <1>1, <1>2, <1>3 DEF PubNext

LEMMA PubInvariant == PubSpec => []PubInv
BY PubInitial, PubStep, PTL DEF PubSpec

\* Every reachable directory, publisher and loader is well typed.
THEOREM PublicationTypes == PubSpec => []PubTypeOK
BY PubInvariant, PTL DEF PubInv

\* A loaded snapshot is one valid bundle, whole, whatever races it.
THEOREM WholeSnapshotsOnly == PubSpec => []LoadedWhole
<1>1. PubInv => LoadedWhole
  <2>. SUFFICES ASSUME PubInv, NEW l \in Loaders, load[l].pc = "loaded"
                PROVE  \E b \in Bundles : Valid(b) /\ load[l].read = [f \in Files |-> b]
    BY DEF LoadedWhole
  <2>1. /\ disk.file[Manifest] \in Bundles /\ load[l].read[Manifest] = disk.file[Manifest]
        /\ \A f \in 1..NumFiles : load[l].read[f] = disk.file[f]
    BY DEF PubInv, LoadersSound
  <2>2. PICK b \in Bundles : Valid(b) /\ \A f \in Files : disk.file[f] = b
    BY <2>1, ManifestLast
  <2>3. load[l].read \in [Files -> Bundles \cup {Absent}] BY DEF PubInv, PubTypeOK
  <2>4. \A f \in Files : load[l].read[f] = b
    BY <2>1, <2>2, FileNumbers
  <2>. QED BY <2>2, <2>3, <2>4
<1>. QED BY <1>1, PubInvariant, PTL

\* With a manifest, what is published is a valid bundle and no step changes it.
LEMMA PublishedForEver ==
  ASSUME PubInv, [PubNext]_pubVars, disk.file[Manifest] \in Bundles
  PROVE  UNCHANGED disk
<1>1. \A p \in Publishers : pub[p].pc \notin {"open", "fill"} BY ManifestLast
<1>2. disk.made
  <2>1. \E p \in Publishers : Owner(p) BY FileNumbers DEF PubInv, WrittenInOrder
  <2>. QED BY <2>1 DEF PubInv, PublishersSound
<1>3. ASSUME NEW p \in Publishers, PublishStep(p) \/ Abandon(p) PROVE UNCHANGED disk
  BY <1>1, <1>2, <1>3, Zenon
     DEF PublishStep, BuildRecords, CheckTarget, MakeTarget, OpenFile, FillFile, Abandon
<1>4. ASSUME NEW l \in Loaders, LoadStep(l) \/ LoadAgain(l) PROVE UNCHANGED disk
  BY <1>4 DEF LoadStep, LoadManifest, LoadFile, LoadAgain
<1>. QED BY <1>3, <1>4 DEF PubNext, pubVars

LEMMA PublishedWhole ==
  ASSUME PubInv
  PROVE  IF disk.file[Manifest] \in Bundles
           THEN Published \in Bundles /\ Valid(Published)
           ELSE Published = Absent
<1>1. CASE disk.file[Manifest] \in Bundles
  <2>1. PICK b \in Bundles : Valid(b) /\ \A f \in Files : disk.file[f] = b
    BY <1>1, ManifestLast
  <2>2. disk.file = [f \in Files |-> b] BY <2>1 DEF PubInv, PubTypeOK
  <2>3. Published = b BY <1>1, <2>1, <2>2, FileNumbers DEF Published
  <2>. QED BY <1>1, <2>1, <2>3
<1>2. CASE disk.file[Manifest] \notin Bundles BY <1>2 DEF Published
<1>. QED BY <1>1, <1>2

\* What a reader of a published directory may find.
Settled == Published = Absent \/ (Published \in Bundles /\ Valid(Published))

LEMMA PublishedSettled == PubInv => Settled
BY PublishedWhole DEF Settled

\* Publication implements the abstract store: absent, then one valid bundle for ever.
THEOREM StoreImplemented == PubSpec => ImplementsStore
<1>1. PubInit => Store!Init
  BY FileNumbers DEF PubInit, Unread, Store!Init, Published
<1>2. Settled' /\ PubInv /\ [PubNext]_pubVars => [Store!Publish]_Published
  <2>. SUFFICES ASSUME Settled', PubInv, [PubNext]_pubVars
                PROVE  Published' = Published \/ Store!Publish
    OBVIOUS
  <2>1. CASE disk.file[Manifest] \in Bundles
    BY <2>1, PublishedForEver DEF Published
  <2>2. CASE disk.file[Manifest] \notin Bundles
    <3>1. Published = Absent BY <2>2, PublishedWhole
    <3>2. Published' = Absent \/ (Published' \in Bundles /\ Valid(Published'))
      BY DEF Settled, Valid
    <3>. QED BY <3>1, <3>2 DEF Store!Publish
  <2>. QED BY <2>1, <2>2
<1>3. PubSpec => []Settled BY PubInvariant, PublishedSettled, PTL
<1>. QED BY <1>1, <1>2, <1>3, PubInvariant, PTL DEF PubSpec, ImplementsStore, Store!Spec

-----------------------------------------------------------------------------
(* The search index.  Its invariant: what holds of a runtime by itself, and   *)
(* what holds between it and the index while no other runtime touches that.   *)

\* A search knows of every fault it has met.
Faithful(now) ==
  /\ now.search.status # "failed"
  /\ now.search.status = "complete" <=> ~now.search.faulty
  /\ now.pc \notin {"vector", "fuse"} => now.search = Idle
  /\ now.outcome # None /\ now.outcome.status # "failed" =>
       (now.outcome.status = "complete" <=> ~now.outcome.faulty)

\* A card as the runtime exports it.
Exported(now) == IF now.embeds THEN "embedded" ELSE "plain"

\* The index is what the runtime declares, with every card in it.
Filled(now, idx) ==
  idx.mapping = "declared" /\ \A c \in Cards : idx.docs[c] = Exported(now)

\* Retired, the index stays away until it is created; cards are in it once their items
\* have succeeded, and in every list that met no fault.
Whole(now, idx) ==
  /\ now.pc \in {"retire", "delete", "publish", "create"} =>
       now.pending = Cards /\ ~now.failed
  /\ now.pc \in {"publish", "create"} => idx.mapping = "missing"
  /\ now.pc = "bulk" =>
       /\ idx.mapping = "declared"
       /\ \A c \in Cards \ now.pending : now.failed \/ idx.docs[c] = Exported(now)
  /\ now.pc \in {"ready", "count", "up", "keyword", "vector", "fuse"} => Filled(now, idx)
  /\ now.pc \in {"vector", "fuse"} /\ ~now.search.faulty =>
       Len(now.search.rankings) > 0 /\ now.search.rankings[1] = Cards
  /\ now.outcome # None /\ now.outcome.status = "complete" =>
       now.outcome.candidates = Admissible

IndexInv ==
  /\ IndexTypeOK
  /\ \A r \in Runtimes :
       Faithful(rt[r]) /\ (r \notin disturbed => Whole(rt[r], index))

LEMMA IndexInvInit == IndexInit => IndexInv
<1>. SUFFICES ASSUME IndexInit PROVE IndexInv
  OBVIOUS
<1>1. Idle \in Searches
  BY DEF Idle, Searches, Statuses
<1>2. IndexTypeOK
  <2>1. index \in IndexStates
    BY DEF IndexInit, NoIndex, IndexStates, Documents
  <2>. DEFINE off == [pc |-> "off", embeds |-> FALSE, pending |-> {}, failed |-> FALSE,
                      search |-> Idle, outcome |-> None]
  <2>2. off \in RuntimeStates
    BY <1>1 DEF RuntimeStates
  <2>3. rt \in [Runtimes -> RuntimeStates]
    <3>1. rt = [r \in Runtimes |-> off]
      BY DEF IndexInit
    <3>. HIDE DEF off
    <3>. QED BY <2>2, <3>1
  <2>4. builds \in 0..MaxBuilds /\ disturbed \subseteq Runtimes
    <3>1. builds = 0 /\ disturbed = {}
      BY DEF IndexInit
    <3>. QED BY <3>1, CardAssumption
  <2>. QED BY <2>1, <2>3, <2>4 DEF IndexTypeOK
<1>3. ASSUME NEW r \in Runtimes PROVE Faithful(rt[r]) /\ Whole(rt[r], index)
  BY DEF IndexInit, Faithful, Whole, Idle
<1>. QED BY <1>2, <1>3 DEF IndexInv

\* A step of one runtime.  The others may be disturbed by it.
LEMMA StepOfOne ==
  ASSUME IndexInv, NEW r \in Runtimes,
         rt' \in [Runtimes -> RuntimeStates],
         \A s \in Runtimes \ {r} : rt'[s] = rt[s],
         index' \in IndexStates, builds' \in 0..MaxBuilds, disturbed' \subseteq Runtimes,
         \A s \in Runtimes \ {r} : s \notin disturbed' => s \notin disturbed /\ index' = index,
         Faithful(rt'[r]),
         r \notin disturbed' => Whole(rt'[r], index')
  PROVE  IndexInv'
<1>1. IndexTypeOK'
  BY DEF IndexTypeOK
<1>2. ASSUME NEW s \in Runtimes
      PROVE  Faithful(rt'[s]) /\ (s \notin disturbed' => Whole(rt'[s], index'))
  <2>1. CASE s = r
    BY <2>1
  <2>2. CASE s # r
    <3>1. rt'[s] = rt[s] /\ (s \notin disturbed' => s \notin disturbed /\ index' = index)
      BY <2>2
    <3>. QED BY <3>1 DEF IndexInv
  <2>. QED BY <2>1, <2>2
<1>3. \A s \in Runtimes :
        (Faithful(rt[s]) /\ (s \notin disturbed => Whole(rt[s], index)))'
  BY <1>2 DEF Faithful, Whole, Filled, Idle
<1>. QED BY <1>1, <1>3 DEF IndexInv

\* A step of one runtime that touches nothing but its own variables.
LEMMA StepInside ==
  ASSUME IndexInv, NEW r \in Runtimes, NEW now \in RuntimeStates,
         rt' = [rt EXCEPT ![r] = now], UNCHANGED <<index, builds, disturbed>>,
         Faithful(now), r \notin disturbed => Whole(now, index)
  PROVE  IndexInv'
<1>1. rt' \in [Runtimes -> RuntimeStates] /\ rt'[r] = now
      /\ \A s \in Runtimes \ {r} : rt'[s] = rt[s]
  BY DEF IndexInv, IndexTypeOK
<1>. QED BY <1>1, StepOfOne DEF IndexInv, IndexTypeOK

-----------------------------------------------------------------------------
(* AppRuntime.build.                                                          *)

\* Only the program counter moves.
LEMMA GoesKeeps ==
  ASSUME IndexInv, NEW r \in Runtimes, NEW pc, Goes(r, pc), UNCHANGED <<index, builds, disturbed>>,
         [rt[r] EXCEPT !.pc = pc] \in RuntimeStates,
         Faithful([rt[r] EXCEPT !.pc = pc]),
         r \notin disturbed => Whole([rt[r] EXCEPT !.pc = pc], index)
  PROVE  IndexInv'
<1>1. rt' = [rt EXCEPT ![r] = [rt[r] EXCEPT !.pc = pc]]
  BY DEF Goes
<1>. QED BY <1>1, StepInside

\* A runtime moved to another place of its build, which says nothing new of it.
LEMMA MovedOn ==
  ASSUME IndexInv, NEW r \in Runtimes,
         rt[r].pc \notin {"vector", "fuse"},
         NEW pc \in Building \cup {"off", "up", "down", "keyword"}
  PROVE  LET now == [rt[r] EXCEPT !.pc = pc] IN
         /\ now \in RuntimeStates /\ now.pc = pc
         /\ now.embeds = rt[r].embeds /\ now.pending = rt[r].pending
         /\ now.failed = rt[r].failed /\ now.search = rt[r].search
         /\ now.outcome = rt[r].outcome
         /\ Faithful(now)
<1>. DEFINE now == [rt[r] EXCEPT !.pc = pc]
<1>1. rt[r] \in RuntimeStates /\ Faithful(rt[r])
  BY DEF IndexInv, IndexTypeOK
<1>2. now \in RuntimeStates /\ now.pc = pc
      /\ now.embeds = rt[r].embeds /\ now.pending = rt[r].pending
      /\ now.failed = rt[r].failed /\ now.search = rt[r].search
      /\ now.outcome = rt[r].outcome
  BY <1>1 DEF RuntimeStates
<1>3. Faithful(now)
  BY <1>1, <1>2 DEF Faithful
<1>. QED BY <1>2, <1>3

\* Nothing is asked of a runtime that is down.
LEMMA DownKeeps ==
  ASSUME IndexInv, NEW r \in Runtimes, rt[r].pc \in Building, Down(r),
         UNCHANGED <<index, builds, disturbed>>
  PROVE  IndexInv'
<1>. DEFINE now == [rt[r] EXCEPT !.pc = "down"]
<1>1. now \in RuntimeStates /\ Faithful(now) /\ now.pc = "down" /\ now.outcome = rt[r].outcome
  BY MovedOn DEF Building
<1>2. r \notin disturbed => Whole(now, index)
  BY <1>1 DEF IndexInv, Whole
<1>. QED BY <1>1, <1>2, GoesKeeps DEF Down

LEMMA ExportCardsKeeps ==
  ASSUME IndexInv, NEW r \in Runtimes, ExportCards(r)
  PROVE  IndexInv'
<1>. PICK embeds \in BOOLEAN, pc \in {"retire", "down"} :
       rt' = [rt EXCEPT ![r] = [pc |-> pc, embeds |-> embeds, pending |-> Cards,
                failed |-> FALSE, search |-> Idle, outcome |-> None]]
  BY DEF ExportCards
<1>. DEFINE now == [pc |-> pc, embeds |-> embeds, pending |-> Cards,
                    failed |-> FALSE, search |-> Idle, outcome |-> None]
<1>1. Idle \in Searches
  BY DEF Idle, Searches, Statuses
<1>2. now \in RuntimeStates
  BY <1>1 DEF RuntimeStates, Building
<1>3. Faithful(now) /\ Whole(now, index)
  BY DEF Faithful, Whole, Idle
<1>4. rt' \in [Runtimes -> RuntimeStates] /\ rt'[r] = now
      /\ \A s \in Runtimes \ {r} : rt'[s] = rt[s]
  BY <1>2 DEF IndexInv, IndexTypeOK
<1>5. builds' \in 0..MaxBuilds /\ disturbed' = disturbed \ {r} /\ index' = index
  BY CardAssumption DEF ExportCards, IndexInv, IndexTypeOK
<1>. QED BY <1>3, <1>4, <1>5, StepOfOne DEF IndexInv, IndexTypeOK

\* Retiring: the index goes, and with it what others have of it.
LEMMA RetireKeeps ==
  ASSUME IndexInv, NEW r \in Runtimes, RetireCheck(r) \/ RetireDelete(r)
  PROVE  IndexInv'
<1>. DEFINE to(pc) == [rt[r] EXCEPT !.pc = pc]
<1>1. CASE RetireCheck(r)
  <2>. PICK pc \in {"delete", "publish"} : Goes(r, pc) /\ (pc = "publish" => ~Exists)
    BY <1>1 DEF RetireCheck
  <2>1. /\ to(pc) \in RuntimeStates /\ Faithful(to(pc)) /\ to(pc).pc = pc
        /\ to(pc).pending = rt[r].pending /\ to(pc).failed = rt[r].failed
        /\ to(pc).outcome = rt[r].outcome /\ to(pc).embeds = rt[r].embeds
    BY <1>1, MovedOn DEF RetireCheck, Building
  <2>2. r \notin disturbed => Whole(to(pc), index)
    BY <1>1, <2>1 DEF RetireCheck, IndexInv, Whole, Exists, Exported
  <2>. QED BY <1>1, <2>1, <2>2, GoesKeeps DEF RetireCheck
<1>2. CASE RetireDelete(r) /\ Exists
  <2>1. /\ to("publish") \in RuntimeStates /\ Faithful(to("publish"))
        /\ to("publish").pc = "publish"
        /\ to("publish").pending = rt[r].pending /\ to("publish").failed = rt[r].failed
        /\ to("publish").outcome = rt[r].outcome /\ to("publish").embeds = rt[r].embeds
    BY <1>2, MovedOn DEF RetireDelete, Building
  <2>2. r \notin disturbed => Whole(to("publish"), index')
    BY <1>2, <2>1 DEF RetireDelete, IndexInv, Whole, NoIndex
  <2>3. rt' \in [Runtimes -> RuntimeStates] /\ rt'[r] = to("publish")
        /\ \A s \in Runtimes \ {r} : rt'[s] = rt[s]
    BY <1>2, <2>1 DEF RetireDelete, Goes, IndexInv, IndexTypeOK
  <2>4. /\ index' \in IndexStates
        /\ builds' \in 0..MaxBuilds /\ disturbed' = disturbed \cup (Runtimes \ {r})
    BY <1>2 DEF RetireDelete, Disturbs, IndexInv, IndexTypeOK, NoIndex, IndexStates, Documents
  <2>. QED BY <2>1, <2>2, <2>3, <2>4, StepOfOne DEF IndexInv, IndexTypeOK
<1>3. CASE RetireDelete(r) /\ ~Exists
  BY <1>3, DownKeeps DEF RetireDelete, Building
<1>. QED BY <1>1, <1>2, <1>3

LEMMA PublishKeeps ==
  ASSUME IndexInv, NEW r \in Runtimes, PublishCheck(r) \/ PublishCreate(r)
  PROVE  IndexInv'
<1>. DEFINE to(pc) == [rt[r] EXCEPT !.pc = pc]
<1>1. CASE PublishCheck(r)
  <2>. PICK pc \in {"bulk", "create"} : Goes(r, pc) /\ (pc = "bulk" <=> Exists)
    BY <1>1 DEF PublishCheck
  <2>1. /\ to(pc) \in RuntimeStates /\ Faithful(to(pc)) /\ to(pc).pc = pc
        /\ to(pc).pending = rt[r].pending /\ to(pc).failed = rt[r].failed
        /\ to(pc).outcome = rt[r].outcome /\ to(pc).embeds = rt[r].embeds
    BY <1>1, MovedOn DEF PublishCheck, Building
  <2>2. r \notin disturbed => Whole(to(pc), index)
    BY <1>1, <2>1 DEF PublishCheck, IndexInv, Whole, Exists
  <2>. QED BY <1>1, <2>1, <2>2, GoesKeeps DEF PublishCheck
<1>2. CASE PublishCreate(r) /\ ~Exists
  <2>1. /\ to("bulk") \in RuntimeStates /\ Faithful(to("bulk")) /\ to("bulk").pc = "bulk"
        /\ to("bulk").pending = rt[r].pending /\ to("bulk").failed = rt[r].failed
        /\ to("bulk").outcome = rt[r].outcome /\ to("bulk").embeds = rt[r].embeds
    BY <1>2, MovedOn DEF PublishCreate, Building
  <2>2. r \notin disturbed => Whole(to("bulk"), index')
    BY <1>2, <2>1 DEF PublishCreate, IndexInv, IndexTypeOK, IndexStates, Whole
  <2>3. rt' \in [Runtimes -> RuntimeStates] /\ rt'[r] = to("bulk")
        /\ \A s \in Runtimes \ {r} : rt'[s] = rt[s]
    BY <1>2, <2>1 DEF PublishCreate, Goes, IndexInv, IndexTypeOK
  <2>4. /\ index' \in IndexStates
        /\ builds' \in 0..MaxBuilds /\ disturbed' = disturbed \cup (Runtimes \ {r})
    BY <1>2 DEF PublishCreate, Disturbs, IndexInv, IndexTypeOK, IndexStates
  <2>. QED BY <2>1, <2>2, <2>3, <2>4, StepOfOne DEF IndexInv, IndexTypeOK
<1>3. CASE PublishCreate(r) /\ Exists
  BY <1>3, DownKeeps DEF PublishCreate, Building
<1>. QED BY <1>1, <1>2, <1>3

\* An item that succeeds puts its card into the index; one that fails is remembered.
LEMMA BulkItemKeeps ==
  ASSUME IndexInv, NEW r \in Runtimes, NEW c \in Cards, BulkItem(r, c)
  PROVE  IndexInv'
<1>1. rt[r] \in RuntimeStates /\ rt[r].pc = "bulk" /\ Faithful(rt[r])
      /\ (r \notin disturbed => Whole(rt[r], index)) /\ index \in IndexStates
  BY DEF BulkItem, IndexInv, IndexTypeOK
<1>2. CASE /\ rt' = [rt EXCEPT ![r].pending = @ \ {c}]
           /\ index' = [mapping |-> IF Exists THEN index.mapping ELSE "dynamic",
                        docs |-> [index.docs EXCEPT ![c] =
                                    IF rt[r].embeds THEN "embedded" ELSE "plain"]]
           /\ Disturbs(r)
  <2>. DEFINE now == [rt[r] EXCEPT !.pending = @ \ {c}]
  <2>1. now \in RuntimeStates /\ now.pc = "bulk" /\ now.pending = rt[r].pending \ {c}
        /\ now.failed = rt[r].failed /\ now.search = rt[r].search
        /\ now.outcome = rt[r].outcome
        /\ now.embeds = rt[r].embeds
    BY <1>1 DEF RuntimeStates
  <2>2. Faithful(now)
    BY <1>1, <2>1 DEF Faithful
  <2>3. index' \in IndexStates /\ index'.docs[c] = Exported(now)
        /\ (Exists => index'.mapping = index.mapping)
        /\ \A d \in Cards \ {c} : index'.docs[d] = index.docs[d]
    BY <1>1, <1>2, <2>1 DEF IndexStates, Documents, Exported
  <2>4. Exported(now) = Exported(rt[r])
    BY <2>1 DEF Exported
  <2>5. r \notin disturbed => Whole(now, index')
    <3>. HIDE DEF now
    <3>. QED BY <1>1, <2>1, <2>3, <2>4 DEF Whole, Exists
  <2>6. rt' \in [Runtimes -> RuntimeStates] /\ rt'[r] = now
        /\ \A s \in Runtimes \ {r} : rt'[s] = rt[s]
    BY <1>2, <2>1 DEF IndexInv, IndexTypeOK
  <2>7. builds' \in 0..MaxBuilds /\ disturbed' = disturbed \cup (Runtimes \ {r})
    BY <1>2 DEF Disturbs, IndexInv, IndexTypeOK
  <2>. QED BY <2>2, <2>3, <2>5, <2>6, <2>7, StepOfOne DEF IndexInv, IndexTypeOK
<1>3. CASE /\ rt' = [rt EXCEPT ![r].pending = @ \ {c}, ![r].failed = TRUE]
           /\ UNCHANGED <<index, builds, disturbed>>
  <2>. DEFINE now == [rt[r] EXCEPT !.pending = @ \ {c}, !.failed = TRUE]
  <2>1. now \in RuntimeStates /\ now.pc = "bulk" /\ now.failed = TRUE
        /\ now.search = rt[r].search /\ now.outcome = rt[r].outcome
    BY <1>1 DEF RuntimeStates
  <2>2. Faithful(now)
    BY <1>1, <2>1 DEF Faithful
  <2>3. r \notin disturbed => Whole(now, index)
    BY <1>1, <2>1 DEF Whole
  <2>4. rt' = [rt EXCEPT ![r] = now]
    BY <1>1, <1>3 DEF IndexInv, IndexTypeOK
  <2>. QED BY <1>3, <2>1, <2>2, <2>3, <2>4, StepInside
<1>. QED BY <1>2, <1>3 DEF BulkItem

\* Publishing returns, and the documents are counted.
LEMMA ReadyKeeps ==
  ASSUME IndexInv, NEW r \in Runtimes, BulkReturns(r) \/ ReadyCheck(r) \/ ReadyCount(r)
  PROVE  IndexInv'
<1>. DEFINE to(pc) == [rt[r] EXCEPT !.pc = pc]
<1>. PICK pc \in {"down", "ready", "count", "up"} : Goes(r, pc)
  BY DEF BulkReturns, ReadyCheck, ReadyCount, Unready
<1>1. rt[r].pc \in {"bulk", "ready", "count"} /\ UNCHANGED <<index, builds, disturbed>>
  BY DEF BulkReturns, ReadyCheck, ReadyCount
<1>2. /\ to(pc) \in RuntimeStates /\ Faithful(to(pc)) /\ to(pc).pc = pc
      /\ to(pc).pending = rt[r].pending /\ to(pc).failed = rt[r].failed
      /\ to(pc).outcome = rt[r].outcome /\ to(pc).embeds = rt[r].embeds
  BY <1>1, MovedOn DEF Building
<1>3. rt'[r].pc = pc
  BY DEF Goes, IndexInv, IndexTypeOK, RuntimeStates
<1>4. CASE pc = "down"
  BY <1>1, <1>4, DownKeeps DEF Down, Building
<1>5. CASE pc # "down"
  <2>1. ASSUME r \notin disturbed PROVE Filled(rt[r], index)
    <3>1. Whole(rt[r], index)
      BY <2>1 DEF IndexInv
    <3>2. CASE BulkReturns(r)
      <4>1. rt[r].pc = "bulk" /\ rt[r].pending = {} /\ ~rt[r].failed
        <5>1. rt[r].failed => rt'[r].pc = "down"
          BY <3>2 DEF BulkReturns, Goes, IndexInv, IndexTypeOK, RuntimeStates
        <5>. QED BY <1>3, <1>5, <3>2, <5>1 DEF BulkReturns
      <4>. QED BY <3>1, <4>1 DEF Whole, Filled
    <3>3. CASE ReadyCheck(r) \/ ReadyCount(r)
      BY <3>1, <3>3 DEF ReadyCheck, ReadyCount, Whole
    <3>. QED BY <3>2, <3>3
  <2>2. r \notin disturbed => Whole(to(pc), index)
    BY <1>1, <1>2, <1>5, <2>1 DEF IndexInv, Whole, Filled, Exported
  <2>. QED BY <1>1, <1>2, <2>2, GoesKeeps
<1>. QED BY <1>4, <1>5

-----------------------------------------------------------------------------
(* RetrievalService.search.                                                   *)

\* An outcome is that of the search, whose variables are gone.
LEMMA OutcomeKeeps ==
  ASSUME IndexInv, NEW r \in Runtimes, rt[r].pc \in {"up", "keyword", "vector", "fuse"},
         NEW status \in Statuses, NEW candidates \in SUBSET Cards,
         Outcome(r, status, candidates), UNCHANGED <<index, builds, disturbed>>,
         status \in {"failed", rt[r].search.status},
         r \notin disturbed /\ status = "complete" => candidates = Admissible
  PROVE  IndexInv'
<1>1. rt[r] \in RuntimeStates /\ Faithful(rt[r])
      /\ (r \notin disturbed => Whole(rt[r], index))
  BY DEF IndexInv, IndexTypeOK
<1>. DEFINE o == [status |-> status, candidates |-> candidates, faulty |-> rt[r].search.faulty]
            now == [rt[r] EXCEPT !.pc = "up", !.search = Idle, !.outcome = o]
<1>2. Idle \in Searches /\ Idle.status = "complete" /\ Idle.faulty = FALSE
  BY DEF Idle, Searches, Statuses
<1>3. o \in Outcomes
  BY <1>1 DEF Outcomes, RuntimeStates, Searches
<1>4. now \in RuntimeStates /\ now.pc = "up" /\ now.search = Idle /\ now.outcome = o
  <2>. HIDE DEF o
  <2>. QED BY <1>1, <1>2, <1>3 DEF RuntimeStates
<1>5. Faithful(now)
  BY <1>1, <1>2, <1>4 DEF Faithful
<1>6. r \notin disturbed => Whole(now, index)
  BY <1>1, <1>4 DEF Whole, Filled, Exported, RuntimeStates
<1>7. rt' = [rt EXCEPT ![r] = now]
  BY <1>1 DEF Outcome, IndexInv, IndexTypeOK
<1>. QED BY <1>4, <1>5, <1>6, <1>7, StepInside

LEMMA FailsKeeps ==
  ASSUME IndexInv, NEW r \in Runtimes, rt[r].pc \in {"up", "keyword", "vector", "fuse"},
         Fails(r), UNCHANGED <<index, builds, disturbed>>
  PROVE  IndexInv'
<1>1. "failed" \in Statuses /\ {} \in SUBSET Cards
  BY DEF Statuses
<1>. QED BY <1>1, OutcomeKeeps DEF Fails

LEMMA SearchBeginsKeeps ==
  ASSUME IndexInv, NEW r \in Runtimes, SearchBegins(r)
  PROVE  IndexInv'
<1>1. CASE Fails(r)
  BY <1>1, FailsKeeps DEF SearchBegins
<1>2. CASE rt' = [rt EXCEPT ![r].pc = "keyword", ![r].outcome = None]
  <2>1. rt[r] \in RuntimeStates /\ Faithful(rt[r]) /\ rt[r].pc = "up"
        /\ (r \notin disturbed => Whole(rt[r], index))
    BY DEF IndexInv, IndexTypeOK, SearchBegins
  <2>. DEFINE now == [rt[r] EXCEPT !.pc = "keyword", !.outcome = None]
  <2>2. now \in RuntimeStates /\ now.pc = "keyword" /\ now.search = rt[r].search
        /\ now.outcome = None
    BY <2>1 DEF RuntimeStates
  <2>3. Faithful(now) /\ (r \notin disturbed => Whole(now, index))
    BY <2>1, <2>2 DEF Faithful, Whole, Filled, Exported, RuntimeStates
  <2>4. rt' = [rt EXCEPT ![r] = now]
    BY <1>2, <2>1 DEF IndexInv, IndexTypeOK
  <2>. QED BY <2>2, <2>3, <2>4, StepInside DEF SearchBegins
<1>. QED BY <1>1, <1>2 DEF SearchBegins

\* A query answers: the first without a fault finds every card there is.
LEMMA SearchAnswersKeeps ==
  ASSUME IndexInv, NEW r \in Runtimes, rt[r].pc \in {"keyword", "vector"},
         UNCHANGED <<index, builds, disturbed>>,
         NEW timed_out \in BOOLEAN, NEW shards_failed \in BOOLEAN,
         SearchAnswers(r, timed_out, shards_failed)
  PROVE  IndexInv'
<1>1. rt[r] \in RuntimeStates /\ Faithful(rt[r])
      /\ (r \notin disturbed => Whole(rt[r], index)) /\ index \in IndexStates
  BY DEF IndexInv, IndexTypeOK
<1>. DEFINE old == rt[r].search
<1>. PICK hits \in SUBSET Found(rt[r].pc) :
       /\ ~timed_out /\ ~shards_failed => hits = Found(rt[r].pc)
       /\ rt' = [rt EXCEPT
            ![r].pc = IF @ = "keyword" /\ rt[r].embeds THEN "vector" ELSE "fuse",
            ![r].search = [rankings |-> Append(old.rankings, hits),
                           status |-> StatusAfter(old.status, timed_out, shards_failed),
                           faulty |-> old.faulty \/ timed_out \/ shards_failed]]
  BY DEF SearchAnswers
<1>. DEFINE pc == IF rt[r].pc = "keyword" /\ rt[r].embeds THEN "vector" ELSE "fuse"
            new == [rankings |-> Append(old.rankings, hits),
                    status |-> StatusAfter(old.status, timed_out, shards_failed),
                    faulty |-> old.faulty \/ timed_out \/ shards_failed]
            now == [rt[r] EXCEPT !.pc = pc, !.search = new]
<1>2. old \in Searches /\ old.status # "failed" /\ (old.status = "complete" <=> ~old.faulty)
  BY <1>1 DEF RuntimeStates, Faithful
<1>3. hits \subseteq Cards
  BY DEF Found
<1>4. new \in Searches
  <2>1. StatusAfter(old.status, timed_out, shards_failed) \in Statuses
    BY <1>2 DEF StatusAfter, Searches, Statuses
  <2>2. Append(old.rankings, hits) \in Seq(SUBSET Cards)
    BY <1>2, <1>3 DEF Searches
  <2>3. (old.faulty \/ timed_out \/ shards_failed) \in BOOLEAN
    OBVIOUS
  <2>. QED BY <2>1, <2>2, <2>3 DEF Searches
<1>5. new.status # "failed" /\ (new.status = "complete" <=> ~new.faulty)
  BY <1>2 DEF StatusAfter
<1>6. now \in RuntimeStates /\ now.pc = pc /\ now.search = new /\ now.outcome = rt[r].outcome
  <2>. HIDE DEF new
  <2>. QED BY <1>1, <1>4 DEF RuntimeStates
<1>7. Faithful(now)
  <2>. HIDE DEF new
  <2>. QED BY <1>1, <1>5, <1>6 DEF Faithful
<1>8. ASSUME r \notin disturbed PROVE Whole(now, index)
  <2>1. Whole(rt[r], index) /\ Filled(rt[r], index)
    BY <1>1, <1>8 DEF Whole
  <2>2. ASSUME ~new.faulty PROVE Len(new.rankings) > 0 /\ new.rankings[1] = Cards
    <3>1. ~old.faulty /\ hits = Found(rt[r].pc)
      BY <2>2
    <3>2. CASE rt[r].pc = "keyword"
      <4>1. Found("keyword") = Cards
        BY <1>1, <2>1 DEF Found, Filled, Exported, IndexStates, Documents
      <4>2. old.rankings = <<>>
        BY <1>1, <3>2 DEF Faithful, Idle
      <4>. QED BY <3>1, <3>2, <4>1, <4>2
    <3>3. CASE rt[r].pc = "vector"
      <4>1. Len(old.rankings) > 0 /\ old.rankings[1] = Cards
        BY <2>1, <3>1, <3>3 DEF Whole
      <4>. QED BY <1>2, <1>3, <4>1 DEF Searches
    <3>. QED BY <3>2, <3>3
  <2>. HIDE DEF new
  <2>. QED BY <1>6, <2>1, <2>2 DEF Whole, Filled, Exported
<1>9. rt' = [rt EXCEPT ![r] = now]
  BY <1>1 DEF IndexInv, IndexTypeOK
<1>. HIDE DEF now
<1>. QED BY <1>6, <1>7, <1>8, <1>9, StepInside

LEMMA SearchKeeps ==
  ASSUME IndexInv, NEW r \in Runtimes, Search(r)
  PROVE  IndexInv'
<1>1. CASE Raises(r)
  BY <1>1, FailsKeeps DEF Search, Raises
<1>2. CASE ~Raises(r)
  BY <1>2, SearchAnswersKeeps DEF Search
<1>. QED BY <1>1, <1>2

\* Fusing loses nothing that ranks in either list.
LEMMA AnswerKeeps ==
  ASSUME IndexInv, NEW r \in Runtimes, Answer(r)
  PROVE  IndexInv'
<1>1. rt[r] \in RuntimeStates /\ Faithful(rt[r]) /\ rt[r].pc = "fuse"
      /\ (r \notin disturbed => Whole(rt[r], index))
  BY DEF IndexInv, IndexTypeOK, Answer
<1>. DEFINE all == rt[r].search.rankings
<1>2. rt[r].search.status \in Statuses /\ all \in Seq(SUBSET Cards)
  BY <1>1 DEF RuntimeStates, Searches
<1>3. Fused(all) \subseteq Cards
  BY <1>2 DEF Fused
<1>4. ASSUME r \notin disturbed, rt[r].search.status = "complete"
      PROVE  Fused(all) \cap Admissible = Admissible
  <2>1. Len(all) > 0 /\ all[1] = Cards
    BY <1>1, <1>4 DEF Faithful, Whole
  <2>2. Cards \subseteq Fused(all)
    BY <1>2, <2>1 DEF Fused
  <2>. QED BY <2>2, CardAssumption
<1>. QED BY <1>1, <1>2, <1>3, <1>4, OutcomeKeeps DEF Answer

-----------------------------------------------------------------------------
(* Startup.                                                                   *)

LEMMA RebuildKeeps ==
  ASSUME IndexInv, NEW r \in Runtimes, Rebuild(r)
  PROVE  IndexInv'
<1>1. rt[r] \in RuntimeStates /\ Faithful(rt[r]) /\ rt[r].pc \in {"up", "down"}
      /\ (r \notin disturbed => Whole(rt[r], index))
  BY DEF IndexInv, IndexTypeOK, Rebuild
<1>. DEFINE now == [rt[r] EXCEPT !.pc = "off", !.outcome = None]
<1>2. now \in RuntimeStates /\ now.pc = "off" /\ now.search = rt[r].search
      /\ now.outcome = None
  BY <1>1 DEF RuntimeStates
<1>3. Faithful(now) /\ (r \notin disturbed => Whole(now, index))
  BY <1>1, <1>2 DEF Faithful, Whole
<1>4. rt' = [rt EXCEPT ![r] = now]
  BY <1>1 DEF Rebuild, IndexInv, IndexTypeOK
<1>. QED BY <1>2, <1>3, <1>4, StepInside DEF Rebuild

LEMMA IndexInvStep == IndexInv /\ [Next]_vars => IndexInv'
<1>. SUFFICES ASSUME IndexInv, [Next]_vars PROVE IndexInv'
  OBVIOUS
<1>1. CASE UNCHANGED indexVars
  BY <1>1
  DEF indexVars, IndexInv, IndexTypeOK, Faithful, Whole, Filled, Idle
<1>2. ASSUME NEW r \in Runtimes, Build(r) PROVE IndexInv'
  BY <1>2, ExportCardsKeeps, RetireKeeps, PublishKeeps, BulkItemKeeps, ReadyKeeps
  DEF Build, BuildStep
<1>3. ASSUME NEW r \in Runtimes, Unreachable(r) PROVE IndexInv'
  BY <1>3, DownKeeps DEF Unreachable
<1>4. ASSUME NEW r \in Runtimes, Rebuild(r) PROVE IndexInv'
  BY <1>4, RebuildKeeps
<1>5. ASSUME NEW r \in Runtimes, Serve(r) PROVE IndexInv'
  BY <1>5, SearchBeginsKeeps, SearchKeeps, AnswerKeeps DEF Serve, SearchStep
<1>. QED BY <1>1, <1>2, <1>3, <1>4, <1>5 DEF Next, PublicationStep, vars, indexVars

LEMMA IndexInvariant == Spec => []IndexInv
BY IndexInvInit, IndexInvStep, PTL DEF Spec, Init

-----------------------------------------------------------------------------
(* The theorems.                                                              *)

\* The index, and what every runtime keeps while it builds and searches, is well typed.
THEOREM IndexTypes == Spec => []IndexTypeOK
<1>1. IndexInv => IndexTypeOK
  BY DEF IndexInv
<1>. QED BY <1>1, IndexInvariant, PTL

\* Whatever fails first, and whoever touches the index: no search that met a timeout or
\* a failed shard is reported as complete.
THEOREM FaultsAlwaysReported == Spec => []FaultsReported
<1>1. IndexInv => FaultsReported
  BY DEF IndexInv, Faithful, FaultsReported
<1>. QED BY <1>1, IndexInvariant, PTL

\* For any set of cards and any number of runtimes: nothing is lost between publishing,
\* readiness, two queries and their fusion while no other runtime touches the index.
THEOREM CompleteMeansAll == Spec => []CompleteListsAll
<1>1. IndexInv => CompleteListsAll
  BY DEF IndexInv, Whole, CompleteListsAll
<1>. QED BY <1>1, IndexInvariant, PTL

\* For any cards and runtimes: whoever serves, undisturbed, searches its own projection.
THEOREM ProjectionServed == Spec => []ServesItsProjection
<1>1. IndexInv => ServesItsProjection
  BY DEF IndexInv, Whole, Filled, Exported, ServesItsProjection
<1>. QED BY <1>1, IndexInvariant, PTL
=============================================================================
