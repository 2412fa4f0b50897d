------------------------ MODULE LegacyImportProofs ------------------------
(***************************************************************************)
(* Theorems about LegacyImport, for any number of importers, handlers,     *)
(* runs, source files and changes of them: what is published is faithful   *)
(* to its source, and no step loses a manifest or an artifact.             *)
(*                                                                         *)
(* The argument has two parts.  The exclusive mkdir gives a run to one     *)
(* importer, so the files of a run are the ones its importer remembers.    *)
(* And a source file that has its first checksum at the end either was not *)
(* changed, so that it had it when it was hashed the second time and when  *)
(* it was copied, or changed back, which the history variable remembers.   *)
(***************************************************************************)
EXTENDS LegacyImport, WellFoundedInduction, TLAPS

(***************************************************************************)
(* The inductive invariant                                                 *)
(***************************************************************************)

ImporterSteps ==
    {"hash_sources", "hash_input", "reserve", "put_first", "clean_up",
     "read", "write", "link", "verify"}
SaveSteps == {"save", "replace"}
Steps == ImporterSteps \union SaveSteps \union {"idle", "mark", "returned", "error", "dead"}

TypeOK ==
    /\ owner \in [Runs -> Importers \union {None}]
    /\ manifest \in [Runs -> Manifests]
    /\ file \in [Runs -> References]
    /\ marker \in [Runs -> BOOLEAN]
    /\ source \in Versions
    /\ changes \in Nat
    /\ restored \in [Importers -> SUBSET Sources]
    /\ pc \in [Processes -> Steps]
    /\ at \in [Processes -> Runs \union {None}]
    /\ found \in [Importers -> SUBSET Sources]
    /\ sums \in [Importers -> Checksums]
    /\ content \in [Importers -> Contents \union {None}]
    /\ written \in [Importers -> References]
    /\ pending \in [Processes -> Manifests]
    /\ faults \in Nat
    /\ crashes \in Nat

\* A run without a directory has nothing in it.
Free == \A r \in Runs : owner[r] = None => ~ Exists(r) /\ file[r] = NoReferences

\* Importer p has found, hashed, and then reserved a run.
Chose(p) == pc[p] \in ImporterSteps \union SaveSteps
HasHashed(p) == Chose(p) /\ pc[p] # "hash_sources"
HasInput(p) == HasHashed(p) /\ pc[p] # "hash_input"
Holds(p) == HasInput(p) /\ pc[p] # "reserve"
Stored(p) == Holds(p) /\ pc[p] \notin {"put_first", "clean_up"}

\* The file has not been replaced since p hashed it.
Same(p, s) == s \notin restored[p] /\ source[s] = sums[p].source[s]

Hashes(p) ==
    /\ Chose(p) => Required \subseteq found[p]
    /\ HasHashed(p) =>
           \A s \in Sources : s \in found[p] <=> sums[p].source[s] # None
    /\ HasInput(p) =>
           \A s \in Sources :
               /\ s \notin found[p] => sums[p].input[s] = None
               /\ s \in found[p] /\ Same(p, s) => sums[p].input[s] = sums[p].source[s]

\* The run p works on is its own, and holds what p remembers.
Own(p) ==
    /\ ~ Holds(p) /\ pc[p] \notin {"error", "dead", "returned"} => written[p] = NoReferences
    /\ Holds(p) =>
           /\ at[p] \in Runs
           /\ owner[at[p]] = p
           /\ written[p] = file[at[p]]
           /\ ~ Stored(p) => ~ Exists(at[p]) /\ written[p] = NoReferences
           /\ Stored(p) =>
                  /\ Exists(at[p])
                  /\ manifest[at[p]].provenance = sums[p]
                  /\ manifest[at[p]].status \notin Published

\* Copies of files that were not replaced are copies of what was hashed.
Copies(p) ==
    Stored(p) =>
        /\ \A s \in Sources :
               /\ s \notin found[p] => written[p][s] = None
               /\ s \in found[p] /\ Same(p, s) /\ written[p][s] # None =>
                      written[p][s] = sums[p].source[s]
        /\ pc[p] \in {"write", "link"} /\ ToCopy(p) = {} => content[p] = Notice
        /\ pc[p] \in {"write", "link"} /\ ToCopy(p) # {} =>
               /\ content[p] # None
               /\ Same(p, NextCopy(p)) => content[p] = sums[p].source[NextCopy(p)]
        /\ pc[p] = "verify" => ToCopy(p) = {} /\ written[p][0] = Notice

\* What p is about to publish is complete and has the checksums of p.
Ready(p) ==
    pc[p] \in SaveSteps =>
        /\ pending[p].status \in {"running", "failed"} \union Published
        /\ pending[p].provenance = sums[p]
        /\ pending[p].status \in Published =>
               /\ pending[p].artifacts = written[p]
               /\ written[p][0] = Notice
               /\ \A s \in Sources : written[p][s] = None <=> sums[p].source[s] = None
               /\ \A s \in Sources \ restored[p] :
                      /\ written[p][s] = sums[p].source[s]
                      /\ sums[p].input[s] = sums[p].source[s]
               /\ pending[p].status = "partial" <=> found[p] # Sources

Imports(p) == Hashes(p) /\ Own(p) /\ Copies(p) /\ Ready(p)

\* A handler saves nothing but the cancellation of a run that exists.
Cancels(h) ==
    /\ pc[h] \in SaveSteps \union {"mark"} => at[h] \in Runs
    /\ pc[h] \in SaveSteps =>
           /\ Exists(at[h])
           /\ pending[h].status = "cancelled"
           /\ pending[h].provenance = manifest[at[h]].provenance

IInv ==
    /\ TypeOK /\ Free
    /\ \A p \in Importers : Imports(p)
    /\ \A h \in Handlers : Cancels(h)
    /\ ImportIsFaithful

(***************************************************************************)
(* Types                                                                   *)
(***************************************************************************)

LEMMA ManifestTypes ==
    /\ \A c \in Checksums : Absent(c) \in Manifests /\ Queued(c) \in Manifests
    /\ \A c \in Checksums : [Queued(c) EXCEPT !.status = "running"] \in Manifests
    /\ \A c \in Checksums :
           [status |-> "failed", provenance |-> c, artifacts |-> NoReferences] \in Manifests
    /\ \A m \in Manifests : m.status \notin Published =>
           [m EXCEPT !.status = "cancelled"] \in Manifests
<1>1. NoReferences \in References
  BY DEF NoReferences, References
<1>. QED  BY <1>1 DEF Manifests, Absent, Queued, Published, Terminal

LEMMA HashTypes ==
    /\ NoSums \in Checksums
    /\ \A p \in Importers : TypeOK => Hashed(p) \in Versions
    /\ \A v \in Versions, c \in Checksums :
           [c EXCEPT !.source = v] \in Checksums /\ [c EXCEPT !.input = v] \in Checksums
<1>1. NoSums \in Checksums
  BY ImportAssumption DEF NoSums, Versions
<1>2. \A p \in Importers : TypeOK => Hashed(p) \in Versions
  BY DEF Hashed, TypeOK, Versions
<1>3. ASSUME NEW v \in Versions, NEW c \in Checksums
      PROVE  [c EXCEPT !.source = v] \in Checksums /\ [c EXCEPT !.input = v] \in Checksums
  <2>1. /\ [c EXCEPT !.source = v] = [source |-> v, input |-> c.input]
        /\ [c EXCEPT !.input = v] = [source |-> c.source, input |-> v]
        /\ c.source \in Versions /\ c.input \in Versions
    BY ImportAssumption
  <2>. QED  BY <2>1, ImportAssumption
<1>. QED  BY <1>1, <1>2, <1>3, ImportAssumption

LEMMA LeastElement ==
    ASSUME NEW S \in SUBSET Nat, S # {}
    PROVE  \E s \in S : \A t \in S : s <= t
<1>1. PICK s \in S : \A t \in S : ~ (<<t, s>> \in OpToRel(<, Nat))
  BY NatLessThanWellFounded, WFMin
<1>2. ASSUME NEW t \in S
      PROVE  s <= t
  <2>1. t \in Nat /\ s \in Nat
    OBVIOUS
  <2>2. t < s => <<t, s>> \in OpToRel(<, Nat)
    BY <2>1, Zenon DEF OpToRel
  <2>3. ~ (t < s)
    BY <1>1, <2>2, Zenon
  <2>. QED  BY <2>1, <2>3
<1>. QED  BY <1>2

\* While a source is left to copy, the next one is one of those.
LEMMA NextIsToCopy ==
    ASSUME TypeOK, NEW p \in Importers
    PROVE  /\ ToCopy(p) \subseteq Sources
           /\ ToCopy(p) # {} => NextCopy(p) \in ToCopy(p)
           /\ NextArtifact(p) \in Artifacts
           /\ NextArtifact(p) = 0 <=> ToCopy(p) = {}
<1>1. ToCopy(p) \subseteq Sources /\ ToCopy(p) \in SUBSET Nat
  BY DEF ToCopy, TypeOK, Sources
<1>2. ASSUME ToCopy(p) # {} PROVE NextCopy(p) \in ToCopy(p)
  BY <1>1, <1>2, LeastElement DEF NextCopy
<1>. QED  BY <1>1, <1>2, ImportAssumption DEF NextArtifact, Sources

\* A run that an importer or a handler works on is a run.
LEMMA AtRun ==
    ASSUME IInv
    PROVE  /\ \A p \in Importers : Holds(p) => at[p] \in Runs
           /\ \A h \in Handlers : pc[h] \in SaveSteps \union {"mark"} => at[h] \in Runs
BY DEF IInv, Imports, Own, Cancels

LEMMA TypeStep ==
    ASSUME IInv, [Next]_vars
    PROVE  TypeOK'
<1>. USE DEF Frame, Stays, At, Goto, localVars, storeVars
<1>. TypeOK
  BY DEF IInv
<1>a. \A p \in Importers : Holds(p) => at[p] \in Runs
  BY AtRun
<1>b. Importers \subseteq Processes /\ Handlers \subseteq Processes
  BY DEF Processes
<1>1. ASSUME NEW s \in Sources, ChangeSource(s)
      PROVE  TypeOK'
  <2>1. source' \in Versions /\ changes' \in Nat
    BY <1>1 DEF ChangeSource, TypeOK, Versions
  <2>2. restored' \in [Importers -> SUBSET Sources]
    BY <1>1 DEF ChangeSource, TypeOK
  <2>. QED  BY <1>1, <2>1, <2>2 DEF ChangeSource, TypeOK
<1>2. ASSUME NEW p \in Processes, Crash(p)
      PROVE  TypeOK'
  BY <1>2 DEF Crash, TypeOK, Steps
<1>3. ASSUME NEW p \in Importers, Inspect(p)
      PROVE  TypeOK'
  BY <1>3, <1>b DEF Inspect, FoundNow, TypeOK, Steps, ImporterSteps
<1>4. ASSUME NEW p \in Importers, HashSources(p) \/ HashInput(p)
      PROVE  TypeOK'
  <2>1. /\ [sums[p] EXCEPT !.source = Hashed(p)] \in Checksums
        /\ [sums[p] EXCEPT !.input = Hashed(p)] \in Checksums
    BY HashTypes DEF TypeOK
  <2>. QED  BY <1>4, <1>b, <2>1 DEF HashSources, HashInput, TypeOK, Steps, ImporterSteps
<1>5. ASSUME NEW p \in Importers, NEW r \in Runs, ReserveRun(p, r)
      PROVE  TypeOK'
  BY <1>5, <1>b DEF ReserveRun, Reserve, TypeOK, Steps, ImporterSteps
<1>6. ASSUME NEW p \in Importers, RunAlreadyExists(p)
      PROVE  TypeOK'
  BY <1>6, <1>b DEF RunAlreadyExists, TypeOK, Steps
<1>7. ASSUME NEW p \in Importers, PutManifest(p)
      PROVE  TypeOK'
  BY <1>7, <1>b, ManifestTypes DEF PutManifest, PutFirst, TypeOK, Steps, SaveSteps
<1>8. ASSUME NEW p \in Importers, CreateFails(p) \/ RemoveRun(p)
      PROVE  TypeOK'
  <2>1. CASE CreateFails(p)
    <3>1. faults' \in Nat
      BY <2>1 DEF CreateFails, Fault, TypeOK
    <3>. QED  BY <1>b, <2>1, <3>1 DEF CreateFails, TypeOK, Steps, ImporterSteps
  <2>2. CASE RemoveRun(p)
    <3>1. at[p] \in Runs
      BY <2>2, <1>a DEF RemoveRun, Holds, HasInput, HasHashed, Chose, ImporterSteps
    <3>2. Absent(manifest[at[p]].provenance) \in Manifests
      BY <3>1, ManifestTypes DEF TypeOK, Manifests
    <3>. QED  BY <1>b, <2>2, <3>1, <3>2 DEF RemoveRun, CleanUp, TypeOK, Steps
  <2>. QED  BY <1>8, <2>1, <2>2
<1>9. ASSUME NEW p \in Importers, ReadSource(p)
      PROVE  TypeOK'
  <2>1. source[NextCopy(p)] # None /\ ToCopy(p) # {} => source[NextCopy(p)] \in Contents
    BY NextIsToCopy, ImportAssumption DEF TypeOK, Versions
  <2>2. content' \in [Importers -> Contents \union {None}]
    BY <1>9, <2>1, ImportAssumption DEF ReadSource, TypeOK
  <2>. QED  BY <1>9, <1>b, <2>2 DEF ReadSource, TypeOK, Steps, ImporterSteps
<1>10. ASSUME NEW p \in Importers, WriteArtifact(p)
       PROVE  TypeOK'
  <2>1. NextArtifact(p) \in Artifacts
    BY NextIsToCopy
  <2>2. file' \in [Runs -> References] /\ written' \in [Importers -> References]
    BY <1>10, <2>1 DEF WriteArtifact, Link, TypeOK, References
  <2>. QED  BY <1>10, <1>b, <2>2 DEF WriteArtifact, Link, TypeOK, Steps, ImporterSteps
<1>d. ASSUME NEW p \in Importers, CheckRunning(p)
      PROVE  TypeOK'
  BY <1>d, <1>b DEF CheckRunning, TypeOK, Steps, ImporterSteps
<1>11. ASSUME NEW p \in Importers, CopyFails(p)
       PROVE  TypeOK'
  <2>1. Failed(p) \in Manifests
    BY ManifestTypes DEF Failed, TypeOK
  <2>2. faults' \in Nat
    BY <1>11 DEF CopyFails, Fault, TypeOK
  <2>. QED  BY <1>11, <1>b, <2>1, <2>2 DEF CopyFails, TypeOK, Steps, SaveSteps
<1>12. ASSUME NEW p \in Importers, VerifySources(p)
       PROVE  TypeOK'
  <2>1. Completed(p) \in Manifests
    BY DEF Completed, TypeOK, Manifests, Published, Terminal
  <2>. QED  BY <1>12, <1>b, <2>1 DEF VerifySources, TypeOK, Steps, SaveSteps
<1>13. ASSUME NEW h \in Handlers, NEW r \in Runs, LoadToCancel(h, r)
       PROVE  TypeOK'
  <2>1. [manifest[r] EXCEPT !.status = "cancelled"] \in Manifests
    BY <1>13, ManifestTypes DEF LoadToCancel, TypeOK, Terminal, Published
  <2>. QED  BY <1>13, <1>b, <2>1 DEF LoadToCancel, TypeOK, Steps, SaveSteps
<1>c. Absent(NoSums) \in Manifests
  BY ManifestTypes, HashTypes
<1>14. ASSUME NEW h \in Handlers, MarkCancelled(h)
       PROVE  TypeOK'
  <2>1. marker' \in [Runs -> BOOLEAN]
    BY <1>14 DEF MarkCancelled, RequestCancellation, TypeOK
  <2>. QED  BY <1>14, <1>b, <1>c, <2>1 DEF MarkCancelled, RequestCancellation, Forget, TypeOK, Steps
<1>15. ASSUME NEW p \in Processes, CheckSave(p)
       PROVE  TypeOK'
  BY <1>15, <1>c DEF CheckSave, Refused, Forget, TypeOK, Steps, SaveSteps
<1>16. ASSUME NEW p \in Processes, ReplaceManifest(p)
       PROVE  TypeOK'
  <2>1. After(p) \in Steps
    BY DEF After, Steps, ImporterSteps
  <2>. QED  BY <1>16, <1>c, <2>1 DEF ReplaceManifest, Replace, Forget, TypeOK
<1>17. ASSUME NEW p \in Processes, SaveFails(p)
       PROVE  TypeOK'
  BY <1>17, <1>c DEF SaveFails, Fault, Refused, Forget, TypeOK, Steps
<1>18. CASE UNCHANGED vars
  BY <1>18 DEF vars, TypeOK
<1>. QED
  BY <1>1, <1>2, <1>3, <1>4, <1>5, <1>6, <1>7, <1>8, <1>9, <1>10, <1>11, <1>12, <1>13, <1>14,
     <1>15, <1>16, <1>17, <1>18, <1>d DEF Next, Import, Cancel, Save

(***************************************************************************)
(* What a step does to the runs, and what it leaves alone                  *)
(***************************************************************************)

\* A run that exists stays, with its provenance.
KeepsManifests ==
    \A r \in Runs : Exists(r) =>
        /\ manifest'[r].status # "absent"
        /\ manifest'[r].provenance = manifest[r].provenance

\* A file that was written stays as it is.
KeepsFiles ==
    \A r \in Runs, a \in Artifacts : file[r][a] # None => file'[r][a] = file[r][a]

\* What was published stays published, unless a handler cancels it.
KeepsPublished ==
    \A r \in Runs : manifest[r].status \in Published =>
        manifest'[r].status \in {manifest[r].status, "cancelled"}

Keeps == KeepsManifests /\ KeepsFiles /\ KeepsPublished

\* The run of importer p is as it was, or was saved as cancelled.
RunKept(p) ==
    Holds(p) =>
        /\ owner'[at[p]] = owner[at[p]]
        /\ file'[at[p]] = file[at[p]]
        /\ Stored(p) => manifest'[at[p]].status \notin Published
        /\ ~ Stored(p) => manifest'[at[p]] = manifest[at[p]]

\* No step of q was taken.
Waits(q) ==
    /\ pc'[q] = pc[q] /\ at'[q] = at[q] /\ pending'[q] = pending[q]
    /\ q \in Importers =>
           /\ found'[q] = found[q] /\ sums'[q] = sums[q]
           /\ content'[q] = content[q] /\ written'[q] = written[q]

OthersWait(p) == \A q \in Processes \ {p} : Waits(q)
OthersKept(p) == \A q \in Importers \ {p} : RunKept(q)

LEMMA ImportsFrame ==
    ASSUME IInv, NEW p \in Importers, Waits(p), source' = source, restored' = restored,
           RunKept(p), KeepsManifests
    PROVE  Imports(p)'
<1>1. Imports(p)
  BY DEF IInv
<1>2. /\ Chose(p)' <=> Chose(p)
      /\ HasHashed(p)' <=> HasHashed(p)
      /\ HasInput(p)' <=> HasInput(p)
      /\ Holds(p)' <=> Holds(p)
      /\ Stored(p)' <=> Stored(p)
  BY DEF Waits, Chose, HasHashed, HasInput, Holds, Stored
<1>3. /\ ToCopy(p)' = ToCopy(p) /\ NextCopy(p)' = NextCopy(p)
      /\ \A s : Same(p, s)' <=> Same(p, s)
  BY DEF Waits, ToCopy, NextCopy, Same
<1>4. Hashes(p)'
  BY <1>1, <1>2, <1>3 DEF Imports, Hashes, Waits
<1>5. Own(p)'
  BY <1>1, <1>2, Zenon DEF Imports, Own, Waits, RunKept, KeepsManifests, Exists
<1>6. Copies(p)'
  BY <1>1, <1>2, <1>3 DEF Imports, Copies, Waits
<1>7. Ready(p)'
  BY <1>1 DEF Imports, Ready, Waits
<1>. QED  BY <1>4, <1>5, <1>6, <1>7 DEF Imports

LEMMA CancelsFrame ==
    ASSUME IInv, NEW h \in Handlers, Waits(h), KeepsManifests
    PROVE  Cancels(h)'
BY DEF IInv, Cancels, Waits, KeepsManifests, Exists

\* A step that leaves the store alone.
LEMMA StoreAlone ==
    ASSUME IInv, UNCHANGED storeVars, restored' = restored
    PROVE  /\ Keeps /\ Free' /\ ImportIsFaithful'
           /\ \A q \in Importers : RunKept(q)
<1>1. /\ owner' = owner /\ manifest' = manifest /\ file' = file
  BY DEF storeVars
<1>2. \A q \in Importers : Stored(q) => manifest[at[q]].status \notin Published
  BY DEF IInv, Imports, Own, Stored
<1>3. Keeps
  BY <1>1 DEF Keeps, KeepsManifests, KeepsFiles, KeepsPublished, Exists
<1>4. Free' /\ ImportIsFaithful'
  BY <1>1 DEF IInv, Free, Exists, ImportIsFaithful
<1>5. \A q \in Importers : RunKept(q)
  BY <1>1, <1>2 DEF RunKept
<1>. QED  BY <1>3, <1>4, <1>5

\* What is left to show of a step of p.
LEMMA StepOf ==
    ASSUME IInv, NEW p \in Processes, OthersWait(p), OthersKept(p), KeepsManifests,
           source' = source, restored' = restored, TypeOK', Free', ImportIsFaithful',
           p \in Importers => Imports(p)',
           p \in Handlers => Cancels(p)'
    PROVE  IInv'
<1>1. \A q \in Importers : Imports(q)'
  BY ImportsFrame DEF OthersWait, OthersKept, Processes
<1>2. \A h \in Handlers : Cancels(h)'
  BY CancelsFrame DEF OthersWait, Processes
<1>. QED  BY <1>1, <1>2 DEF IInv

(***************************************************************************)
(* The steps of an importer                                                *)
(***************************************************************************)

LEMMA InspectStep ==
    ASSUME IInv, NEW p \in Importers, Inspect(p), TypeOK'
    PROVE  IInv' /\ Keeps
<1>. USE DEF Frame, Stays, At, Goto, localVars
<1>1. OthersWait(p) /\ source' = source /\ restored' = restored /\ sums' = sums
  BY DEF Inspect, OthersWait, Waits, IInv, TypeOK
<1>2. UNCHANGED storeVars
  BY DEF Inspect
<1>3. p \in Processes /\ p \notin Handlers
  BY ImportAssumption DEF Processes
<1>4. pc'[p] \in {"hash_sources", "error"}
  BY <1>3 DEF Inspect, IInv, TypeOK
<1>5. Imports(p)'
  <2>1. pc'[p] = "hash_sources" => Required \subseteq found'[p]
    BY <1>3 DEF Inspect, IInv, TypeOK
  <2>2. written'[p] = NoReferences
    BY DEF Inspect, IInv, Imports, Own, Holds, HasInput, HasHashed, Chose, ImporterSteps, SaveSteps
  <2>3. ~ HasHashed(p)' /\ ~ HasInput(p)' /\ ~ Holds(p)' /\ ~ Stored(p)' /\ pc'[p] \notin SaveSteps
    BY <1>4 DEF Stored, Holds, HasInput, HasHashed, Chose, ImporterSteps, SaveSteps
  <2>4. Chose(p)' => pc'[p] = "hash_sources"
    BY <1>4 DEF Chose, ImporterSteps, SaveSteps
  <2>. QED  BY <2>1, <2>2, <2>3, <2>4 DEF Imports, Hashes, Own, Copies, Ready
<1>. QED  BY <1>1, <1>2, <1>3, <1>5, StoreAlone, StepOf DEF OthersKept, Keeps

\* What is hashed has the content of now, and nothing else of p changes.
LEMMA HashSourcesStep ==
    ASSUME IInv, NEW p \in Importers, HashSources(p), TypeOK'
    PROVE  IInv' /\ Keeps
<1>. USE DEF Frame, Stays, At, Goto, localVars
<1>1. OthersWait(p) /\ source' = source /\ restored' = restored
  BY DEF HashSources, OthersWait, Waits, IInv, TypeOK
<1>2. UNCHANGED storeVars
  BY DEF HashSources
<1>3. p \in Processes /\ p \notin Handlers
  BY ImportAssumption DEF Processes
<1>4. \/ pc'[p] = "error" /\ sums' = sums
      \/ /\ pc'[p] = "hash_input" /\ AllThere(p)
         /\ sums' = [sums EXCEPT ![p].source = Hashed(p)]
  BY <1>3 DEF HashSources, IInv, TypeOK
<1>5. written'[p] = NoReferences /\ found'[p] = found[p] /\ Required \subseteq found[p]
  BY DEF HashSources, IInv, Imports, Own, Hashes, Holds, HasInput, HasHashed, Chose,
         ImporterSteps, SaveSteps
<1>6. pc'[p] = "hash_input" =>
          \A s \in Sources : sums'[p].source[s] = IF s \in found[p] THEN source[s] ELSE None
  <2>1. pc'[p] = "hash_input" => sums'[p] = [sums[p] EXCEPT !.source = Hashed(p)]
    BY <1>4 DEF IInv, TypeOK
  <2>. QED  BY <2>1, ImportAssumption DEF IInv, TypeOK, Hashed
<1>8. Imports(p)'
  <2>1. ~ HasInput(p)' /\ ~ Holds(p)' /\ ~ Stored(p)' /\ pc'[p] \notin SaveSteps
    BY <1>4 DEF Stored, Holds, HasInput, HasHashed, Chose, ImporterSteps, SaveSteps
  <2>2. HasHashed(p)' => pc'[p] = "hash_input"
    BY <1>4 DEF HasHashed, Chose, ImporterSteps, SaveSteps
  <2>3. pc'[p] = "hash_input" =>
            \A s \in Sources : s \in found'[p] <=> sums'[p].source[s] # None
    BY <1>4, <1>5, <1>6 DEF AllThere, FoundNow
  <2>4. Hashes(p)'
    BY <1>5, <2>1, <2>2, <2>3 DEF Hashes
  <2>. QED  BY <1>5, <2>1, <2>4 DEF Imports, Own, Copies, Ready
<1>. QED  BY <1>1, <1>2, <1>3, <1>8, StoreAlone, StepOf DEF OthersKept, Keeps

LEMMA HashInputStep ==
    ASSUME IInv, NEW p \in Importers, HashInput(p), TypeOK'
    PROVE  IInv' /\ Keeps
<1>. USE DEF Frame, Stays, At, Goto, localVars
<1>1. OthersWait(p) /\ source' = source /\ restored' = restored
  BY DEF HashInput, OthersWait, Waits, IInv, TypeOK
<1>2. UNCHANGED storeVars
  BY DEF HashInput
<1>3. p \in Processes /\ p \notin Handlers
  BY ImportAssumption DEF Processes
<1>4. \/ pc'[p] = "error" /\ sums' = sums
      \/ /\ pc'[p] = "reserve" /\ AllThere(p)
         /\ sums' = [sums EXCEPT ![p].input = Hashed(p)]
  BY <1>3 DEF HashInput, IInv, TypeOK
<1>5. /\ written'[p] = NoReferences /\ found'[p] = found[p] /\ Required \subseteq found[p]
      /\ \A s \in Sources : s \in found[p] <=> sums[p].source[s] # None
  BY DEF HashInput, IInv, Imports, Own, Hashes, Holds, HasInput, HasHashed, Chose,
         ImporterSteps, SaveSteps
<1>6. /\ \A q \in Importers : sums'[q].source = sums[q].source
      /\ pc'[p] = "reserve" =>
          \A s \in Sources : sums'[p].input[s] = IF s \in found[p] THEN source[s] ELSE None
  <2>1. sums'[p] = sums[p] \/ sums'[p] = [sums[p] EXCEPT !.input = Hashed(p)]
    BY <1>4 DEF IInv, TypeOK
  <2>2. pc'[p] = "reserve" => sums'[p] = [sums[p] EXCEPT !.input = Hashed(p)]
    BY <1>4 DEF IInv, TypeOK
  <2>3. sums[p] \in [source : Versions, input : Versions]
    BY ImportAssumption DEF IInv, TypeOK
  <2>4. \A q \in Importers \ {p} : sums'[q] = sums[q]
    BY <1>4 DEF IInv, TypeOK
  <2>. QED  BY <2>1, <2>2, <2>3, <2>4 DEF Hashed
<1>8. Imports(p)'
  <2>1. ~ Holds(p)' /\ ~ Stored(p)' /\ pc'[p] \notin SaveSteps
    BY <1>4 DEF Stored, Holds, HasInput, HasHashed, Chose, ImporterSteps, SaveSteps
  <2>2. HasInput(p)' => pc'[p] = "reserve"
    BY <1>4 DEF HasInput, HasHashed, Chose, ImporterSteps, SaveSteps
  <2>3. Hashes(p)'
    BY <1>1, <1>5, <1>6, <2>2 DEF Hashes, Same
  <2>. QED  BY <1>5, <2>1, <2>3 DEF Imports, Own, Copies, Ready
<1>. QED  BY <1>1, <1>2, <1>3, <1>8, StoreAlone, StepOf DEF OthersKept, Keeps

LEMMA ReserveRunStep ==
    ASSUME IInv, NEW p \in Importers, NEW r \in Runs, ReserveRun(p, r), TypeOK'
    PROVE  IInv' /\ Keeps
<1>. USE DEF Frame, Stays, At, Goto, localVars
<1>1. OthersWait(p) /\ source' = source /\ restored' = restored /\ sums' = sums
  BY DEF ReserveRun, OthersWait, Waits, IInv, TypeOK
<1>2. /\ owner[r] = None /\ owner' = [owner EXCEPT ![r] = p]
      /\ manifest' = manifest /\ file' = file
  BY DEF ReserveRun, Reserve
<1>3. p \in Processes /\ p \notin Handlers /\ p # None
  BY ImportAssumption DEF Processes
<1>4. /\ pc'[p] = "put_first" /\ at'[p] = r /\ found'[p] = found[p]
      /\ written'[p] = written[p] /\ pending'[p] = pending[p]
  BY <1>3 DEF ReserveRun, IInv, TypeOK
<1>5. ~ Exists(r) /\ file[r] = NoReferences
  BY <1>2 DEF IInv, Free
<1>6. \A q \in Importers : RunKept(q)
  <2>1. \A q \in Importers : Holds(q) =>
            /\ at[q] # r /\ at[q] \in Runs
            /\ Stored(q) => manifest[at[q]].status \notin Published
    BY <1>2, ImportAssumption DEF IInv, Imports, Own
  <2>. QED  BY <1>2, <2>1 DEF RunKept, IInv, TypeOK
<1>7. Keeps
  BY <1>2 DEF Keeps, KeepsManifests, KeepsFiles, KeepsPublished, Exists
<1>8. Free' /\ ImportIsFaithful'
  <2>1. \A q \in Runs : owner'[q] = None => owner[q] = None
    BY <1>2, <1>3 DEF IInv, TypeOK
  <2>2. Free'
    BY <1>2, <2>1 DEF IInv, Free, Exists
  <2>3. \A q \in Runs : manifest[q].status \in Published => owner'[q] = owner[q]
    BY <1>2, <1>5 DEF IInv, TypeOK, Exists, Published
  <2>. QED  BY <1>1, <1>2, <2>2, <2>3 DEF IInv, ImportIsFaithful
<1>9. Imports(p)'
  <2>1. ~ Stored(p)' /\ pc'[p] \notin SaveSteps /\ HasInput(p) /\ HasHashed(p) /\ Chose(p)
    BY <1>4 DEF ReserveRun, Stored, Holds, HasInput, HasHashed, Chose, ImporterSteps, SaveSteps
  <2>2. Imports(p) /\ written[p] = NoReferences
    BY DEF ReserveRun, IInv, Imports, Own, Holds
  <2>3. Hashes(p)'
    BY <1>1, <1>4, <2>1, <2>2 DEF Imports, Hashes, Same
  <2>4. Own(p)'
    BY <1>2, <1>4, <1>5, <2>1, <2>2 DEF Own, Exists, IInv, TypeOK
  <2>. QED  BY <2>1, <2>3, <2>4 DEF Imports, Copies, Ready
<1>. QED  BY <1>1, <1>3, <1>6, <1>7, <1>8, <1>9, StepOf DEF OthersKept, Keeps

\* An importer that is done is trusted with nothing.
LEMMA DoneImports ==
    ASSUME NEW p \in Importers, pc'[p] \in {"returned", "error", "dead"}
    PROVE  Imports(p)'
BY DEF Imports, Hashes, Own, Copies, Ready, Stored, Holds, HasInput, HasHashed, Chose,
       ImporterSteps, SaveSteps

LEMMA RunAlreadyExistsStep ==
    ASSUME IInv, NEW p \in Importers, RunAlreadyExists(p), TypeOK'
    PROVE  IInv' /\ Keeps
<1>. USE DEF Frame, Stays, At, Goto, localVars
<1>1. OthersWait(p) /\ source' = source /\ restored' = restored /\ sums' = sums
  BY DEF RunAlreadyExists, OthersWait, Waits, IInv, TypeOK
<1>2. UNCHANGED storeVars
  BY DEF RunAlreadyExists
<1>3. p \in Processes /\ p \notin Handlers
  BY ImportAssumption DEF Processes
<1>4. pc'[p] = "error"
  BY <1>3 DEF RunAlreadyExists, IInv, TypeOK
<1>. QED  BY <1>1, <1>2, <1>3, <1>4, DoneImports, StoreAlone, StepOf
          DEF OthersKept, Keeps

\* What p has done when it is about to write the first manifest.
LEMMA AtPutFirst ==
    ASSUME IInv, NEW p \in Importers, pc[p] \in {"put_first", "clean_up"}
    PROVE  /\ Chose(p) /\ HasHashed(p) /\ HasInput(p) /\ Holds(p) /\ ~ Stored(p)
           /\ at[p] \in Runs /\ owner[at[p]] = p /\ ~ Exists(at[p])
           /\ file[at[p]] = NoReferences /\ written[p] = NoReferences
           /\ \A q \in Importers \ {p} : Holds(q) => at[q] \in Runs /\ at[q] # at[p]
<1>1. Chose(p) /\ HasHashed(p) /\ HasInput(p) /\ Holds(p) /\ ~ Stored(p)
  BY DEF Stored, Holds, HasInput, HasHashed, Chose, ImporterSteps
<1>. QED  BY <1>1 DEF IInv, Imports, Own

\* A step that changes one run, the one of p.
LEMMA OneRun ==
    ASSUME IInv, NEW p \in Importers, NEW r \in Runs,
           \A q \in Importers \ {p} : Holds(q) => at[q] \in Runs /\ at[q] # r,
           \A q \in Runs \ {r} :
               owner'[q] = owner[q] /\ manifest'[q] = manifest[q] /\ file'[q] = file[q]
    PROVE  OthersKept(p)
<1>1. \A q \in Importers : Stored(q) => manifest[at[q]].status \notin Published
  BY DEF IInv, Imports, Own, Stored
<1>. QED  BY <1>1 DEF OthersKept, RunKept

LEMMA PutManifestStep ==
    ASSUME IInv, NEW p \in Importers, PutManifest(p), TypeOK'
    PROVE  IInv' /\ Keeps
<1>. USE DEF Frame, Stays, At, Goto, localVars
<1>1. OthersWait(p) /\ source' = source /\ restored' = restored /\ sums' = sums
  BY DEF PutManifest, OthersWait, Waits, IInv, TypeOK
<1>. DEFINE r == at[p]
            m == Queued(sums[p])
<1>2. /\ Chose(p) /\ HasHashed(p) /\ HasInput(p) /\ Holds(p) /\ ~ Stored(p)
      /\ r \in Runs /\ owner[r] = p /\ ~ Exists(r)
      /\ file[r] = NoReferences /\ written[p] = NoReferences
      /\ \A q \in Importers \ {p} : Holds(q) => at[q] \in Runs /\ at[q] # r
  BY AtPutFirst DEF PutManifest
<1>3. p \in Processes /\ p \notin Handlers /\ p # None
  BY ImportAssumption DEF Processes
<1>4. /\ owner' = owner /\ file' = file /\ at' = at
      /\ manifest'[r] = m /\ \A q \in Runs \ {r} : manifest'[q] = manifest[q]
      /\ pc'[p] = "save" /\ pending'[p] = [m EXCEPT !.status = "running"]
      /\ found'[p] = found[p] /\ written'[p] = written[p]
  BY <1>2, <1>3 DEF PutManifest, PutFirst, IInv, TypeOK
<1>5. /\ m.status = "queued" /\ m.provenance = sums[p]
      /\ [m EXCEPT !.status = "running"].status = "running"
      /\ [m EXCEPT !.status = "running"].provenance = sums[p]
  BY DEF Queued, Absent
<1>6. Keeps
  BY <1>2, <1>4 DEF Keeps, KeepsManifests, KeepsFiles, KeepsPublished, Exists, Published
<1>7. OthersKept(p)
  BY <1>2, <1>4, OneRun
<1>8. Free'
  BY <1>2, <1>3, <1>4 DEF IInv, Free, Exists
<1>9. ImportIsFaithful'
  BY <1>1, <1>4, <1>5 DEF IInv, ImportIsFaithful, Published
<1>10. Imports(p)'
  <2>1. Hashes(p)'
    BY <1>1, <1>2, <1>4 DEF IInv, Imports, Hashes, Same
  <2>2. Own(p)'
    BY <1>1, <1>2, <1>3, <1>4, <1>5 DEF Own, Exists, Published, Stored, Holds, HasInput,
       HasHashed, Chose, SaveSteps
  <2>3. Copies(p)'
    BY <1>2, <1>4, ImportAssumption DEF Copies, NoReferences, Sources
  <2>4. Ready(p)'
    BY <1>1, <1>4, <1>5 DEF Ready, Published
  <2>. QED  BY <2>1, <2>2, <2>3, <2>4 DEF Imports
<1>. QED  BY <1>1, <1>3, <1>6, <1>7, <1>8, <1>9, <1>10, StepOf DEF Keeps

LEMMA CreateFailsStep ==
    ASSUME IInv, NEW p \in Importers, CreateFails(p), TypeOK'
    PROVE  IInv' /\ Keeps
<1>. USE DEF Frame, Stays, At, Goto, localVars
<1>1. /\ OthersWait(p) /\ source' = source /\ restored' = restored /\ sums' = sums
      /\ found' = found /\ written' = written /\ at' = at
  BY DEF CreateFails, OthersWait, Waits, IInv, TypeOK
<1>2. UNCHANGED storeVars /\ pc[p] = "put_first"
  BY DEF CreateFails
<1>3. p \in Processes /\ p \notin Handlers
  BY ImportAssumption DEF Processes
<1>4. pc'[p] = "clean_up"
  BY <1>3 DEF CreateFails, IInv, TypeOK
<1>5. Imports(p)'
  <2>1. /\ Chose(p) /\ HasHashed(p) /\ HasInput(p) /\ Holds(p) /\ ~ Stored(p) /\ Imports(p)
    BY <1>2, AtPutFirst DEF IInv
  <2>2. /\ Holds(p)' /\ ~ Stored(p)' /\ pc'[p] \notin SaveSteps
    BY <1>4 DEF Stored, Holds, HasInput, HasHashed, Chose, ImporterSteps, SaveSteps
  <2>3. Hashes(p)'
    BY <1>1, <2>1 DEF Imports, Hashes, Same
  <2>4. Own(p)'
    BY <1>1, <1>2, <2>1, <2>2 DEF Imports, Own, Exists, storeVars
  <2>. QED  BY <2>2, <2>3, <2>4 DEF Imports, Copies, Ready
<1>. QED  BY <1>1, <1>2, <1>3, <1>5, StoreAlone, StepOf DEF OthersKept, Keeps

LEMMA RemoveRunStep ==
    ASSUME IInv, NEW p \in Importers, RemoveRun(p), TypeOK'
    PROVE  IInv' /\ Keeps
<1>. USE DEF Frame, Stays, At, Goto, localVars
<1>1. OthersWait(p) /\ source' = source /\ restored' = restored /\ sums' = sums
  BY DEF RemoveRun, OthersWait, Waits, IInv, TypeOK
<1>. DEFINE r == at[p]
<1>2. /\ r \in Runs /\ ~ Exists(r) /\ file[r] = NoReferences
      /\ \A q \in Importers \ {p} : Holds(q) => at[q] \in Runs /\ at[q] # r
  BY AtPutFirst DEF RemoveRun
<1>3. p \in Processes /\ p \notin Handlers
  BY ImportAssumption DEF Processes
<1>4. /\ file' = file /\ pc'[p] = "error"
      /\ manifest'[r] = Absent(manifest[r].provenance)
      /\ \A q \in Runs \ {r} : manifest'[q] = manifest[q] /\ owner'[q] = owner[q]
  BY <1>2, <1>3 DEF RemoveRun, CleanUp, IInv, TypeOK
<1>5. manifest'[r].status = "absent"
  BY <1>4 DEF Absent
<1>6. Keeps
  BY <1>2, <1>4 DEF Keeps, KeepsManifests, KeepsFiles, KeepsPublished, Exists, Published
<1>7. OthersKept(p)
  BY <1>2, <1>4, OneRun
<1>8. Free'
  BY <1>2, <1>4, <1>5 DEF IInv, Free, Exists
<1>9. ImportIsFaithful'
  BY <1>1, <1>4, <1>5 DEF IInv, ImportIsFaithful, Published
<1>. QED  BY <1>1, <1>3, <1>4, <1>6, <1>7, <1>8, <1>9, DoneImports, StepOf DEF Keeps

\* What p has done while it copies.
LEMMA WhileCopying ==
    ASSUME IInv, NEW p \in Importers, pc[p] \in {"read", "write", "link", "verify"}
    PROVE  /\ Chose(p) /\ HasHashed(p) /\ HasInput(p) /\ Holds(p) /\ Stored(p)
           /\ Hashes(p) /\ Own(p) /\ Copies(p)
           /\ at[p] \in Runs /\ owner[at[p]] = p /\ Exists(at[p])
           /\ written[p] = file[at[p]] /\ manifest[at[p]].provenance = sums[p]
           /\ manifest[at[p]].status \notin Published
           /\ \A q \in Importers \ {p} : Holds(q) => at[q] \in Runs /\ at[q] # at[p]
<1>1. Chose(p) /\ HasHashed(p) /\ HasInput(p) /\ Holds(p) /\ Stored(p)
  BY DEF Stored, Holds, HasInput, HasHashed, Chose, ImporterSteps, SaveSteps
<1>. QED  BY <1>1 DEF IInv, Imports, Own

\* What p knows stays true if it goes on with its run as it was.
LEMMA OwnFrame ==
    ASSUME IInv, NEW p \in Importers, pc[p] \in {"read", "write", "link", "verify"},
           pc'[p] \in {"read", "write", "link", "verify"} \union SaveSteps,
           at' = at, sums' = sums, owner' = owner, manifest' = manifest,
           found' = found, source' = source, restored' = restored, written'[p] = file'[at[p]]
    PROVE  Hashes(p)' /\ Own(p)'
<1>1. /\ Chose(p)' /\ HasHashed(p)' /\ HasInput(p)' /\ Holds(p)' /\ Stored(p)'
  BY DEF Stored, Holds, HasInput, HasHashed, Chose, ImporterSteps, SaveSteps
<1>2. Hashes(p)'
  BY <1>1, WhileCopying DEF Hashes, Same
<1>3. Own(p)'
  BY <1>1, WhileCopying DEF Own, Exists
<1>. QED  BY <1>2, <1>3

LEMMA ReadSourceStep ==
    ASSUME IInv, NEW p \in Importers, ReadSource(p), TypeOK'
    PROVE  IInv' /\ Keeps
<1>. USE DEF Frame, Stays, At, Goto, localVars
<1>1. OthersWait(p) /\ source' = source /\ restored' = restored /\ sums' = sums
  BY DEF ReadSource, OthersWait, Waits, IInv, TypeOK
<1>2. UNCHANGED storeVars /\ found' = found /\ written' = written /\ at' = at
  BY DEF ReadSource
<1>3. p \in Processes /\ p \notin Handlers
  BY ImportAssumption DEF Processes
<1>4. /\ pc[p] = "read" /\ pc'[p] = "write"
      /\ ToCopy(p) = {} => content'[p] = Notice
      /\ ToCopy(p) # {} => source[NextCopy(p)] # None /\ content'[p] = source[NextCopy(p)]
  BY <1>3 DEF ReadSource, IInv, TypeOK
<1>5. ToCopy(p)' = ToCopy(p) /\ NextCopy(p)' = NextCopy(p)
  BY <1>2 DEF ToCopy, NextCopy
<1>6. Copies(p)'
  <2>1. \A s \in Sources :
            /\ s \notin found'[p] => written'[p][s] = None
            /\ s \in found'[p] /\ Same(p, s)' /\ written'[p][s] # None =>
                   written'[p][s] = sums'[p].source[s]
    BY <1>1, <1>2, <1>4, WhileCopying DEF Copies, Same
  <2>2. (ToCopy(p) # {})' => content'[p] # None /\
            (Same(p, NextCopy(p))' => content'[p] = sums'[p].source[NextCopy(p)'])
    BY <1>1, <1>4, <1>5 DEF Same
  <2>. QED  BY <1>4, <1>5, <2>1, <2>2 DEF Copies
<1>7. Hashes(p)' /\ Own(p)'
  BY <1>1, <1>2, <1>4, OwnFrame, WhileCopying DEF storeVars
<1>8. Imports(p)'
  BY <1>4, <1>6, <1>7 DEF Imports, Ready, SaveSteps
<1>. QED  BY <1>1, <1>2, <1>3, <1>8, StoreAlone, StepOf DEF OthersKept, Keeps

LEMMA CheckRunningStep ==
    ASSUME IInv, NEW p \in Importers, CheckRunning(p), TypeOK'
    PROVE  IInv' /\ Keeps
<1>. USE DEF Frame, Stays, At, Goto, localVars
<1>1. /\ OthersWait(p) /\ source' = source /\ restored' = restored /\ sums' = sums
      /\ UNCHANGED storeVars /\ found' = found /\ written' = written /\ content' = content
      /\ at' = at
  BY DEF CheckRunning, OthersWait, Waits, IInv, TypeOK
<1>2. p \in Processes /\ p \notin Handlers
  BY ImportAssumption DEF Processes
<1>3. pc[p] = "write" /\ pc'[p] = "link"
  BY <1>2 DEF CheckRunning, IInv, TypeOK
<1>4. ToCopy(p)' = ToCopy(p) /\ NextCopy(p)' = NextCopy(p)
  BY <1>1 DEF ToCopy, NextCopy
<1>5. Copies(p)'
  BY <1>1, <1>3, <1>4, WhileCopying DEF Copies, Same
<1>6. Hashes(p)' /\ Own(p)'
  BY <1>1, <1>3, OwnFrame, WhileCopying DEF storeVars
<1>7. Imports(p)'
  BY <1>3, <1>5, <1>6 DEF Imports, Ready, SaveSteps
<1>. QED  BY <1>1, <1>2, <1>7, StoreAlone, StepOf DEF OthersKept, Keeps

LEMMA WriteArtifactStep ==
    ASSUME IInv, NEW p \in Importers, WriteArtifact(p), TypeOK'
    PROVE  IInv' /\ Keeps
<1>. USE DEF Frame, Stays, At, Goto, localVars
<1>. DEFINE r == at[p]
            a == NextArtifact(p)
<1>1. /\ OthersWait(p) /\ source' = source /\ restored' = restored /\ sums' = sums
      /\ owner' = owner /\ manifest' = manifest /\ at' = at /\ found' = found
  BY DEF WriteArtifact, Link, OthersWait, Waits, IInv, TypeOK
<1>2. p \in Processes /\ p \notin Handlers
  BY ImportAssumption DEF Processes
<1>3. /\ r \in Runs /\ written[p] = file[r] /\ pc[p] = "link"
      /\ manifest[r].status \notin Published
      /\ \A q \in Importers \ {p} : Holds(q) => at[q] \in Runs /\ at[q] # r
  BY WhileCopying DEF WriteArtifact
<1>4. /\ a \in Artifacts
      /\ a = 0 <=> ToCopy(p) = {}
      /\ ToCopy(p) # {} => a = NextCopy(p) /\ a \in ToCopy(p)
      /\ ToCopy(p) \subseteq Sources
  BY NextIsToCopy DEF IInv, NextArtifact
<1>5. /\ file[r][a] = None
      /\ file' = [file EXCEPT ![r][a] = content[p]]
      /\ written' = [written EXCEPT ![p][a] = content[p]]
      /\ pc'[p] = IF a = 0 THEN "verify" ELSE "read"
  BY <1>2 DEF WriteArtifact, MayLink, Link, IInv, TypeOK
<1>6. /\ written'[p][a] = content[p] /\ file'[r][a] = content[p]
      /\ \A b \in Artifacts \ {a} : written'[p][b] = written[p][b] /\ file'[r][b] = file[r][b]
      /\ \A q \in Runs \ {r} : file'[q] = file[q]
      /\ written'[p] = file'[r]
  <2>1. /\ file'[r] = [file[r] EXCEPT ![a] = content[p]]
        /\ written'[p] = [written[p] EXCEPT ![a] = content[p]]
        /\ \A q \in Runs \ {r} : file'[q] = file[q]
    BY <1>3, <1>5 DEF IInv, TypeOK
  <2>2. file[r] \in References /\ written[p] \in References
    BY <1>3 DEF IInv, TypeOK
  <2>. QED  BY <1>3, <1>4, <2>1, <2>2 DEF References
<1>7. Keeps
  <2>1. KeepsFiles
    BY <1>5, <1>6 DEF KeepsFiles
  <2>. QED  BY <1>1, <2>1 DEF Keeps, KeepsManifests, KeepsPublished, Exists
<1>8. OthersKept(p)
  BY <1>1, <1>3, <1>6, OneRun
<1>9. Free'
  <2>1. owner[r] = p /\ p # None
    BY <1>3, WhileCopying, ImportAssumption
  <2>. QED  BY <1>1, <1>6, <2>1 DEF IInv, Free, Exists
<1>10. ImportIsFaithful'
  BY <1>1, <1>3, <1>6 DEF IInv, ImportIsFaithful
<1>11. Hashes(p)' /\ Own(p)'
  BY <1>1, <1>3, <1>5, <1>6, OwnFrame
<1>12. Copies(p)'
  <2>1. Copies(p) /\ Stored(p)
    BY <1>3, WhileCopying
  <2>2. Sources \subseteq Artifacts \ {0} /\ 0 \in Artifacts
    BY ImportAssumption DEF Sources
  <2>3. ASSUME NEW s \in Sources
        PROVE  /\ s \notin found'[p] => written'[p][s] = None
               /\ s \in found'[p] /\ Same(p, s)' /\ written'[p][s] # None =>
                      written'[p][s] = sums'[p].source[s]
    <3>1. CASE s = a
      <4>1. ToCopy(p) # {} /\ a = NextCopy(p) /\ s \in found[p]
        BY <1>4, <2>2, <3>1 DEF ToCopy
      <4>. QED  BY <1>1, <1>3, <1>6, <2>1, <3>1, <4>1 DEF Copies, Same
    <3>2. CASE s # a
      BY <1>1, <1>6, <2>1, <2>2, <3>2 DEF Copies, Same
    <3>. QED  BY <3>1, <3>2
  <2>4. pc'[p] = "verify" => ToCopy(p)' = {} /\ written'[p][0] = Notice
    <3>1. CASE a = 0
      <4>1. content[p] = Notice /\ ToCopy(p) = {}
        BY <1>3, <1>4, <2>1, <3>1 DEF Copies
      <4>2. found[p] \subseteq Sources
        BY DEF IInv, TypeOK
      <4>3. \A s \in found'[p] : written'[p][s] # None
        BY <1>1, <1>6, <2>2, <3>1, <4>1, <4>2 DEF ToCopy
      <4>. QED  BY <1>6, <2>2, <3>1, <4>1, <4>3 DEF ToCopy
    <3>2. a # 0 => pc'[p] = "read"
      BY <1>5
    <3>. QED  BY <3>1, <3>2
  <2>5. pc'[p] \notin {"write", "link"}
    BY <1>5
  <2>. QED  BY <2>3, <2>4, <2>5 DEF Copies
<1>13. Imports(p)'
  BY <1>5, <1>11, <1>12 DEF Imports, Ready, SaveSteps
<1>. QED  BY <1>1, <1>2, <1>7, <1>8, <1>9, <1>10, <1>13, StepOf DEF Keeps

LEMMA CopyFailsStep ==
    ASSUME IInv, NEW p \in Importers, CopyFails(p), TypeOK'
    PROVE  IInv' /\ Keeps
<1>. USE DEF Frame, Stays, At, Goto, localVars
<1>1. OthersWait(p) /\ source' = source /\ restored' = restored /\ sums' = sums
  BY DEF CopyFails, OthersWait, Waits, IInv, TypeOK
<1>2. UNCHANGED storeVars /\ found' = found /\ written' = written /\ at' = at
  BY DEF CopyFails
<1>3. p \in Processes /\ p \notin Handlers
  BY ImportAssumption DEF Processes
<1>4. pc[p] \in {"read", "write", "link"} /\ pc'[p] = "save" /\ pending'[p] = Failed(p)
  BY <1>3 DEF CopyFails, IInv, TypeOK
<1>5. Hashes(p)' /\ Own(p)'
  BY <1>1, <1>2, <1>4, OwnFrame, WhileCopying DEF storeVars, SaveSteps
<1>6. Copies(p)'
  BY <1>1, <1>2, <1>4, WhileCopying DEF Copies, Same
<1>7. Ready(p)'
  BY <1>1, <1>4 DEF Ready, Failed, Published
<1>8. Imports(p)'
  BY <1>5, <1>6, <1>7 DEF Imports
<1>. QED  BY <1>1, <1>2, <1>3, <1>8, StoreAlone, StepOf DEF OthersKept, Keeps

\* Every file of p that still has its first checksum had it when it was hashed
\* again and when it was copied.
LEMMA VerifySourcesStep ==
    ASSUME IInv, NEW p \in Importers, VerifySources(p), TypeOK'
    PROVE  IInv' /\ Keeps
<1>. USE DEF Frame, Stays, At, Goto, localVars
<1>1. OthersWait(p) /\ source' = source /\ restored' = restored /\ sums' = sums
  BY DEF VerifySources, OthersWait, Waits, IInv, TypeOK
<1>2. UNCHANGED storeVars /\ found' = found /\ written' = written /\ at' = at
  BY DEF VerifySources
<1>3. p \in Processes /\ p \notin Handlers
  BY ImportAssumption DEF Processes
<1>4. /\ pc[p] = "verify"
      /\ \/ pc'[p] = "error"
         \/ pc'[p] = "save" /\ pending'[p] = Completed(p) /\ Unchanged(p)
  BY <1>3 DEF VerifySources, IInv, TypeOK
<1>5. ASSUME pc'[p] = "save", pending'[p] = Completed(p), Unchanged(p)
      PROVE  Imports(p)'
  <2>1. Hashes(p)' /\ Own(p)'
    BY <1>1, <1>2, <1>4, <1>5, OwnFrame, WhileCopying DEF storeVars, SaveSteps
  <2>2. Copies(p)'
    BY <1>1, <1>2, <1>4, <1>5, WhileCopying DEF Copies, Same
  <2>3. \A s \in Sources :
            /\ s \in found[p] => source[s] = sums[p].source[s] /\ written[p][s] # None
            /\ s \notin found[p] => sums[p].source[s] = None /\ written[p][s] = None
    <3>1. \A s \in Sources : sums[p].source[s] = IF s \in found[p] THEN source[s] ELSE None
      BY <1>5 DEF Unchanged, Hashed
    <3>2. ToCopy(p) = {} /\ \A s \in Sources : s \notin found[p] => written[p][s] = None
      BY <1>4, WhileCopying DEF Copies
    <3>. QED  BY <3>1, <3>2 DEF ToCopy
  <2>4. \A s \in Sources \ restored[p] :
            /\ written[p][s] = sums[p].source[s]
            /\ sums[p].input[s] = sums[p].source[s]
    BY <1>4, <2>3, WhileCopying DEF Hashes, Copies, Same
  <2>5. \A s \in Sources : written[p][s] = None <=> sums[p].source[s] = None
    BY <1>4, <2>3, WhileCopying DEF Hashes
  <2>6. written[p][0] = Notice
    BY <1>4, WhileCopying DEF Copies
  <2>7. Ready(p)'
    BY <1>1, <1>2, <1>5, <2>4, <2>5, <2>6 DEF Ready, Completed, Published
  <2>. QED  BY <2>1, <2>2, <2>7 DEF Imports
<1>6. Imports(p)'
  BY <1>4, <1>5, DoneImports
<1>. QED  BY <1>1, <1>2, <1>3, <1>6, StoreAlone, StepOf DEF OthersKept, Keeps

(***************************************************************************)
(* The steps of a handler                                                  *)
(***************************************************************************)

LEMMA LoadToCancelStep ==
    ASSUME IInv, NEW h \in Handlers, NEW r \in Runs, LoadToCancel(h, r), TypeOK'
    PROVE  IInv' /\ Keeps
<1>1. /\ UNCHANGED storeVars /\ source' = source /\ restored' = restored /\ sums' = sums
      /\ OthersWait(h)
  BY DEF LoadToCancel, Goto, OthersWait, Waits, localVars, IInv, TypeOK
<1>2. h \in Processes /\ h \notin Importers
  BY ImportAssumption DEF Processes
<1>3. /\ at'[h] = r /\ Exists(r) /\ manifest' = manifest
      /\ pending'[h] = [manifest[r] EXCEPT !.status = "cancelled"]
  BY <1>1, <1>2 DEF LoadToCancel, storeVars, IInv, TypeOK
<1>4. /\ pending'[h].status = "cancelled"
      /\ pending'[h].provenance = manifest[r].provenance
  <2>1. manifest[r] \in Manifests
    BY DEF IInv, TypeOK
  <2>. QED  BY <1>3, <2>1 DEF Manifests
<1>5. Cancels(h)'
  BY <1>3, <1>4 DEF Cancels, Exists
<1>. QED  BY <1>1, <1>2, <1>5, StoreAlone, StepOf DEF OthersKept, Keeps

LEMMA MarkCancelledStep ==
    ASSUME IInv, NEW h \in Handlers, MarkCancelled(h), TypeOK'
    PROVE  IInv' /\ Keeps
<1>. USE DEF Frame, Stays, At, Goto
<1>1. /\ source' = source /\ restored' = restored /\ sums' = sums /\ OthersWait(h)
      /\ owner' = owner /\ manifest' = manifest /\ file' = file
  BY DEF MarkCancelled, RequestCancellation, Forget, OthersWait, Waits, localVars, IInv, TypeOK
<1>2. h \in Processes /\ h \notin Importers
  BY ImportAssumption DEF Processes
<1>3. pc'[h] = "idle"
  BY <1>2 DEF MarkCancelled, IInv, TypeOK
<1>4. \A q \in Importers : RunKept(q)
  BY <1>1 DEF RunKept, IInv, Imports, Own, Stored
<1>5. Keeps /\ Free' /\ ImportIsFaithful'
  BY <1>1 DEF Keeps, KeepsManifests, KeepsFiles, KeepsPublished, Exists, IInv, Free,
     ImportIsFaithful
<1>6. Cancels(h)'
  BY <1>3 DEF Cancels, SaveSteps
<1>. QED  BY <1>1, <1>2, <1>4, <1>5, <1>6, StepOf DEF OthersKept, Keeps

(***************************************************************************)
(* Saves, by an importer or a handler                                      *)
(***************************************************************************)

\* What p has done when it saves.
LEMMA WhileSaving ==
    ASSUME IInv, NEW p \in Importers, pc[p] \in SaveSteps
    PROVE  /\ Chose(p) /\ HasHashed(p) /\ HasInput(p) /\ Holds(p) /\ Stored(p)
           /\ Hashes(p) /\ Own(p) /\ Copies(p) /\ Ready(p)
           /\ at[p] \in Runs /\ owner[at[p]] = p /\ Exists(at[p])
           /\ written[p] = file[at[p]] /\ manifest[at[p]].provenance = sums[p]
           /\ manifest[at[p]].status \notin Published
           /\ \A q \in Importers \ {p} : Holds(q) => at[q] \in Runs /\ at[q] # at[p]
<1>1. Chose(p) /\ HasHashed(p) /\ HasInput(p) /\ Holds(p) /\ Stored(p)
  BY DEF Stored, Holds, HasInput, HasHashed, Chose, ImporterSteps, SaveSteps
<1>. QED  BY <1>1 DEF IInv, Imports, Own

LEMMA CheckSaveStep ==
    ASSUME IInv, NEW p \in Processes, CheckSave(p), TypeOK'
    PROVE  IInv' /\ Keeps
<1>. USE DEF Frame, Stays, At, Goto, localVars
<1>1. /\ UNCHANGED storeVars /\ source' = source /\ restored' = restored /\ sums' = sums
      /\ OthersWait(p) /\ found' = found /\ written' = written /\ content' = content /\ at' = at
  BY DEF CheckSave, Refused, Forget, OthersWait, Waits, IInv, TypeOK
<1>2. /\ pc[p] = "save"
      /\ \/ pc'[p] = "replace" /\ pending' = pending
         \/ pc'[p] = IF p \in Handlers THEN "idle" ELSE "error"
  BY DEF CheckSave, Refused, IInv, TypeOK
<1>3. p \in Importers => p \notin Handlers
  BY ImportAssumption
<1>4. p \in Importers => Imports(p)'
  <2>1. ASSUME p \in Importers, pc'[p] = "replace", pending' = pending
        PROVE  Imports(p)'
    <3>1. Imports(p)
      BY <2>1 DEF IInv
    <3>2. /\ Chose(p)' /\ HasHashed(p)' /\ HasInput(p)' /\ Holds(p)' /\ Stored(p)'
      BY <2>1 DEF Stored, Holds, HasInput, HasHashed, Chose, ImporterSteps, SaveSteps
    <3>3. pc[p] \in SaveSteps
      BY <1>2 DEF SaveSteps
    <3>4. Hashes(p)' /\ Own(p)'
      BY <1>1, <2>1, <3>2, <3>3, WhileSaving DEF Hashes, Own, Same, Exists, storeVars
    <3>5. Copies(p)'
      BY <1>1, <2>1, <3>3, WhileSaving DEF Copies, Same
    <3>6. Ready(p)'
      BY <1>1, <2>1, <3>3, WhileSaving DEF Ready
    <3>. QED  BY <3>4, <3>5, <3>6 DEF Imports
  <2>. QED  BY <1>2, <1>3, <2>1, DoneImports
<1>5. p \in Handlers => Cancels(p)'
  BY <1>1, <1>2 DEF IInv, Cancels, Exists, storeVars, SaveSteps
<1>. QED  BY <1>1, <1>4, <1>5, StoreAlone, StepOf DEF OthersKept, Keeps

LEMMA SaveFailsStep ==
    ASSUME IInv, NEW p \in Processes, SaveFails(p), TypeOK'
    PROVE  IInv' /\ Keeps
<1>. USE DEF Frame, Stays, At, Goto, localVars
<1>1. /\ UNCHANGED storeVars /\ source' = source /\ restored' = restored /\ sums' = sums
      /\ OthersWait(p)
  BY DEF SaveFails, Refused, Forget, OthersWait, Waits, IInv, TypeOK
<1>2. pc'[p] = IF p \in Handlers THEN "idle" ELSE "error"
  BY DEF SaveFails, Refused, IInv, TypeOK
<1>3. p \in Importers => Imports(p)'
  BY <1>2, ImportAssumption, DoneImports
<1>4. p \in Handlers => Cancels(p)'
  BY <1>2 DEF Cancels, SaveSteps
<1>. QED  BY <1>1, <1>3, <1>4, StoreAlone, StepOf DEF OthersKept, Keeps

\* An importer replaces the manifest of its own run.
LEMMA ImporterReplaces ==
    ASSUME IInv, NEW p \in Importers, ReplaceManifest(p), TypeOK'
    PROVE  IInv' /\ Keeps
<1>. USE DEF Frame, Stays, At, Goto, localVars
<1>. DEFINE r == at[p]
<1>1. /\ source' = source /\ restored' = restored /\ sums' = sums /\ OthersWait(p)
      /\ owner' = owner /\ file' = file
      /\ found' = found /\ written' = written /\ at' = at
  BY DEF ReplaceManifest, Replace, Forget, OthersWait, Waits, IInv, TypeOK
<1>2. p \in Processes /\ p \notin Handlers
  BY ImportAssumption DEF Processes
<1>3. pc[p] = "replace" /\ pc[p] \in SaveSteps
  BY DEF ReplaceManifest, SaveSteps
<1>4. /\ r \in Runs /\ written[p] = file[r] /\ owner[r] = p /\ Ready(p)
      /\ manifest[r].provenance = sums[p]
      /\ manifest[r].status \notin Published
      /\ \A q \in Importers \ {p} : Holds(q) => at[q] \in Runs /\ at[q] # r
  BY <1>3, WhileSaving
<1>5. manifest'[r] = pending[p] /\ \A q \in Runs \ {r} : manifest'[q] = manifest[q]
  BY <1>4 DEF ReplaceManifest, Replace, IInv, TypeOK
<1>6. pc'[p] = After(p)
  BY <1>2 DEF ReplaceManifest, IInv, TypeOK
<1>7. /\ pending[p].status \in {"running", "failed"} \union Published
      /\ pending[p].provenance = sums[p]
  BY <1>3, <1>4 DEF Ready
<1>8. Keeps
  <2>1. KeepsManifests /\ KeepsPublished
    BY <1>4, <1>5, <1>7 DEF KeepsManifests, KeepsPublished, Exists, Published
  <2>. QED  BY <1>1, <2>1 DEF Keeps, KeepsFiles
<1>9. OthersKept(p)
  BY <1>1, <1>4, <1>5, OneRun
<1>10. Free'
  <2>1. p # None
    BY ImportAssumption
  <2>. QED  BY <1>1, <1>4, <1>5, <2>1 DEF IInv, Free, Exists
<1>11. ImportIsFaithful'
  <2>1. ASSUME manifest'[r].status \in Published
        PROVE  LET m == manifest'[r] IN
                   /\ m.artifacts = file[r] /\ file[r][0] = Notice
                   /\ \A s \in Sources : file[r][s] = None <=> m.provenance.source[s] = None
                   /\ \A s \in Required : file[r][s] # None
                   /\ m.status = "partial" <=> \E s \in Sources : file[r][s] = None
                   /\ \A s \in Sources \ restored[owner[r]] :
                          /\ file[r][s] = m.provenance.source[s]
                          /\ m.provenance.input[s] = m.provenance.source[s]
    <3>1. /\ pending[p].artifacts = written[p]
          /\ written[p][0] = Notice
          /\ \A s \in Sources : written[p][s] = None <=> sums[p].source[s] = None
          /\ \A s \in Sources \ restored[p] :
                 /\ written[p][s] = sums[p].source[s]
                 /\ sums[p].input[s] = sums[p].source[s]
          /\ pending[p].status = "partial" <=> found[p] # Sources
      BY <1>3, <1>4, <1>5, <2>1 DEF Ready
    <3>2. /\ Required \subseteq found[p]
          /\ \A s \in Sources : s \in found[p] <=> sums[p].source[s] # None
      BY <1>3, WhileSaving DEF Hashes
    <3>3. found[p] \subseteq Sources
      BY DEF IInv, TypeOK
    <3>4. \A s \in Sources : s \in found[p] <=> written[p][s] # None
      BY <3>1, <3>2
    <3>5. pending[p].status = "partial" <=> \E s \in Sources : written[p][s] = None
      BY <3>1, <3>3, <3>4
    <3>6. \A s \in Required : written[p][s] # None
      BY <3>2, <3>3, <3>4
    <3>. QED  BY <1>4, <1>5, <1>7, <3>1, <3>5, <3>6
  <2>. QED  BY <1>1, <1>5, <2>1 DEF IInv, ImportIsFaithful
<1>12. Imports(p)'
  <2>1. CASE pending[p].status = "running"
    <3>1. pc'[p] = "read"
      BY <1>2, <1>6, <2>1 DEF After
    <3>2. /\ Chose(p)' /\ HasHashed(p)' /\ HasInput(p)' /\ Holds(p)' /\ Stored(p)'
      BY <3>1 DEF Stored, Holds, HasInput, HasHashed, Chose, ImporterSteps, SaveSteps
    <3>3. Hashes(p)'
      BY <1>1, <1>3, <3>2, WhileSaving DEF Hashes, Same
    <3>4. Own(p)'
      BY <1>1, <1>4, <1>5, <1>7, <2>1, <3>2 DEF Own, Exists, Published
    <3>5. Copies(p)'
      BY <1>1, <1>3, <3>1, WhileSaving DEF Copies, Same
    <3>. QED  BY <3>1, <3>3, <3>4, <3>5 DEF Imports, Ready, SaveSteps
  <2>2. CASE pending[p].status # "running"
    BY <1>2, <1>6, <2>2, DoneImports DEF After
  <2>. QED  BY <2>1, <2>2
<1>. QED  BY <1>1, <1>2, <1>8, <1>9, <1>10, <1>11, <1>12, StepOf DEF Keeps

\* A handler replaces the manifest of whatever importer's run it found queued.
LEMMA HandlerReplaces ==
    ASSUME IInv, NEW h \in Handlers, ReplaceManifest(h), TypeOK'
    PROVE  IInv' /\ Keeps
<1>. USE DEF Frame, Stays, At, Goto, localVars
<1>. DEFINE r == at[h]
<1>1. /\ source' = source /\ restored' = restored /\ sums' = sums /\ OthersWait(h)
      /\ owner' = owner /\ file' = file /\ at' = at
  BY DEF ReplaceManifest, Replace, Forget, OthersWait, Waits, IInv, TypeOK
<1>2. h \in Processes /\ h \notin Importers
  BY ImportAssumption DEF Processes
<1>3. /\ pc[h] \in SaveSteps
      /\ r \in Runs /\ Exists(r) /\ pending[h].status = "cancelled"
      /\ pending[h].provenance = manifest[r].provenance
  BY DEF ReplaceManifest, SaveSteps, IInv, Cancels
<1>4. manifest'[r] = pending[h] /\ \A q \in Runs \ {r} : manifest'[q] = manifest[q]
  BY <1>3 DEF ReplaceManifest, Replace, IInv, TypeOK
<1>5. pc'[h] = "idle"
  BY <1>2 DEF ReplaceManifest, After, IInv, TypeOK
<1>6. Keeps
  <2>1. KeepsManifests /\ KeepsPublished
    BY <1>3, <1>4 DEF KeepsManifests, KeepsPublished, Exists
  <2>. QED  BY <1>1, <2>1 DEF Keeps, KeepsFiles
<1>7. OthersKept(h)
  <2>1. \A q \in Importers : Holds(q) =>
            /\ at[q] \in Runs
            /\ Stored(q) => manifest[at[q]].status \notin Published
            /\ ~ Stored(q) => ~ Exists(at[q])
    BY DEF IInv, Imports, Own
  <2>. QED  BY <1>1, <1>3, <1>4, <2>1 DEF OthersKept, RunKept, Published
<1>8. Free'
  BY <1>1, <1>3, <1>4 DEF IInv, Free, Exists
<1>9. ImportIsFaithful'
  BY <1>1, <1>3, <1>4 DEF IInv, ImportIsFaithful, Published
<1>10. Cancels(h)'
  BY <1>5 DEF Cancels, SaveSteps
<1>. QED  BY <1>1, <1>2, <1>6, <1>7, <1>8, <1>9, <1>10, StepOf DEF Keeps

(***************************************************************************)
(* The environment                                                         *)
(***************************************************************************)

\* A changed file no longer has the checksum that an importer recorded, or the
\* importer is listed as one it changed back behind.
LEMMA ChangeSourceStep ==
    ASSUME IInv, NEW s \in Sources, ChangeSource(s), TypeOK'
    PROVE  IInv' /\ Keeps
<1>1. /\ UNCHANGED storeVars /\ pc' = pc /\ at' = at /\ pending' = pending
      /\ found' = found /\ sums' = sums /\ content' = content /\ written' = written
  BY DEF ChangeSource, localVars
<1>2. PICK new : /\ source' = [source EXCEPT ![s] = new]
                 /\ restored' = [p \in Importers |->
                        IF Importing(p) /\ new # None /\ new = sums[p].source[s]
                        THEN restored[p] \union {s} ELSE restored[p]]
  BY DEF ChangeSource
<1>3. /\ source'[s] = new /\ \A t \in Sources \ {s} : source'[t] = source[t]
      /\ \A p \in Importers : restored[p] \subseteq restored'[p]
  BY <1>2 DEF IInv, TypeOK, Versions
<1>4. Keeps /\ Free' /\ ImportIsFaithful'
  <2>1. /\ owner' = owner /\ manifest' = manifest /\ file' = file
    BY <1>1 DEF storeVars
  <2>2. Keeps /\ Free'
    BY <2>1 DEF Keeps, KeepsManifests, KeepsFiles, KeepsPublished, Exists, IInv, Free
  <2>3. ASSUME NEW r \in Runs, manifest[r].status \in Published
        PROVE  owner[r] \in Importers
    BY <2>3 DEF IInv, Free, Exists, Published, TypeOK
  <2>4. \A r \in Runs : manifest[r].status \in Published =>
            Sources \ restored'[owner[r]] \subseteq Sources \ restored[owner[r]]
    BY <1>3, <2>3
  <2>. QED  BY <2>1, <2>2, <2>4 DEF IInv, ImportIsFaithful
<1>5. ASSUME NEW p \in Importers, NEW t \in Sources,
             Importing(p), Same(p, t)', sums[p].source[t] # None
      PROVE  Same(p, t)
  BY <1>1, <1>2, <1>3, <1>5 DEF Same
<1>6. ASSUME NEW p \in Importers
      PROVE  Imports(p)'
  <2>1. /\ Chose(p)' <=> Chose(p)
        /\ HasHashed(p)' <=> HasHashed(p)
        /\ HasInput(p)' <=> HasInput(p)
        /\ Holds(p)' <=> Holds(p)
        /\ Stored(p)' <=> Stored(p)
        /\ Stored(p) => HasHashed(p)
        /\ HasInput(p) => HasHashed(p)
    BY <1>1 DEF Chose, HasHashed, HasInput, Holds, Stored
  <2>2. ToCopy(p)' = ToCopy(p) /\ NextCopy(p)' = NextCopy(p)
    BY <1>1 DEF ToCopy, NextCopy
  <2>3. Imports(p)
    BY DEF IInv
  <2>4. HasHashed(p) => \A t \in found[p] : t \in Sources /\ sums[p].source[t] # None
    BY <2>3 DEF Imports, Hashes, IInv, TypeOK
  <2>a. \A t : Same(p, t)' => t \notin restored[p]
    BY <1>3 DEF Same
  <2>5. Hashes(p)'
    <3>1. CASE Importing(p)
      BY <1>1, <1>5, <2>1, <2>3, <2>4, <3>1 DEF Imports, Hashes
    <3>2. CASE ~ Importing(p) /\ Chose(p)
      <4>1. pc[p] \in SaveSteps /\ pending[p].status \in Published
        BY <3>2 DEF Importing, Chose, ImporterSteps, SaveSteps
      <4>. QED  BY <1>1, <2>1, <2>3, <2>a, <4>1 DEF Imports, Hashes, Ready
    <3>. QED  BY <2>1, <3>1, <3>2 DEF Hashes, HasHashed, HasInput
  <2>6. Own(p)'
    BY <1>1, <2>1, <2>3 DEF Imports, Own, Exists, storeVars
  <2>7. Copies(p)'
    <3>1. ToCopy(p) # {} => NextCopy(p) \in found[p]
      BY NextIsToCopy DEF IInv, ToCopy
    <3>2. CASE Importing(p)
      BY <1>1, <1>5, <2>1, <2>2, <2>3, <2>4, <3>1, <3>2 DEF Imports, Copies
    <3>3. CASE ~ Importing(p) /\ Stored(p)
      <4>1. pc[p] \in SaveSteps /\ pending[p].status \in Published
        BY <3>3 DEF Importing, Stored, Holds, HasInput, HasHashed, Chose, ImporterSteps, SaveSteps
      <4>. QED  BY <1>1, <2>1, <2>3, <2>a, <4>1 DEF Imports, Copies, Ready, SaveSteps
    <3>. QED  BY <2>1, <3>2, <3>3 DEF Copies
  <2>8. Ready(p)'
    BY <1>1, <1>3, <2>3 DEF Imports, Ready
  <2>. QED  BY <2>5, <2>6, <2>7, <2>8 DEF Imports
<1>7. \A h \in Handlers : Cancels(h)'
  BY <1>1 DEF IInv, Cancels, Exists, storeVars
<1>. QED  BY <1>4, <1>6, <1>7 DEF IInv

LEMMA CrashStep ==
    ASSUME IInv, NEW p \in Processes, Crash(p), TypeOK'
    PROVE  IInv' /\ Keeps
<1>1. /\ UNCHANGED storeVars /\ source' = source /\ restored' = restored /\ sums' = sums
      /\ OthersWait(p)
  BY DEF Crash, OthersWait, Waits, localVars, IInv, TypeOK
<1>2. pc'[p] = "dead"
  BY DEF Crash, IInv, TypeOK
<1>3. p \in Importers => Imports(p)'
  BY <1>2, DoneImports
<1>4. p \in Handlers => Cancels(p)'
  BY <1>2 DEF Cancels, SaveSteps
<1>. QED  BY <1>1, <1>3, <1>4, StoreAlone, StepOf DEF OthersKept, Keeps

(***************************************************************************)
(* Theorems                                                                *)
(***************************************************************************)

LEMMA InitInv == Init => IInv
<1>. SUFFICES ASSUME Init PROVE IInv
  OBVIOUS
<1>1. NoReferences \in References /\ NoSums \in Checksums /\ Absent(NoSums) \in Manifests
  BY HashTypes, ManifestTypes DEF NoReferences, References
<1>2. source \in Versions
  <2>1. [version : {1}, valid : BOOLEAN] \subseteq SourceContents
    BY ImportAssumption DEF SourceContents
  <2>. QED  BY <2>1 DEF Init, Versions
<1>3. TypeOK
  BY <1>1, <1>2 DEF Init, TypeOK, Steps
<1>5. Free /\ ImportIsFaithful
  BY DEF Init, Free, ImportIsFaithful, Absent, Exists, Published
<1>6. \A p \in Processes : pc[p] = "idle"
  BY DEF Init
<1>7. ASSUME NEW p \in Importers
      PROVE  Imports(p)
  <2>1. pc[p] = "idle" /\ written[p] = NoReferences
    BY <1>6 DEF Init, Processes
  <2>. QED  BY <2>1 DEF Imports, Hashes, Own, Copies, Ready, Stored, Holds, HasInput, HasHashed,
               Chose, ImporterSteps, SaveSteps
<1>8. ASSUME NEW h \in Handlers
      PROVE  Cancels(h)
  BY <1>6 DEF Cancels, SaveSteps, Processes
<1>. QED  BY <1>3, <1>5, <1>7, <1>8 DEF IInv

LEMMA NextInv ==
    ASSUME IInv, [Next]_vars
    PROVE  IInv' /\ Keeps
<1>1. TypeOK'
  BY TypeStep
<1>2. ASSUME NEW p \in Importers, Import(p)
      PROVE  IInv' /\ Keeps
  BY <1>1, <1>2, InspectStep, HashSourcesStep, HashInputStep, ReserveRunStep,
     RunAlreadyExistsStep, PutManifestStep, CreateFailsStep, RemoveRunStep, ReadSourceStep,
     CheckRunningStep, WriteArtifactStep, CopyFailsStep, VerifySourcesStep DEF Import
<1>3. ASSUME NEW h \in Handlers, Cancel(h)
      PROVE  IInv' /\ Keeps
  BY <1>1, <1>3, LoadToCancelStep, MarkCancelledStep DEF Cancel
<1>4. ASSUME NEW p \in Processes, Save(p)
      PROVE  IInv' /\ Keeps
  <2>1. p \in Importers \/ p \in Handlers
    BY DEF Processes
  <2>. QED  BY <1>1, <1>4, <2>1, CheckSaveStep, ImporterReplaces, HandlerReplaces, SaveFailsStep
            DEF Save
<1>5. CASE UNCHANGED vars
  <2>1. /\ UNCHANGED storeVars /\ source' = source /\ restored' = restored /\ sums' = sums
        /\ \A p \in Processes : Waits(p)
    BY <1>5 DEF vars, localVars, Waits
  <2>2. /\ \A p \in Importers : Imports(p)'
        /\ \A h \in Handlers : Cancels(h)'
    BY <2>1, StoreAlone, ImportsFrame, CancelsFrame DEF Keeps, Processes
  <2>. QED  BY <1>1, <2>1, <2>2, StoreAlone DEF IInv
<1>. QED
  BY <1>1, <1>2, <1>3, <1>4, <1>5, CrashStep, ChangeSourceStep DEF Next

\* Whatever becomes of the source files, of the importers and of the handlers,
\* a published import holds exactly the files its provenance names, and every
\* one that did not change back behind the comparison (legacy_v1.py:301) with
\* the recorded checksums.
THEOREM ImportFaithful == Spec => []ImportIsFaithful
<1>1. IInv /\ [Next]_vars => IInv'
  BY NextInv
<1>2. IInv => ImportIsFaithful
  BY DEF IInv
<1>. QED  BY InitInv, <1>1, <1>2, PTL DEF Spec

\* No step of any process loses a manifest, its provenance, an artifact or, but
\* for a cancellation, a publication.
THEOREM ImportLosesNothing == Spec => NothingIsLost
<1>1. IInv /\ [Next]_vars => IInv'
  BY NextInv
<1>2. IInv /\ [Next]_vars =>
          \A r \in Runs :
              /\ Exists(r) =>
                    /\ manifest'[r].status # "absent"
                    /\ manifest'[r].provenance = manifest[r].provenance
              /\ \A a \in Artifacts : file[r][a] # None => file'[r][a] = file[r][a]
              /\ manifest[r].status \in Published =>
                    manifest'[r].status \in {manifest[r].status, "cancelled"}
  BY NextInv DEF Keeps, KeepsManifests, KeepsFiles, KeepsPublished
<1>. QED  BY InitInv, <1>1, <1>2, PTL DEF Spec, NothingIsLost

=============================================================================
