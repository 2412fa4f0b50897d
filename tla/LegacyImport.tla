---------------------------- MODULE LegacyImport ----------------------------
(***************************************************************************)
(* The importer of committed V1 artifacts (importers/legacy_v1.py) over    *)
(* the local store, together with the cancel handler of the API            *)
(* (api/app.py) that works on the same store.                              *)
(*                                                                         *)
(* Importers copy the files of one source directory, which other programs  *)
(* may change, replace or delete while they do.  Between any two steps of  *)
(* an importer others take theirs, in particular between the checks of a   *)
(* save and its replacement of the manifest.                               *)
(***************************************************************************)
EXTENDS LocalStore

CONSTANTS
    Importers,      \* processes that import
    Handlers,       \* API threads that handle cancellations
    SourceCount,    \* files of a complete source directory (5 in the code)
    MinimumCount,   \* the first ones, without which nothing is imported (2)
    VersionCount,   \* bound: versions of a source file
    MaxChanges,     \* bound: changes of source files
    MaxFaults,      \* bound: failing system calls
    MaxCrashes      \* bound: processes that die

Sources == 1 .. SourceCount
Required == 1 .. MinimumCount
Notice == [version |-> 0, valid |-> TRUE]       \* the quality warnings

SourceContents == [version : 1 .. VersionCount, valid : BOOLEAN]
Versions == [Sources -> SourceContents \union {None}]

ASSUME ImportAssumption ==
    /\ SourceCount \in Nat \ {0}
    /\ MinimumCount \in Sources
    /\ VersionCount \in Nat \ {0}
    /\ MaxChanges \in Nat /\ MaxFaults \in Nat /\ MaxCrashes \in Nat
    /\ Artifacts = 0 .. SourceCount             \* 0 is the notice
    /\ Contents = SourceContents \union {Notice}
    /\ Checksums = [source : Versions, input : Versions]
    /\ None \notin Importers /\ None \notin Runs
    /\ Importers \intersect Handlers = {}

Processes == Importers \union Handlers

VARIABLES
    source,     \* source[s]: content of source file s, or None
    changes,    \* changes of source files so far
    restored,   \* history: restored[p]: source files that changed, and changed back
                \* to what importer p had hashed, before p compared them again
    pc,         \* pc[p]: what process p does next
    at,         \* at[p]: the run p works on, or None
    found,      \* found[p]: source files that importer p found valid
    sums,       \* sums[p]: the checksums p recorded
    content,    \* content[p]: what p has read and not written yet, or None
    written,    \* written[p]: references to the artifacts p has written
    pending,    \* pending[p]: the manifest that p is saving
    faults, crashes

localVars == <<found, sums, content, written>>
vars == <<storeVars, source, changes, restored, pc, at, localVars, pending, faults, crashes>>

NoSums ==
    [source |-> [s \in Sources |-> None], input |-> [s \in Sources |-> None]]

Init ==
    /\ owner = [r \in Runs |-> None]
    /\ manifest = [r \in Runs |-> Absent(NoSums)]
    /\ file = [r \in Runs |-> NoReferences]
    /\ marker = [r \in Runs |-> FALSE]
    /\ source \in [Sources -> [version : {1}, valid : BOOLEAN] \union {None}]
    /\ changes = 0
    /\ restored = [p \in Importers |-> {}]
    /\ pc = [p \in Processes |-> "idle"]
    /\ at = [p \in Processes |-> None]
    /\ found = [p \in Importers |-> {}]
    /\ sums = [p \in Importers |-> NoSums]
    /\ content = [p \in Importers |-> None]
    /\ written = [p \in Importers |-> NoReferences]
    /\ pending = [p \in Processes |-> Absent(NoSums)]
    /\ faults = 0
    /\ crashes = 0

(***************************************************************************)
(* Environment                                                             *)
(***************************************************************************)

\* Importer p has not yet compared the checksums a second time.
Importing(p) ==
    /\ pc[p] \notin {"idle", "returned", "error", "dead"}
    /\ ~ (pc[p] \in {"save", "replace"} /\ pending[p].status \in Published)

\* Somebody writes a source file, perhaps what it was before, or deletes it.
ChangeSource(s) ==
    /\ changes < MaxChanges
    /\ changes' = changes + 1
    /\ \E new \in (SourceContents \union {None}) \ {source[s]} :
           /\ source' = [source EXCEPT ![s] = new]
           /\ restored' = [p \in Importers |->
                  IF Importing(p) /\ new # None /\ new = sums[p].source[s]
                  THEN restored[p] \union {s} ELSE restored[p]]
    /\ UNCHANGED <<storeVars, pc, at, localVars, pending, faults, crashes>>

Crash(p) ==
    /\ crashes < MaxCrashes
    /\ pc[p] \notin {"idle", "returned", "error", "dead"}
    /\ crashes' = crashes + 1
    /\ pc' = [pc EXCEPT ![p] = "dead"]
    /\ UNCHANGED <<storeVars, source, changes, restored, at, localVars, pending, faults>>

\* One more system call of p fails.
Fault == faults < MaxFaults /\ faults' = faults + 1

At(p, here) == pc[p] = here
Goto(p, there) == pc' = [pc EXCEPT ![p] = there]
Frame == UNCHANGED <<source, changes, restored, crashes>>
Stays == Frame /\ UNCHANGED at

(***************************************************************************)
(* import_directory: validation and checksums                              *)
(***************************************************************************)

FoundNow == {s \in Sources : source[s] # None}

Inspect(p) ==
    /\ At(p, "idle")
    /\ IF /\ \A s \in FoundNow : source[s].valid
          /\ Required \subseteq FoundNow
       THEN found' = [found EXCEPT ![p] = FoundNow] /\ Goto(p, "hash_sources")
       ELSE Goto(p, "error") /\ UNCHANGED found
    /\ Stays
    /\ UNCHANGED <<storeVars, sums, content, written, pending, faults>>

\* Checksums of the files of p; a file that is gone is an error.
Hashed(p) == [s \in Sources |-> IF s \in found[p] THEN source[s] ELSE None]
AllThere(p) == found[p] \subseteq FoundNow

HashSources(p) ==
    /\ At(p, "hash_sources")
    /\ IF AllThere(p)
       THEN sums' = [sums EXCEPT ![p].source = Hashed(p)] /\ Goto(p, "hash_input")
       ELSE Goto(p, "error") /\ UNCHANGED sums
    /\ Stays
    /\ UNCHANGED <<storeVars, found, content, written, pending, faults>>

\* The checksum of the set hashes every file a second time.
HashInput(p) ==
    /\ At(p, "hash_input")
    /\ IF AllThere(p)
       THEN sums' = [sums EXCEPT ![p].input = Hashed(p)] /\ Goto(p, "reserve")
       ELSE Goto(p, "error") /\ UNCHANGED sums
    /\ Stays
    /\ UNCHANGED <<storeVars, found, content, written, pending, faults>>

(***************************************************************************)
(* create                                                                  *)
(***************************************************************************)

\* The run id is a fresh one, or the one the caller asked for.
ReserveRun(p, r) ==
    /\ At(p, "reserve")
    /\ Reserve(p, r)
    /\ at' = [at EXCEPT ![p] = r]
    /\ Goto(p, "put_first")
    /\ Frame
    /\ UNCHANGED <<localVars, pending, faults>>

RunAlreadyExists(p) ==
    /\ At(p, "reserve")
    /\ \E r \in Runs : owner[r] # None
    /\ Goto(p, "error")
    /\ Stays
    /\ UNCHANGED <<storeVars, localVars, pending, faults>>

\* The first manifest, then the save of the started run.
PutManifest(p) ==
    /\ At(p, "put_first")
    /\ PutFirst(at[p], Queued(sums[p]))
    /\ pending' = [pending EXCEPT ![p] = [Queued(sums[p]) EXCEPT !.status = "running"]]
    /\ Goto(p, "save")
    /\ Stays
    /\ UNCHANGED <<localVars, faults>>

\* The first manifest could not be written, or not all of it, which nobody can
\* read: what this call made is removed, in a step of its own.
CreateFails(p) ==
    /\ At(p, "put_first")
    /\ Fault \/ (Exists(at[p]) /\ UNCHANGED faults)
    /\ Goto(p, "clean_up")
    /\ Stays
    /\ UNCHANGED <<storeVars, localVars, pending>>

RemoveRun(p) ==
    /\ At(p, "clean_up")
    /\ CleanUp(at[p])
    /\ Goto(p, "error")
    /\ Stays
    /\ UNCHANGED <<localVars, pending, faults>>

(***************************************************************************)
(* save: the checks in one step, the replacement in another                *)
(***************************************************************************)

\* Where p goes on once its manifest is replaced.
After(p) ==
    IF p \in Handlers THEN "idle"
    ELSE IF pending[p].status = "running" THEN "read"
    ELSE IF pending[p].status = "failed" THEN "error"
    ELSE "returned"

\* A handler answers a refused save with an error and is done.
Refused(p) == Goto(p, IF p \in Handlers THEN "idle" ELSE "error")
Forget(p) == pending' = [pending EXCEPT ![p] = Absent(NoSums)]

CheckSave(p) ==
    /\ At(p, "save")
    /\ IF MaySave(at[p], pending[p])
       THEN Goto(p, "replace") /\ UNCHANGED pending
       ELSE Refused(p) /\ Forget(p)
    /\ Stays
    /\ UNCHANGED <<storeVars, localVars, faults>>

ReplaceManifest(p) ==
    /\ At(p, "replace")
    /\ Replace(at[p], pending[p])
    /\ Goto(p, After(p))
    /\ Forget(p)
    /\ Stays
    /\ UNCHANGED <<localVars, faults>>

SaveFails(p) ==
    /\ pc[p] \in {"save", "replace"}
    /\ Fault
    /\ Refused(p)
    /\ Forget(p)
    /\ Stays
    /\ UNCHANGED <<storeVars, localVars>>

(***************************************************************************)
(* import_directory: the copies                                            *)
(***************************************************************************)

ToCopy(p) == {s \in found[p] : written[p][s] = None}
NextCopy(p) == CHOOSE s \in ToCopy(p) : \A t \in ToCopy(p) : s <= t

\* The artifact p writes next: the sources in order, then the notice.
NextArtifact(p) == IF ToCopy(p) = {} THEN 0 ELSE NextCopy(p)

ReadSource(p) ==
    /\ At(p, "read")
    /\ ToCopy(p) # {} => source[NextCopy(p)] # None
    /\ content' = [content EXCEPT ![p] =
                      IF ToCopy(p) = {} THEN Notice ELSE source[NextCopy(p)]]
    /\ Goto(p, "write")
    /\ Stays
    /\ UNCHANGED <<storeVars, found, sums, written, pending, faults>>

\* write_artifact asks whether the run is running, and links the file later.
CheckRunning(p) ==
    /\ At(p, "write")
    /\ IsRunning(at[p])
    /\ Goto(p, "link")
    /\ Stays
    /\ UNCHANGED <<storeVars, localVars, pending, faults>>

WriteArtifact(p) ==
    LET a == NextArtifact(p) IN
        /\ At(p, "link")
        /\ MayLink(at[p], a)
        /\ Link(at[p], a, content[p])
        /\ written' = [written EXCEPT ![p][a] = content[p]]
        /\ content' = [content EXCEPT ![p] = None]
        /\ Goto(p, IF a = 0 THEN "verify" ELSE "read")
        /\ Stays
        /\ UNCHANGED <<found, sums, pending, faults>>

Failed(p) ==
    [status |-> "failed", provenance |-> sums[p], artifacts |-> NoReferences]

\* A source that is gone, a run that is not running, a file that is there or
\* a failing call: the import is saved as failed.
CopyFails(p) ==
    /\ \/ At(p, "read") /\ ToCopy(p) # {} /\ source[NextCopy(p)] = None /\ UNCHANGED faults
       \/ At(p, "write") /\ ~IsRunning(at[p]) /\ UNCHANGED faults
       \/ At(p, "link") /\ ~MayLink(at[p], NextArtifact(p)) /\ UNCHANGED faults
       \/ pc[p] \in {"read", "write", "link"} /\ Fault
    /\ pending' = [pending EXCEPT ![p] = Failed(p)]
    /\ Goto(p, "save")
    /\ Stays
    /\ UNCHANGED <<storeVars, localVars>>

\* Mutant: the checksums after the copies are not compared.
MutantUnchanged(p) == AllThere(p)

\* The files still have the checksums of the start.
Unchanged(p) == AllThere(p) /\ Hashed(p) = sums[p].source

Completed(p) ==
    [status |-> IF found[p] = Sources THEN "succeeded" ELSE "partial",
     provenance |-> sums[p], artifacts |-> written[p]]

\* A source that changed is an error that leaves the run running.
VerifySources(p) ==
    /\ At(p, "verify")
    /\ IF Unchanged(p)
       THEN pending' = [pending EXCEPT ![p] = Completed(p)] /\ Goto(p, "save")
       ELSE Goto(p, "error") /\ UNCHANGED pending
    /\ Stays
    /\ UNCHANGED <<storeVars, localVars, faults>>

Import(p) ==
    \/ Inspect(p) \/ HashSources(p) \/ HashInput(p)
    \/ (\E r \in Runs : ReserveRun(p, r)) \/ RunAlreadyExists(p)
    \/ PutManifest(p) \/ CreateFails(p) \/ RemoveRun(p)
    \/ ReadSource(p) \/ CheckRunning(p) \/ WriteArtifact(p) \/ CopyFails(p) \/ VerifySources(p)

(***************************************************************************)
(* The cancel handler of the API                                           *)
(***************************************************************************)

\* Terminal and unknown runs are refused; a queued run is saved as cancelled,
\* a running one gets a marker.
LoadToCancel(h, r) ==
    /\ At(h, "idle")
    /\ Exists(r) /\ manifest[r].status \notin Terminal
    /\ at' = [at EXCEPT ![h] = r]
    /\ pending' = [pending EXCEPT ![h] = [manifest[r] EXCEPT !.status = "cancelled"]]
    /\ Goto(h, IF manifest[r].status = "queued" THEN "save" ELSE "mark")
    /\ UNCHANGED <<storeVars, source, changes, restored, localVars, faults, crashes>>

MarkCancelled(h) ==
    /\ At(h, "mark")
    /\ RequestCancellation(at[h])
    /\ Goto(h, "idle")
    /\ Forget(h)
    /\ Stays
    /\ UNCHANGED <<localVars, faults>>

Cancel(h) == (\E r \in Runs : LoadToCancel(h, r)) \/ MarkCancelled(h)

Save(p) == CheckSave(p) \/ ReplaceManifest(p) \/ SaveFails(p)

Next ==
    \/ \E p \in Importers : Import(p)
    \/ \E h \in Handlers : Cancel(h)
    \/ \E p \in Processes : Save(p) \/ Crash(p)
    \/ \E s \in Sources : ChangeSource(s)

Spec == Init /\ [][Next]_vars

(***************************************************************************)
(* Properties                                                              *)
(***************************************************************************)

\* What a published import holds, whatever happened to the source and to the store
\* meanwhile.  Always: the notice and exactly the files its provenance names, on
\* disk as registered, the required ones among them, and it is partial exactly when
\* a file of the set is missing.  For every source file that did not change back
\* behind the comparison of legacy_v1.py:301: the content the provenance records,
\* in both checksums.  A file that was another one only while line 183 or 237 read
\* it escapes, since the comparison reads the sources and not the copies: it may be
\* published with neither checksum, although MILESTONE_3.md:25 has checksums
\* "recorded before copying and verified again afterward".
ImportIsFaithful ==
    \A r \in Runs :
        LET m == manifest[r] IN
        m.status \in Published =>
            /\ m.artifacts = file[r] /\ file[r][0] = Notice
            /\ \A s \in Sources : file[r][s] = None <=> m.provenance.source[s] = None
            /\ \A s \in Required : file[r][s] # None
            /\ m.status = "partial" <=> \E s \in Sources : file[r][s] = None
            /\ \A s \in Sources \ restored[owner[r]] :
                   /\ file[r][s] = m.provenance.source[s]
                   /\ m.provenance.input[s] = m.provenance.source[s]

\* The store loses nothing: no step of any process removes a manifest, changes
\* its provenance, or removes or changes a file that was written, and a run
\* published once is afterwards published as it was, or cancelled by a handler
\* that had found it queued.
NothingIsLost ==
    [][\A r \in Runs :
          /\ Exists(r) =>
                /\ manifest'[r].status # "absent"
                /\ manifest'[r].provenance = manifest[r].provenance
          /\ \A a \in Artifacts : file[r][a] # None => file'[r][a] = file[r][a]
          /\ manifest[r].status \in Published =>
                manifest'[r].status \in {manifest[r].status, "cancelled"}]_vars

=============================================================================
