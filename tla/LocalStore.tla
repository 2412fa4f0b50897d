----------------------------- MODULE LocalStore -----------------------------
(***************************************************************************)
(* The filesystem store of analysis runs (storage/local_analysis_runs.py): *)
(* one directory per run with its manifest, its artifacts and the marker   *)
(* of a cancellation.                                                      *)
(*                                                                         *)
(* The store takes no lock.  Its guarantees rest on four system calls, one *)
(* operator each: the exclusive mkdir of a namespace, the exclusive        *)
(* creation of the first manifest, the replacement of a manifest by a      *)
(* rename and the link that publishes an artifact.  Whoever calls save     *)
(* checks first and replaces later; the callers are in LegacyImport.       *)
(*                                                                         *)
(* A digest stands for the content it was computed from: two contents have *)
(* one digest only if they are equal.                                      *)
(***************************************************************************)
EXTENDS Integers

CONSTANTS
    Runs,           \* run ids that callers may ask for
    Artifacts,      \* artifact ids of a run
    Checksums,      \* what the immutable parameters of a run may record
    Contents,       \* contents of artifact files
    None            \* no content, no directory

ASSUME StoreAssumption == None \notin Contents

VARIABLES
    owner,      \* owner[r]: the process that made the directory of r, or None
    manifest,   \* manifest[r]: the stored manifest of r
    file,       \* file[r][a]: content of artifact file a of r, or None
    marker      \* marker[r]: is there a cancellation marker for r?

storeVars == <<owner, manifest, file, marker>>

(***************************************************************************)
(* Manifests.  Provenance stands for the fields that a save may not change *)
(***************************************************************************)

Terminal == {"succeeded", "partial", "failed", "cancelled"}
Published == {"succeeded", "partial"}

References == [Artifacts -> Contents \union {None}]
NoReferences == [a \in Artifacts |-> None]

Manifests ==
    {m \in [status : {"absent", "queued", "running"} \union Terminal,
            provenance : Checksums, artifacts : References] :
        m.status \notin Published => m.artifacts = NoReferences}

Absent(provenance) ==
    [status |-> "absent", provenance |-> provenance, artifacts |-> NoReferences]

Queued(provenance) == [Absent(provenance) EXCEPT !.status = "queued"]

Exists(r) == manifest[r].status # "absent"

(***************************************************************************)
(* create                                                                  *)
(***************************************************************************)

\* Mutant: mkdir(exist_ok=True).
MutantReserve(p, r) ==
    /\ owner' = [owner EXCEPT ![r] = p]
    /\ UNCHANGED <<manifest, file, marker>>

\* The directory did not exist: mkdir succeeds for one caller.
Reserve(p, r) ==
    /\ owner[r] = None
    /\ owner' = [owner EXCEPT ![r] = p]
    /\ UNCHANGED <<manifest, file, marker>>

\* open("xb") of the first manifest.
PutFirst(r, m) ==
    /\ ~Exists(r)
    /\ manifest' = [manifest EXCEPT ![r] = m]
    /\ UNCHANGED <<owner, file, marker>>

\* The first manifest could not be written: what this call made is removed.
CleanUp(r) ==
    /\ owner' = [owner EXCEPT ![r] = None]
    /\ manifest' = [manifest EXCEPT ![r] = Absent(manifest[r].provenance)]
    /\ UNCHANGED <<file, marker>>

(***************************************************************************)
(* save                                                                    *)
(***************************************************************************)

ReplacedBy ==
    ({"queued"} \X {"queued", "running", "failed", "cancelled"})
        \union ({"running"} \X ({"running"} \union Terminal))

\* _verify_artifacts: what is registered is on disk as registered.
Verified(r, references) ==
    \A a \in Artifacts :
        references[a] # None => file[r][a] = references[a]

\* The checks of save, on the manifest that is stored when they are made.
MaySave(r, m) ==
    /\ Exists(r)
    /\ <<manifest[r].status, m.status>> \in ReplacedBy
    /\ m.provenance = manifest[r].provenance
    /\ m.status \in Published => Verified(r, m.artifacts)

\* os.replace, whatever is stored by now.
Replace(r, m) ==
    /\ manifest' = [manifest EXCEPT ![r] = m]
    /\ UNCHANGED <<owner, file, marker>>

(***************************************************************************)
(* write_artifact and request_cancellation                                 *)
(***************************************************************************)

\* Artifacts are written while the run is running, each once: the first is
\* checked when the call begins, the second by the link that ends it.
IsRunning(r) == manifest[r].status = "running"
MayLink(r, a) == file[r][a] = None

Link(r, a, content) ==
    /\ file' = [file EXCEPT ![r][a] = content]
    /\ UNCHANGED <<owner, manifest, marker>>

RequestCancellation(r) ==
    /\ marker' = [marker EXCEPT ![r] = @ \/ manifest[r].status \notin Terminal]
    /\ UNCHANGED <<owner, manifest, file>>

=============================================================================
