----------------------------- MODULE ArtifactStore -----------------------------
(***************************************************************************)
(* Freezing artifact packages (artifact_worker.py).  The validation of a   *)
(* submission runs in a child process that checks the submitted files,     *)
(* digests them and copies them into a store that several compiles share,  *)
(* under a name made of the layer and the digest.  The agent may still     *)
(* write its files meanwhile, and the child may be killed between any two  *)
(* of its steps.                                                           *)
(***************************************************************************)
EXTENDS LayerCascade

CONSTANTS
    Submissions,
    Contents,       \* what the files of a package may be; stands for the digest too
    DraftsOf,       \* [Submissions -> SUBSET Contents]: what the agent may submit
    Malformed,      \* contents that validate_artifact_package refuses
    Manifests,      \* artifact.yaml: start command, limits, layer
    ManifestOf,     \* [Contents -> Manifests]
    LayerOf,        \* [Manifests -> Layers]
    Follow,         \* [Contents -> Contents]: the files once links are followed
    Kept,           \* <<layer, contents>> of packages in the store from before
    Absent, Partial, Damaged,   \* what a directory of the store may hold instead
    MaxMishaps      \* bounds the kills, the agent's writes and the damage

ASSUME StoreAssumption ==
    /\ DraftsOf \in [Submissions -> SUBSET Contents]
    /\ Follow \in [Contents -> Contents]
    /\ Malformed \subseteq Contents /\ Kept \subseteq Layers \X Contents
    /\ ManifestOf \in [Contents -> Manifests]
    /\ LayerOf \in [Manifests -> Layers]
    /\ {Absent, Partial, Damaged} \cap Contents = {}
    /\ MaxMishaps \in Nat
    /\ Partial # Damaged /\ Absent # Damaged /\ Absent # Partial

VARIABLES
    source,     \* [Submissions -> Contents]: the submitted files
    store,      \* by layer and digest, what the directory of that name holds
    child,      \* [Submissions -> [step, layer, manifest, digest]]: what is known
                \* of a submission, and how far its validation process is
    mishaps     \* how many there were; nothing reads it but the bound

storeVars == <<source, store, child, mishaps>>

Steps == {"idle", "received", "checked", "copying", "frozen", "validated", "failed", "killed"}
Busy  == {"checked", "copying", "frozen"}

Children == [step : Steps, layer : Layers \cup {Absent}, manifest : Manifests \cup {Absent},
             digest : Contents \cup {Absent}]

StoreTypeOK ==
    /\ source \in [Submissions -> Contents]
    /\ store \in [Layers -> [Contents -> Contents \cup {Absent, Partial, Damaged}]]
    /\ child \in [Submissions -> Children]
    /\ mishaps \in 0 .. MaxMishaps

StoreInit ==
    /\ source \in {f \in [Submissions -> Contents] : \A s \in Submissions : f[s] \in DraftsOf[s]}
    /\ store = [l \in Layers |-> [c \in Contents |-> IF <<l, c>> \in Kept THEN c ELSE Absent]]
    /\ child = [s \in Submissions |-> [step |-> "idle", layer |-> Absent,
                                       manifest |-> Absent, digest |-> Absent]]
    /\ mishaps = 0

At(s, step) == child[s].step = step
Mishap == mishaps < MaxMishaps /\ mishaps' = mishaps + 1
GoTo(s, step) == child' = [child EXCEPT ![s].step = step]

Place(s) == store[child[s].layer]

\* verify_artifact_package_digest.
Verifies(l, digest) == store[l][digest] = digest

-----------------------------------------------------------------------------
\* validate_artifact_package: manifest, layer, contract, forbidden paths and
\* links that leave the package.  The manifest read here is the package's,
\* whatever the files are when they are digested.
CheckPackage(s) ==
    /\ At(s, "received")
    /\ IF source[s] \in Malformed \/ LayerOf[ManifestOf[source[s]]] # child[s].layer
         THEN GoTo(s, "failed")
         ELSE child' = [child EXCEPT ![s].step = "checked", ![s].manifest = ManifestOf[source[s]]]
    /\ UNCHANGED <<source, store, mishaps>>

Digested(s, step) == child' = [child EXCEPT ![s].step = step, ![s].digest = source[s]]

StartCopy(s) ==
    /\ Digested(s, "copying")
    /\ store' = [store EXCEPT ![child[s].layer][source[s]] = Partial]

\* Faulty variant: the package in place is removed and copied anew.
DigestPackageAnew(s) ==
    /\ At(s, "checked")
    /\ StartCopy(s)
    /\ UNCHANGED <<source, mishaps>>

\* freeze_artifact_package digests the files as they are now.  A directory of
\* that name that holds anything else, be it a copy that is not finished or
\* never will be, refuses the submission.
DigestPackage(s) ==
    /\ At(s, "checked")
    /\ IF Place(s)[source[s]] = Absent
         THEN StartCopy(s)
         ELSE /\ Digested(s, IF Verifies(child[s].layer, source[s]) THEN "frozen" ELSE "failed")
              /\ UNCHANGED store
    /\ UNCHANGED <<source, mishaps>>

\* copytree follows the links the digest has only named, and copies what the
\* agent has written by then.  Nothing compares the copy with the digest.
CopyPackage(s) ==
    /\ At(s, "copying")
    /\ store' = [store EXCEPT ![child[s].layer][child[s].digest] = Follow[source[s]]]
    /\ GoTo(s, "frozen")
    /\ UNCHANGED <<source, mishaps>>

\* The child is killed (time limit, user stop, crash of Core): what it was
\* copying stays as it is.
KillValidation(s) ==
    /\ child[s].step \in Busy
    /\ GoTo(s, "killed")
    /\ Mishap
    /\ UNCHANGED <<source, store>>

\* The submission is validated again: the caller still has what it received.
Revalidate(s) ==
    /\ At(s, "killed")
    /\ GoTo(s, "received")
    /\ UNCHANGED <<source, store, mishaps>>

\* The agent writes its submission, while Core reads it too.  Once it is
\* validated or refused nothing reads it again.
EditSource(s, c) ==
    /\ child[s].step \notin {"validated", "failed"}
    /\ c \in DraftsOf[s] \ {source[s]}
    /\ source' = [source EXCEPT ![s] = c]
    /\ Mishap
    /\ UNCHANGED <<store, child>>

\* A package on disk changes under the store.
Damage(l, d) ==
    /\ store[l][d] \in Contents
    /\ store' = [store EXCEPT ![l][d] = Damaged]
    /\ Mishap
    /\ UNCHANGED <<source, child>>

=============================================================================
