---------------------------- MODULE TargetWorkspace ----------------------------
(***************************************************************************)
(* The long-term workspace of a target (agent_workspace.py): attempts are   *)
(* clones of its main tree, and a closed attempt may become the next main   *)
(* tree.  The tree is replaced directory by directory and the manifest that *)
(* names its digest is written last; other compiles look at the same files, *)
(* and Core may die between any two steps.                                  *)
(***************************************************************************)
EXTENDS Naturals

CONSTANTS
    Compiles,       \* each has one attempt
    Dirs,           \* the directories of the baseline, "journal" among them
    Seed,           \* whose files lie there before the first load
    Empty,          \* a directory without files: the digest does not see it
    Missing,        \* no directory: the digest does not see that either
    NoTree

ASSUME WorkspaceAssumption ==
    /\ "journal" \in Dirs
    /\ Missing \notin Compiles \cup {Seed, Empty}
    /\ NoTree \notin [Dirs -> Compiles \cup {Seed, Empty}]

VARIABLES
    main,           \* [Dirs -> whose files it holds, Empty or Missing]
    manifest,       \* the tree whose digest it names, or NoTree
    held,           \* [Compiles -> the baseline it was loaded with, or NoTree]
    clone,          \* [Compiles -> the tree its attempt started from, or NoTree]
    advance,        \* [Compiles -> "idle", "removing", "copying", "done", "cut"]
    listed          \* [Compiles -> what an advance has still to remove or to copy]

wsVars == <<main, manifest, held, clone, advance, listed>>

Trees    == [Dirs -> Compiles \cup {Seed, Empty}]
OnDisk   == [Dirs -> Compiles \cup {Seed, Empty, Missing}]
Final(c) == [d \in Dirs |-> c]      \* an agent leaves something of its own everywhere

\* Faulty variant: directories count as well.
DigestWithDirectories(t) == t

\* _workspace_tree_digest: the files of the tree.
Digest(t) == [d \in Dirs |-> IF t[d] = Missing THEN Empty ELSE t[d]]

WorkspaceTypeOK ==
    /\ main \in OnDisk
    /\ manifest \in Trees \cup {NoTree}
    /\ held \in [Compiles -> Trees \cup {NoTree}]
    /\ clone \in [Compiles -> Trees \cup {NoTree}]
    /\ advance \in [Compiles -> {"idle", "removing", "copying", "done", "cut"}]
    /\ listed \in [Compiles -> SUBSET (Dirs \cup {"manifest"})]

WorkspaceInit(left) ==
    /\ main = left
    /\ manifest = NoTree
    /\ held = [c \in Compiles |-> NoTree]
    /\ clone = [c \in Compiles |-> NoTree]
    /\ advance = [c \in Compiles |-> "idle"]
    /\ listed = [c \in Compiles |-> {}]

-----------------------------------------------------------------------------
\* load_target_workspace.  A manifest must name the tree that is there; where
\* there is none, whatever is there becomes the baseline.
Loadable == manifest \in {NoTree, Digest(main)}

Load(c) ==
    /\ Loadable
    /\ held' = [held EXCEPT ![c] = Digest(main)]
    /\ main' = Digest(main)             \* _ensure_workspace_layout
    /\ manifest' = Digest(main)
    /\ UNCHANGED <<clone, advance, listed>>

\* It raises for good, or until an advance has come to its end.
LoadRaises ==
    /\ ~Loadable
    /\ main' = Digest(main)
    /\ UNCHANGED <<manifest, held, clone, advance, listed>>

\* create_agent_workspace digests the tree once more ...
CheckBaseline(c) ==
    /\ Digest(main) = held[c]
    /\ UNCHANGED wsVars

\* ... and then copies what is there, here in one step: what an advance or another
\* load does between the two is copied, and nothing compares it with `held' again.
Clone(c) ==
    /\ clone' = [clone EXCEPT ![c] = Digest(main)]
    /\ UNCHANGED <<main, manifest, held, advance, listed>>

\* A call that has failed takes the attempt no further.
Drop(c) ==
    /\ held' = [held EXCEPT ![c] = NoTree]
    /\ clone' = [clone EXCEPT ![c] = NoTree]
    /\ UNCHANGED <<main, manifest, advance, listed>>

-----------------------------------------------------------------------------
(* advance_target_workspace_baseline.                                       *)

\* The closed attempt is compared with the workspace as its caller loaded it,
\* which may be long ago; the disk is not looked at.  (Its own files are compared
\* with its final commit too: here nobody writes them any more.)  rmtree lists
\* the entries.
BeginAdvance(c) ==
    /\ advance[c] = "idle"
    /\ advance' = [advance EXCEPT ![c] = "removing"]
    /\ listed' = [listed EXCEPT ![c] = {d \in Dirs : main[d] # Missing}
                                         \cup {m \in {"manifest"} : manifest # NoTree}]
    /\ UNCHANGED <<main, manifest, held, clone>>

RemoveDir(c, d) ==
    /\ advance[c] = "removing"
    /\ d \in listed[c]
    /\ main[d] # Missing
    /\ main' = [main EXCEPT ![d] = Missing]
    /\ listed' = [listed EXCEPT ![c] = @ \ {d}]
    /\ UNCHANGED <<manifest, held, clone, advance>>

RemoveManifest(c) ==
    /\ advance[c] = "removing"
    /\ "manifest" \in listed[c]
    /\ manifest # NoTree
    /\ manifest' = NoTree
    /\ listed' = [listed EXCEPT ![c] = @ \ {"manifest"}]
    /\ UNCHANGED <<main, held, clone, advance>>

\* The directory itself goes last, and only if it is empty by then.
BeginCopy(c) ==
    /\ advance[c] = "removing"
    /\ listed[c] = {}
    /\ manifest = NoTree /\ \A d \in Dirs : main[d] = Missing
    /\ advance' = [advance EXCEPT ![c] = "copying"]
    /\ listed' = [listed EXCEPT ![c] = Dirs]
    /\ UNCHANGED <<main, manifest, held, clone>>

\* copytree refuses a directory that is there, also an empty one.
CopyDir(c, d) ==
    /\ advance[c] = "copying"
    /\ d \in listed[c]
    /\ main[d] = Missing
    /\ main' = [main EXCEPT ![d] = c]
    /\ listed' = [listed EXCEPT ![c] = @ \ {d}]
    /\ UNCHANGED <<manifest, held, clone, advance>>

\* Faulty variant: the manifest names what was to be copied.
WriteManifestOfAttempt(c) ==
    /\ advance[c] = "copying"
    /\ listed[c] = {}
    /\ manifest' = Final(c)
    /\ advance' = [advance EXCEPT ![c] = "done"]
    /\ UNCHANGED <<main, held, clone, listed>>

\* The digest is taken from the disk.
WriteManifest(c) ==
    /\ advance[c] = "copying"
    /\ listed[c] = {}
    /\ manifest' = Digest(main)
    /\ advance' = [advance EXCEPT ![c] = "done"]
    /\ UNCHANGED <<main, held, clone, listed>>

\* Core dies, or a step raises: what was done stays.
CutAdvance(c) ==
    /\ advance[c] \in {"removing", "copying"}
    /\ advance' = [advance EXCEPT ![c] = "cut"]
    /\ listed' = [listed EXCEPT ![c] = {}]
    /\ UNCHANGED <<main, manifest, held, clone>>

=============================================================================
