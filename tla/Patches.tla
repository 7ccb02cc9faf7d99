------------------------------- MODULE Patches -------------------------------
(***************************************************************************)
(* The script apply_patch.py, over several runs: it compares the sources   *)
(* of each package with its patch, removes what matches neither side of    *)
(* it, lets cargo fetch that again, and applies the patches.               *)
(*                                                                         *)
(* Between runs patches are updated and toolchains installed; a run may be *)
(* killed anywhere.                                                        *)
(***************************************************************************)
EXTENDS Integers, Sequences

CONSTANTS
  Std,         \* packages of the standard library: their patches are downloaded
  Fetched,     \* packages that cargo fetches, from crates.io or git
  Files,
  Contents,    \* contents of files, known by their hashes
  Zero,        \* the hash of a file that is not there
  Original,    \* by package: its sources
  PatchesOf,   \* by package: the patches it may get
  NoPatch, Gone,
  MaxStarts,   \* bound: how often the script is started
  MaxFailures  \* bound: how many failures a behaviour may have

Packages == Std \cup Fetched

\* The part of a patch that is about one file; `before` is Zero for a new file.
\* No patch deletes one, and a patch has one part for each file it changes, as
\* git writes it.
Hunks == [file : Files, before : Contents \cup {Zero}, after : Contents]
Trees == [Files -> Contents \cup {Zero}]

ASSUME PatchesAssumption ==
  /\ Std \cap Fetched = {}
  /\ Zero \notin Contents
  /\ Original \in [Packages -> Trees] /\ Gone \notin Trees
  /\ \A p \in Packages : PatchesOf[p] \subseteq Seq(Hunks)
  /\ \A p \in Packages : \A q \in PatchesOf[p] :
       \A j, k \in DOMAIN q : q[j].file = q[k].file => j = k
  /\ NoPatch \notin Seq(Hunks)
  /\ MaxStarts \in Nat /\ MaxFailures \in Nat

VARIABLES
  tree,      \* by package: the sources on the disk, or Gone
  patch,     \* by package: its file in patches/, or NoPatch
  stage,     \* "download", "scan", "report", or between runs
  target,    \* "host", what rustc -vV says, or "patch", the path of a patch
  queue,     \* packages that this stage still has to do
  status,    \* by package: what patch_inner has returned, or "none"
  starts, failures,
  undisturbed,  \* history: nothing has failed in this run
  fresh,     \* history: packages that were not there when the run started
  exit       \* history: "none", "ok", "err" of the last run, if nothing came since

patchesVars == <<tree, patch, stage, target, queue, status, starts, failures, undisturbed,
                 fresh, exit>>

Failure == failures < MaxFailures /\ failures' = failures + 1 /\ undisturbed' = FALSE
NoFailure == UNCHANGED <<failures, undisturbed>>

PatchesInit ==
  /\ tree = [p \in Packages |-> IF p \in Std THEN Original[p] ELSE Gone]
  /\ patch \in [Packages -> UNION {PatchesOf[p] : p \in Fetched} \cup {NoPatch}]
  /\ \A p \in Packages : patch[p] \in (IF p \in Std THEN {NoPatch} ELSE PatchesOf[p])
  /\ stage = "off" /\ target = "host" /\ queue = {} /\ fresh = {}
  /\ status = [p \in Packages |-> "none"]
  /\ starts = 0 /\ failures = 0 /\ undisturbed = TRUE /\ exit = "none"

\* The patch of p comes with a new version of this repository; rustup installs a
\* new library.
Update(p, q) ==
  /\ stage = "off"
  /\ \/ p \in Fetched /\ patch' = [patch EXCEPT ![p] = q] /\ UNCHANGED tree
     \/ p \in Std /\ tree' = [tree EXCEPT ![p] = Original[p]] /\ UNCHANGED patch
  /\ exit' = "none"
  /\ UNCHANGED <<stage, target, queue, status, starts, failures, undisturbed, fresh>>

Missing == {p \in Packages : tree[p] = Gone}

\* `cargo fetch --target t`: it fetches what is missing and leaves the rest as it
\* is.  A path is no target that it knows: it gives up, and has at most checked
\* out packages on the way.  Nobody looks at its answer.
CargoFetch(t) ==
  \E S \in SUBSET Missing :
    /\ t = "host" => S = Missing
    /\ tree' = [p \in Packages |-> IF p \in S THEN Original[p] ELSE tree[p]]

\* With --std-patch-server '' nothing is downloaded.
Begin ==
  /\ stage = "off"
  /\ starts < MaxStarts
  /\ starts' = starts + 1
  /\ target' = "host"
  /\ \/ CargoFetch("host") /\ undisturbed' = TRUE /\ UNCHANGED failures
     \/ UNCHANGED tree /\ Failure
  /\ fresh' = Missing
  /\ stage' = "download" /\ queue' \in {Std, {}}
  /\ status' = [p \in Packages |-> "none"] /\ exit' = "none"
  /\ UNCHANGED patch

\* The server sends a patch, which may as well be an error page, one without
\* hunks, and `target` becomes the path of its file, before it is written there:
\* when that fails the old one stays.  Or the server cannot be reached.
Download(p, q) ==
  /\ stage = "download"
  /\ p \in queue
  /\ queue' = queue \ {p}
  /\ \/ patch' = [patch EXCEPT ![p] = q] /\ target' = "patch"
     \/ UNCHANGED <<patch, target>>
  /\ UNCHANGED <<tree, stage, status, starts, failures, undisturbed, fresh, exit>>

Downloaded ==
  /\ stage = "download" /\ queue = {}
  /\ stage' = "scan"
  /\ queue' = {p \in Packages : patch[p] # NoPatch}
  /\ UNCHANGED <<tree, patch, target, status, starts, failures, undisturbed, fresh, exit>>

\* check_hunk for both sides; /dev/null is not found, and its hash is zero.
Source(t, h) == h.before \in {Zero, t[h.file]}
Target(t, h) == h.after = t[h.file]

\* Mutant: the first hunk decides.
Sides_First(t, q) ==
  IF q = <<>> \/ Target(t, q[1]) THEN "patched"
  ELSE IF Source(t, q[1]) THEN "clean" ELSE "broken"

\* The loop over the hunks: all of one side, and the patched one if all match
\* both.
Sides(t, q) ==
  IF \A k \in DOMAIN q : Target(t, q[k]) THEN "patched"
  ELSE IF \A k \in DOMAIN q : Source(t, q[k]) THEN "clean" ELSE "broken"

\* patch_inner: a broken package is removed, but not one of the library.
Scan(p) ==
  /\ stage = "scan"
  /\ p \in queue
  /\ tree[p] # Gone
  /\ queue' = queue \ {p}
  /\ LET s == Sides(tree[p], patch[p])
     IN  /\ status' = [status EXCEPT ![p] = IF s = "broken" /\ p \in Std THEN "discard" ELSE s]
         /\ tree' = [tree EXCEPT ![p] = IF s = "broken" /\ p \in Fetched THEN Gone ELSE @]
  /\ UNCHANGED <<patch, stage, target, starts, fresh, exit>>
  /\ NoFailure

\* "Cannot find": cargo has not fetched it, and the script ends.
NotFound(p) ==
  /\ stage = "scan"
  /\ p \in queue
  /\ tree[p] = Gone
  /\ stage' = "off" /\ exit' = "err"
  /\ UNCHANGED <<tree, patch, target, queue, status, starts, fresh>>
  /\ NoFailure

\* need_fetch: with the target that a download has left.
Scanned ==
  /\ stage = "scan" /\ queue = {}
  /\ \/ (\E p \in Packages : status[p] = "broken") /\ CargoFetch(target) /\ NoFailure
     \/ (\E p \in Packages : status[p] = "broken") /\ UNCHANGED tree /\ Failure
     \/ (\A p \in Packages : status[p] # "broken") /\ UNCHANGED tree /\ NoFailure
  /\ stage' = "report"
  /\ queue' = {p \in Packages : status[p] # "none"}
  /\ UNCHANGED <<patch, target, status, starts, fresh, exit>>

\* `git apply --reject`: the files of S get their new contents, unless they
\* differ from what the patch expects.
Applied(t, q, S) ==
  [f \in Files |->
    IF f \in S /\ \E k \in DOMAIN q : q[k].file = f /\ q[k].before = t[f]
    THEN q[CHOOSE k \in DOMAIN q : q[k].file = f /\ q[k].before = t[f]].after
    ELSE t[f]]

\* Without its directory git fails, which nobody looks at.
Report(p) ==
  /\ stage = "report"
  /\ p \in queue
  /\ queue' = queue \ {p}
  /\ tree' = IF status[p] \in {"clean", "broken"} /\ tree[p] # Gone
             THEN [tree EXCEPT ![p] = Applied(tree[p], patch[p], Files)]
             ELSE tree
  /\ UNCHANGED <<patch, stage, target, status, starts, fresh, exit>>
  /\ NoFailure

Reported ==
  /\ stage = "report" /\ queue = {}
  /\ stage' = "off" /\ exit' = "ok"
  /\ UNCHANGED <<tree, patch, target, queue, status, starts, failures, undisturbed, fresh>>

\* The script is killed, perhaps within rmtree or git apply.
Kill ==
  /\ stage # "off"
  /\ \/ UNCHANGED tree
     \/ \E p \in queue, S \in SUBSET Files :
          /\ tree[p] # Gone
          /\ \/ /\ stage = "scan" /\ p \in Fetched
                /\ Sides(tree[p], patch[p]) = "broken"
                /\ tree' = [tree EXCEPT ![p] = [f \in Files |-> IF f \in S THEN Zero ELSE @[f]]]
             \/ /\ stage = "report" /\ status[p] \in {"clean", "broken"}
                /\ tree' = [tree EXCEPT ![p] = Applied(@, patch[p], S)]
  /\ stage' = "off" /\ exit' = "none"
  /\ Failure
  /\ UNCHANGED <<patch, target, queue, status, starts, fresh>>

PatchesNext ==
  \/ \E p \in Packages : \E q \in PatchesOf[p] : Update(p, q)
  \/ Begin
  \/ \E p \in Std : \E q \in PatchesOf[p] \cup {patch[p]} : Download(p, q)
  \/ Downloaded
  \/ \E p \in Packages : Scan(p) \/ NotFound(p)
  \/ Scanned
  \/ \E p \in Packages : Report(p)
  \/ Reported
  \/ Kill

PatchesSpec == PatchesInit /\ [][PatchesNext]_patchesVars

-----------------------------------------------------------------------------
(* Properties.                                                             *)

Done(p) ==
  tree[p] # Gone /\ \A k \in DOMAIN patch[p] : Target(tree[p], patch[p][k])

\* The patch is for the sources that cargo has.
Fits(p) ==
  \A k \in DOMAIN patch[p] : patch[p][k].before = Original[p][patch[p][k].file]

\* A package that the run has removed, and that the fetch with the path of a patch
\* for a target has not brought back.  It was there when the run started.
LeftOut(p) ==
  status[p] = "broken" /\ tree[p] = Gone /\ target = "patch" /\ p \notin fresh

\* A run in which nothing fails leaves every package patched as its present patch
\* says, whatever earlier versions of it and killed runs have left on the disk
\* (apply_patch.py 59-88, 134, 175-202); of a library that it cannot repair it says
\* so.  Two exceptions: the side before the patch of a new file always matches
\* (line 51), also when an older version of the file is there, and git rejects it;
\* and after a download a package that does not match is removed and left out
\* (lines 86, 157, 192), but the next run fetches and patches it: no run leaves out
\* what it found missing.
Repaired ==
  stage = "off" /\ exit = "ok" /\ undisturbed =>
    \A p \in Packages :
      \/ status[p] = "none"
      \/ Done(p)
      \/ p \in Std /\ status[p] = "discard"
      \/ p \in Fetched /\ ~Fits(p)
      \/ LeftOut(p)
      \/ /\ status[p] = "clean"
         /\ \A k \in DOMAIN patch[p] :
              patch[p][k].before = Zero \/ Target(tree[p], patch[p][k])

\* "you can just run the script ./apply_patch.py before `cargo build` to finish"
\* (README.md 54): a run in which nothing fails and that removes a package brings
\* it back with its patch.
RunSuffices ==
  stage = "off" /\ exit = "ok" /\ undisturbed =>
    \A p \in Fetched : status[p] = "broken" /\ Fits(p) => Done(p)
=============================================================================
