----------------------------- MODULE AirgapBundle -----------------------------
(* The air-gap tool, scripts/airgap.py: "download" collects a Helm chart and  *)
(* its images into a bundle directory, people carry a copy across the gap,    *)
(* "upload" pushes what it holds to the registry inside.                      *)
(*                                                                            *)
(* A download works in a staging directory with a fresh name beside --bundle  *)
(* and renames it at the very end.  Several downloads may aim at the same     *)
(* --bundle, several uploads may push the same copy; each may fail at every   *)
(* tool it calls, or be killed, and is then run again.  A directory is its    *)
(* chart package, its image layouts and its manifest; a layout is the source  *)
(* it was copied from and whether all its blobs are there and intact.         *)
EXTENDS Integers, Sequences, SequencesExt

CONSTANTS
    Downloads,    \* the download commands people run, with the same --bundle
    Uploads,      \* the upload commands, for the same registry
    Lists,        \* the image lists they may ask for
    Absent,       \* no such file or directory
    MaxFaults     \* bound: failures, kills and damages

ASSUME MaxFaultsAssumption == MaxFaults \in Nat

\* The entries of the lists, as image_entry reads them.
Images       == UNION {ToSet(list) : list \in Lists}
Sources      == {image.source : image \in Images}
Destinations == {image.destination : image \in Images}

ASSUME ListsAssumption == Lists \subseteq Seq(Images)

VARIABLES
    download,   \* where each download is
    images,     \* the images it has to copy
    stage,      \* its staging directory
    bundle,     \* the directory at --bundle
    copy,       \* the directory that was carried across the gap
    upload,     \* where each upload is
    next,       \* the image it pushes next
    registry,   \* registry[d]: the source of what lies there at d
    released,   \* is the chart in the registry
    faults      \* failures, kills and damages so far

collecting == <<download, images, stage, bundle>>
pushing    == <<upload, next, registry, released>>
vars       == <<collecting, copy, pushing, faults>>

Charts      == {Absent, "package", "damaged"}
Layouts     == [source : Sources, whole : BOOLEAN]
Manifests   == [images : Seq(Images), chart : Charts, layouts : Seq(Layouts)]
Directories == [chart : Charts, layouts : Seq(Layouts),
                manifest : Manifests \cup {Absent}]

Collecting == {"chart", "images", "manifest", "validate", "check", "rename"}

TypeOK ==
    /\ download \in [Downloads -> Collecting \cup
                               {"idle", "cleanup", "killed", "done"}]
    /\ images \in [Downloads -> Seq(Images)]
    /\ stage \in [Downloads -> Directories \cup {Absent}]
    /\ bundle \in Directories \cup {Absent}
    /\ copy \in Directories \cup {Absent}
    /\ upload \in [Uploads -> {"idle", "push", "done"}]
    /\ next \in [Uploads -> Nat \ {0}]
    /\ registry \in [Destinations -> Sources \cup {Absent}]
    /\ released \in BOOLEAN
    /\ faults \in 0..MaxFaults

Init ==
    /\ download = [d \in Downloads |-> "idle"]
    /\ images = [d \in Downloads |-> <<>>]
    /\ stage = [d \in Downloads |-> Absent]
    /\ bundle = Absent
    /\ copy = Absent
    /\ upload = [u \in Uploads |-> "idle"]
    /\ next = [u \in Uploads |-> 1]
    /\ registry = [d \in Destinations |-> Absent]
    /\ released = FALSE
    /\ faults = 0

-----------------------------------------------------------------------------
(* unique_images and validate_bundle.                                         *)

\* A repeated entry is dropped, ...
UniqueImages(list) ==
    LET Add(kept, image) == IF image \in ToSet(kept) THEN kept ELSE Append(kept, image)
        seen[n \in 0..Len(list)] == IF n = 0 THEN <<>> ELSE Add(seen[n - 1], list[n])
    IN  seen[Len(list)]

OneSourceEach(list) ==
    \A i, j \in DOMAIN list : list[i].destination = list[j].destination => i = j

\* ... and a list is refused when two sources share a destination.
Acceptable(list) == list # <<>> /\ OneSourceEach(UniqueImages(list))

\* The manifest has the expected form, the artifacts are those of its inventory,
\* with its checksums, there is one chart, and each image has a layout that is
\* whole (validate_layout).
ValidBundle(b) ==
    /\ b # Absent
    /\ b.manifest # Absent /\ b.manifest \in Manifests
    /\ b.chart = b.manifest.chart /\ b.layouts = b.manifest.layouts
    /\ b.chart # Absent
    /\ b.manifest.images # <<>> /\ OneSourceEach(b.manifest.images)
    /\ Len(b.layouts) = Len(b.manifest.images)
    /\ \A i \in DOMAIN b.layouts : b.layouts[i].whole

-----------------------------------------------------------------------------
(* download: one process per command.                                         *)

\* A failure, a kill or a damage.
Fault == faults < MaxFaults /\ faults' = faults + 1

Go(d, from, to) == download[d] = from /\ download' = [download EXCEPT ![d] = to]

\* Mutated form: the staging directory has a fixed name.
BeginInFixedStage(d) ==
    /\ bundle = Absent
    /\ \A e \in Downloads : stage[e] = Absent
    /\ \E list \in Lists : Acceptable(list)
                             /\ images' = [images EXCEPT ![d] = UniqueImages(list)]
    /\ download[d] \in {"idle", "killed"}
    /\ download' = [download EXCEPT ![d] = "chart"]
    /\ stage' = [stage EXCEPT ![d] = [chart |-> Absent, layouts |-> <<>>,
                                      manifest |-> Absent]]
    /\ UNCHANGED <<bundle, copy, pushing, faults>>

\* The arguments are checked and mkdtemp makes a directory no one else has;
\* what a killed command left is not looked at.
Begin(d) ==
    /\ bundle = Absent
    /\ \E list \in Lists : Acceptable(list)
                             /\ images' = [images EXCEPT ![d] = UniqueImages(list)]
    /\ download[d] \in {"idle", "killed"}
    /\ download' = [download EXCEPT ![d] = "chart"]
    /\ stage' = [stage EXCEPT ![d] = [chart |-> Absent, layouts |-> <<>>,
                                      manifest |-> Absent]]
    /\ UNCHANGED <<bundle, copy, pushing, faults>>

PullChart(d) ==
    /\ Go(d, "chart", "images")
    /\ stage' = [stage EXCEPT ![d].chart = "package"]
    /\ UNCHANGED <<images, bundle, copy, pushing, faults>>

\* skopeo copies the next image; what it leaves is looked at by Validate.
CopyImage(d, whole) ==
    /\ download[d] = "images"
    /\ Len(stage[d].layouts) < Len(images[d])
    /\ stage' = [stage EXCEPT ![d].layouts =
                    Append(@, [source |-> images[d][Len(@) + 1].source, whole |-> whole])]
    /\ UNCHANGED <<download, images, bundle, copy, pushing>>

CopyWholeImage(d) == CopyImage(d, TRUE) /\ UNCHANGED faults

CopyPartOfImage(d) == CopyImage(d, FALSE) /\ Fault

ImagesCopied(d) ==
    /\ Go(d, "images", "manifest")
    /\ Len(stage[d].layouts) = Len(images[d])
    /\ UNCHANGED <<images, stage, bundle, copy, pushing, faults>>

WriteManifest(d) ==
    /\ Go(d, "manifest", "validate")
    /\ stage' = [stage EXCEPT ![d].manifest =
                    [images |-> images[d], chart |-> stage[d].chart,
                     layouts |-> stage[d].layouts]]
    /\ UNCHANGED <<images, bundle, copy, pushing, faults>>

Validate(d) ==
    /\ Go(d, "validate", IF ValidBundle(stage[d]) THEN "check" ELSE "cleanup")
    /\ UNCHANGED <<images, stage, bundle, copy, pushing, faults>>

\* "--bundle appeared during download"
CheckAbsent(d) ==
    /\ Go(d, "check", IF bundle = Absent THEN "rename" ELSE "cleanup")
    /\ UNCHANGED <<images, stage, bundle, copy, pushing, faults>>

\* Mutated form: whatever is at --bundle by now is replaced.
RenameOver(d) ==
    /\ Go(d, "rename", "done")
    /\ bundle' = stage[d]
    /\ stage' = [stage EXCEPT ![d] = Absent]
    /\ UNCHANGED <<images, copy, pushing, faults>>

\* rename(2) moves the directory in one step, and onto no other bundle.
Rename(d) ==
    /\ bundle = Absent
    /\ Go(d, "rename", "done")
    /\ bundle' = stage[d]
    /\ stage' = [stage EXCEPT ![d] = Absent]
    /\ UNCHANGED <<images, copy, pushing, faults>>

RenameRefused(d) ==
    /\ bundle # Absent
    /\ Go(d, "rename", "cleanup")
    /\ UNCHANGED <<images, stage, bundle, copy, pushing, faults>>

\* A tool or the disk fails, or the command is interrupted.
DownloadFails(d) ==
    /\ Fault
    /\ download[d] \in Collecting
    /\ download' = [download EXCEPT ![d] = "cleanup"]
    /\ UNCHANGED <<images, stage, bundle, copy, pushing>>

\* The finally block.
Cleanup(d) ==
    /\ Go(d, "cleanup", "idle")
    /\ stage' = [stage EXCEPT ![d] = Absent]
    /\ UNCHANGED <<images, bundle, copy, pushing, faults>>

\* SIGKILL or SIGTERM, or a power failure: nothing is cleaned up.
KillDownload(d) ==
    /\ Fault
    /\ download[d] \in Collecting \cup {"cleanup"}
    /\ download' = [download EXCEPT ![d] = "killed"]
    /\ UNCHANGED <<images, stage, bundle, copy, pushing>>

-----------------------------------------------------------------------------
(* People carry the bundle across the gap, and again if it did not validate.  *)

\* What may become of a bundle on its way: an artifact or the manifest is lost,
\* cut short or damaged.
Damaged(b) ==
    {[b EXCEPT !.chart = chart] : chart \in {Absent, "damaged"}}
      \cup {[b EXCEPT !.layouts[i].whole = FALSE] : i \in DOMAIN b.layouts}
      \cup {[b EXCEPT !.layouts = Front(@)], [b EXCEPT !.manifest = Absent]}

Carry ==
    /\ bundle # Absent
    /\ \A u \in Uploads : upload[u] # "push"
    /\ copy' = bundle
    /\ UNCHANGED <<collecting, pushing, faults>>

CarryDamaged ==
    /\ bundle # Absent
    /\ \A u \in Uploads : upload[u] # "push"
    /\ copy' \in Damaged(bundle)
    /\ Fault
    /\ UNCHANGED <<collecting, pushing>>

-----------------------------------------------------------------------------
(* upload: one process per command.                                           *)

\* Mutated form: the images are counted from zero.
StartUploadAtZero(u) ==
    /\ upload[u] = "idle"
    /\ ValidBundle(copy)
    /\ upload' = [upload EXCEPT ![u] = "push"]
    /\ next' = [next EXCEPT ![u] = 0]
    /\ UNCHANGED <<collecting, copy, registry, released, faults>>

StartUpload(u) ==
    /\ upload[u] = "idle"
    /\ ValidBundle(copy)
    /\ upload' = [upload EXCEPT ![u] = "push"]
    /\ next' = [next EXCEPT ![u] = 1]
    /\ UNCHANGED <<collecting, copy, registry, released, faults>>

Pushed(i) ==
    registry' = [registry EXCEPT ![copy.manifest.images[i].destination] =
                    copy.layouts[i].source]

PushImage(u) ==
    /\ upload[u] = "push"
    /\ next[u] <= Len(copy.manifest.images)
    /\ Pushed(next[u])
    /\ next' = [next EXCEPT ![u] = @ + 1]
    /\ UNCHANGED <<collecting, copy, upload, released, faults>>

\* Mutated form: the chart is pushed first.
PushChartFirst(u) ==
    /\ upload[u] = "push"
    /\ released' = TRUE
    /\ upload' = [upload EXCEPT ![u] = IF next[u] > Len(copy.layouts) THEN "done" ELSE @]
    /\ UNCHANGED <<collecting, copy, next, registry, faults>>

PushChart(u) ==
    /\ upload[u] = "push"
    /\ next[u] > Len(copy.manifest.images)
    /\ released' = TRUE
    /\ upload' = [upload EXCEPT ![u] = "done"]
    /\ UNCHANGED <<collecting, copy, next, registry, faults>>

\* skopeo or helm fails or the command is killed, perhaps after the registry
\* took the artifact; what was pushed before stays.
UploadFails(u) ==
    /\ Fault
    /\ upload[u] = "push"
    /\ upload' = [upload EXCEPT ![u] = "idle"]
    /\ IF next[u] <= Len(copy.manifest.images)
       THEN /\ Pushed(next[u]) \/ UNCHANGED registry
            /\ UNCHANGED released
       ELSE /\ released' \in {released, TRUE}
            /\ UNCHANGED registry
    /\ UNCHANGED <<collecting, copy, next>>

-----------------------------------------------------------------------------
\* A command goes on, or is run again after it failed.
Download(d) ==
    \/ Begin(d) \/ PullChart(d) \/ CopyWholeImage(d) \/ ImagesCopied(d)
    \/ WriteManifest(d) \/ Validate(d) \/ CheckAbsent(d) \/ Rename(d)
    \/ RenameRefused(d) \/ Cleanup(d)

Upload(u) == StartUpload(u) \/ PushImage(u) \/ PushChart(u)

Next == \/ \E d \in Downloads : \/ Download(d) \/ CopyPartOfImage(d)
                                \/ DownloadFails(d) \/ KillDownload(d)
        \/ \E u \in Uploads : Upload(u) \/ UploadFails(u)
        \/ Carry \/ CarryDamaged

\* The tools end, and a command that failed is run again, as the tool's README
\* asks for; a copy that does not validate is carried again.
Fairness == /\ \A d \in Downloads : WF_vars(Download(d))
            /\ \A u \in Uploads : WF_vars(Upload(u))
            /\ WF_vars(Carry)

Spec == Init /\ [][Next]_vars

FairSpec == Spec /\ Fairness

-----------------------------------------------------------------------------
(* Properties.                                                                *)

\* "Existing output directories are not overwritten; failed downloads are
\* cleaned up rather than presented as complete bundles"
\* (scripts/README.md:90-91): a bundle appears at --bundle in one step, whole
\* and with one source per destination, and no other download touches it then,
\* although the path is checked and renamed to in two steps (lines 323-324).
AppearsOnceWhole ==
    [][bundle' # bundle => bundle = Absent /\ ValidBundle(bundle')]_vars

\* Whoever finds the chart in the registry finds every image of the bundle at
\* its destination, from the source that was asked for: after uploads that
\* failed partway and were rerun, side by side and of damaged copies (lines
\* 334-341).
ChartAfterImages ==
    released => \A i \in DOMAIN bundle.manifest.images :
                    LET image == bundle.manifest.images[i]
                    IN  registry[image.destination] = image.source

\* Failed, killed and competing commands block no later one: rerun, they bring
\* chart and images into the registry in the end ("fix the
\* connectivity/permissions issue and rerun the same bundle",
\* scripts/README.md:110).
EventuallyReleased == <>released
=============================================================================
