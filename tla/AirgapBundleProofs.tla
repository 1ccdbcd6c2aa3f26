------------------------- MODULE AirgapBundleProofs -------------------------
(* What AirgapBundle promises of the directory at --bundle and of the         *)
(* registry, for any number of commands, any image lists and any number of    *)
(* faults.                                                                    *)
EXTENDS AirgapBundle, WellFoundedInduction, TLAPS

-----------------------------------------------------------------------------
(* Layouts beside the images they were copied for.                            *)

\* The layouts hold, in order, what the first images of the list name.
CopiedFor(list, layouts) ==
    /\ layouts \in Seq(ToSet(layouts))
    /\ \A i \in DOMAIN layouts : layouts[i].source = list[i].source

\* A further copy of the next image keeps them in order.
LEMMA AppendCopied ==
    ASSUME NEW list, NEW layouts, CopiedFor(list, layouts),
           NEW layout, layout.source = list[Len(layouts) + 1].source
    PROVE  CopiedFor(list, Append(layouts, layout))
<1> DEFINE S == ToSet(layouts) \cup {layout}
           t == Append(layouts, layout)
<1>1. layouts \in Seq(S)
  BY DEF CopiedFor
<1> HIDE DEF S
<1>2. /\ t \in Seq(S) /\ DOMAIN t = 1..(Len(layouts) + 1)
      /\ DOMAIN layouts = 1..Len(layouts) /\ Len(layouts) \in Nat
      /\ \A n \in 1..Len(layouts) : t[n] = layouts[n]
      /\ t[Len(layouts) + 1] = layout
  BY <1>1 DEF S
<1> HIDE DEF t
<1>3. t \in Seq(ToSet(t))
  BY <1>2 DEF ToSet
<1>4. \A i \in DOMAIN t : t[i].source = list[i].source
  BY <1>2 DEF CopiedFor
<1> QED BY <1>3, <1>4 DEF CopiedFor, t

-----------------------------------------------------------------------------
(* The inductive invariant, in four parts: what each step of download knows   *)
(* of its own staging directory (StageFacts), so that what lies at --bundle   *)
(* is whole (BundleFacts); that a copy which validates is the bundle itself   *)
(* (CopyFacts); and that what each upload has pushed, and all images once the *)
(* chart is there, lie in the registry (RegistryFacts).                       *)

Shapes ==
    /\ download = [d \in Downloads |-> download[d]]
    /\ images = [d \in Downloads |-> images[d]]
    /\ stage = [d \in Downloads |-> stage[d]]
    /\ upload = [u \in Uploads |-> upload[u]]
    /\ next = [u \in Uploads |-> next[u]]
    /\ registry = [d \in Destinations |-> registry[d]]

IsDirectory(b) == b = [chart |-> b.chart, layouts |-> b.layouts, manifest |-> b.manifest]

\* What is known of directory b while a download of these images is at this step.
StageOf(at, list, b) ==
    at \in Collecting =>
        /\ IsDirectory(b)
        /\ CopiedFor(list, b.layouts)
        /\ at # "chart" => b.chart = "package"
        /\ at \in {"validate", "check", "rename"} =>
              b.manifest.images = list /\ b.manifest.chart = "package"
        /\ at \in {"check", "rename"} => ValidBundle(b)

StageFacts == \A d \in Downloads : StageOf(download[d], images[d], stage[d])

Whole(b) ==
    /\ ValidBundle(b)
    /\ IsDirectory(b)
    /\ CopiedFor(b.manifest.images, b.layouts)
    /\ b.chart = "package"

BundleFacts == bundle = Absent \/ Whole(bundle)

CopyFacts == ValidBundle(copy) => copy = bundle

\* The images of directory b before the n-th lie at their destinations.
PushedBefore(b, n) ==
    \A i \in DOMAIN b.manifest.images :
        i < n => registry[b.manifest.images[i].destination] = b.manifest.images[i].source

RegistryFacts ==
    /\ \A u \in Uploads : upload[u] = "push" =>
           /\ ValidBundle(copy)
           /\ next[u] \in Nat \ {0}
           /\ PushedBefore(copy, next[u])
    /\ released => bundle # Absent /\ ChartAfterImages

DownloadInv == Shapes /\ StageFacts /\ BundleFacts

IInv == DownloadInv /\ CopyFacts /\ RegistryFacts

\* At the start there is no bundle, no copy and nothing in the registry.
LEMMA InitIInv == Init => IInv
BY DEF Init, IInv, DownloadInv, Shapes, StageFacts, StageOf, Collecting,
       BundleFacts, CopyFacts, ValidBundle, RegistryFacts

-----------------------------------------------------------------------------
(* download.                                                                  *)

\* A command changes its own staging directory only.
LEMMA OwnStage ==
    ASSUME Shapes, StageFacts, NEW d \in Downloads, NEW at, NEW list, NEW b,
           download' = [download EXCEPT ![d] = at],
           images' = [images EXCEPT ![d] = list],
           stage' = [stage EXCEPT ![d] = b],
           UNCHANGED pushing,
           StageOf(at, list, b)
    PROVE  Shapes' /\ StageFacts'
<1>1. Shapes'
  BY DEF Shapes, pushing
<1>2. ASSUME NEW e \in Downloads
      PROVE  StageOf(download'[e], images'[e], stage'[e])
  <2>1. CASE e = d
    BY <2>1 DEF Shapes
  <2>2. CASE e # d
    <3>1. download'[e] = download[e] /\ images'[e] = images[e] /\ stage'[e] = stage[e]
      BY <2>2 DEF Shapes
    <3> QED BY <3>1 DEF StageFacts
  <2> QED BY <2>1, <2>2
<1> QED BY <1>1, <1>2 DEF StageFacts

\* A command changes one part of its staging directory.
LEMMA SetPart ==
    ASSUME Shapes, NEW d \in Downloads, IsDirectory(stage[d]), NEW x
    PROVE  LET b == stage[d] IN
           /\ [stage EXCEPT ![d].chart = x]
                = [stage EXCEPT ![d] = [chart |-> x, layouts |-> b.layouts,
                                        manifest |-> b.manifest]]
           /\ [stage EXCEPT ![d].layouts = x]
                = [stage EXCEPT ![d] = [chart |-> b.chart, layouts |-> x,
                                        manifest |-> b.manifest]]
           /\ [stage EXCEPT ![d].manifest = x]
                = [stage EXCEPT ![d] = [chart |-> b.chart, layouts |-> b.layouts,
                                        manifest |-> x]]
<1> DEFINE b == stage[d]
<1>1. /\ [stage EXCEPT ![d].chart = x] = [stage EXCEPT ![d] = [b EXCEPT !.chart = x]]
      /\ [stage EXCEPT ![d].layouts = x] = [stage EXCEPT ![d] = [b EXCEPT !.layouts = x]]
      /\ [stage EXCEPT ![d].manifest = x] = [stage EXCEPT ![d] = [b EXCEPT !.manifest = x]]
  BY DEF Shapes
<1>2. b = [chart |-> b.chart, layouts |-> b.layouts, manifest |-> b.manifest]
  BY DEF IsDirectory
<1> HIDE DEF b
<1>3. /\ [b EXCEPT !.chart = x] = [chart |-> x, layouts |-> b.layouts, manifest |-> b.manifest]
      /\ [b EXCEPT !.layouts = x] = [chart |-> b.chart, layouts |-> x, manifest |-> b.manifest]
      /\ [b EXCEPT !.manifest = x] = [chart |-> b.chart, layouts |-> b.layouts, manifest |-> x]
  BY <1>2
<1> QED BY <1>1, <1>3 DEF b

\* Every step of every command keeps what is known of the staging directories,
\* and only a download that found nothing at --bundle puts something there.
LEMMA DownloadStep ==
    ASSUME DownloadInv, NEW d \in Downloads,
           Download(d) \/ CopyPartOfImage(d) \/ DownloadFails(d) \/ KillDownload(d)
    PROVE  /\ Shapes' /\ StageFacts'
           /\ UNCHANGED bundle \/ (bundle = Absent /\ Whole(bundle'))
<1> USE DEF DownloadInv
<1> DEFINE Kept == Shapes' /\ StageFacts'
           Own(at, list, b) == /\ download' = [download EXCEPT ![d] = at]
                               /\ images' = [images EXCEPT ![d] = list]
                               /\ stage' = [stage EXCEPT ![d] = b]
                               /\ UNCHANGED pushing
<1>0. StageOf(download[d], images[d], stage[d])
  BY DEF StageFacts
<1>1. CASE Begin(d)
  <2> DEFINE b == [chart |-> Absent, layouts |-> <<>>, manifest |-> Absent]
  <2>1. PICK list : Own("chart", list, b)
    BY <1>1 DEF Begin
  <2>2. StageOf("chart", list, b)
    <3>1. CopiedFor(list, <<>>)
      BY DEF CopiedFor, ToSet
    <3> QED BY <3>1 DEF StageOf, IsDirectory
  <2>3. Kept
    BY <2>1, <2>2, OwnStage
  <2> QED BY <1>1, <2>3 DEF Begin
<1>2. CASE PullChart(d)
  <2> DEFINE b == [chart |-> "package", layouts |-> stage[d].layouts,
                   manifest |-> stage[d].manifest]
  <2>1. StageOf("images", images[d], b)
    BY <1>0, <1>2 DEF PullChart, Go, StageOf, Collecting, IsDirectory
  <2>2. Own("images", images[d], b)
    BY <1>0, <1>2, SetPart DEF PullChart, Go, StageOf, Collecting, Shapes
  <2>3. Kept
    BY <2>1, <2>2, OwnStage
  <2> QED BY <1>2, <2>3 DEF PullChart
<1>3. CASE CopyWholeImage(d) \/ CopyPartOfImage(d)
  <2>1. PICK whole : CopyImage(d, whole)
    BY <1>3 DEF CopyWholeImage, CopyPartOfImage
  <2> DEFINE layouts == stage[d].layouts
             layout == [source |-> images[d][Len(layouts) + 1].source, whole |-> whole]
             b == [chart |-> stage[d].chart, layouts |-> Append(layouts, layout),
                   manifest |-> stage[d].manifest]
  <2>2. CopiedFor(images[d], Append(layouts, layout))
    BY <1>0, <2>1, AppendCopied DEF CopyImage, StageOf, Collecting
  <2>3. StageOf("images", images[d], b)
    BY <1>0, <2>1, <2>2 DEF CopyImage, StageOf, Collecting, IsDirectory
  <2>4. Own("images", images[d], b)
    <3>1. stage' = [stage EXCEPT ![d].layouts = Append(layouts, layout)]
      BY <2>1 DEF CopyImage
    <3>2. IsDirectory(stage[d])
      BY <1>0, <2>1 DEF CopyImage, StageOf, Collecting
    <3>3. stage' = [stage EXCEPT ![d] = b]
      <4> HIDE DEF layout
      <4> QED BY <3>1, <3>2, SetPart
    <3> QED BY <2>1, <3>3 DEF CopyImage, Shapes
  <2>5. Kept
    BY <2>3, <2>4, OwnStage
  <2> QED BY <2>1, <2>5 DEF CopyImage
<1>4. CASE ImagesCopied(d)
  <2>1. StageOf("manifest", images[d], stage[d])
    BY <1>0, <1>4 DEF ImagesCopied, Go, StageOf, Collecting
  <2>2. Own("manifest", images[d], stage[d])
    BY <1>4 DEF ImagesCopied, Go, Shapes
  <2>3. Kept
    BY <2>1, <2>2, OwnStage
  <2> QED BY <1>4, <2>3 DEF ImagesCopied
<1>5. CASE WriteManifest(d)
  <2> DEFINE b == [chart |-> stage[d].chart, layouts |-> stage[d].layouts,
                   manifest |-> [images |-> images[d], chart |-> stage[d].chart,
                                 layouts |-> stage[d].layouts]]
  <2>1. StageOf("validate", images[d], b)
    BY <1>0, <1>5 DEF WriteManifest, Go, StageOf, Collecting, IsDirectory
  <2>2. Own("validate", images[d], b)
    BY <1>0, <1>5, SetPart DEF WriteManifest, Go, StageOf, Collecting, Shapes
  <2>3. Kept
    BY <2>1, <2>2, OwnStage
  <2> QED BY <1>5, <2>3 DEF WriteManifest
<1>6. CASE Validate(d) \/ CheckAbsent(d) \/ RenameRefused(d) \/ DownloadFails(d)
             \/ KillDownload(d)
  <2>1. PICK at : /\ download' = [download EXCEPT ![d] = at]
                  /\ \/ at \notin Collecting
                     \/ at = "check" /\ download[d] = "validate" /\ ValidBundle(stage[d])
                     \/ at = "rename" /\ download[d] = "check"
    BY <1>6 DEF Validate, CheckAbsent, RenameRefused, DownloadFails, KillDownload,
                Go, Collecting
  <2>2. StageOf(at, images[d], stage[d])
    BY <1>0, <2>1 DEF StageOf, Collecting
  <2>3. UNCHANGED <<images, stage, bundle, pushing>>
    BY <1>6 DEF Validate, CheckAbsent, RenameRefused, DownloadFails, KillDownload
  <2>4. Own(at, images[d], stage[d])
    BY <2>1, <2>3 DEF Shapes
  <2>5. Kept
    BY <2>2, <2>4, OwnStage
  <2> QED BY <2>3, <2>5
<1>7. CASE Cleanup(d)
  <2>1. StageOf("idle", images[d], Absent)
    BY DEF StageOf, Collecting
  <2>2. Own("idle", images[d], Absent)
    BY <1>7 DEF Cleanup, Go, Shapes
  <2>3. Kept
    BY <2>1, <2>2, OwnStage
  <2> QED BY <1>7, <2>3 DEF Cleanup
<1>8. CASE Rename(d)
  <2>1. StageOf("done", images[d], Absent)
    BY DEF StageOf, Collecting
  <2>2. Own("done", images[d], Absent)
    BY <1>8 DEF Rename, Go, Shapes
  <2>3. Kept
    BY <2>1, <2>2, OwnStage
  <2>4. Whole(stage[d])
    BY <1>0, <1>8 DEF Rename, Go, StageOf, Collecting, Whole
  <2> QED BY <1>8, <2>3, <2>4 DEF Rename
<1> QED BY <1>1, <1>2, <1>3, <1>4, <1>5, <1>6, <1>7, <1>8 DEF Download

\* Nothing that a download does disturbs the copy or the registry: before there
\* is a bundle there is no valid copy, and nothing is pushed.
LEMMA DownloadKeepsRest ==
    ASSUME IInv, UNCHANGED <<copy, pushing>>,
           UNCHANGED bundle \/ (bundle = Absent /\ Whole(bundle'))
    PROVE  BundleFacts' /\ CopyFacts' /\ RegistryFacts'
<1>1. CASE UNCHANGED bundle
  BY <1>1 DEF IInv, DownloadInv, BundleFacts, Whole, CopyFacts, RegistryFacts,
              PushedBefore, ChartAfterImages, ValidBundle, pushing, IsDirectory
<1>2. CASE bundle = Absent /\ Whole(bundle')
  <2>1. ~ValidBundle(copy)
    BY <1>2 DEF IInv, CopyFacts, ValidBundle
  <2>2. ~released /\ \A u \in Uploads : upload[u] # "push"
    BY <1>2, <2>1 DEF IInv, RegistryFacts
  <2>3. ~ValidBundle(copy)'
    BY <2>1 DEF ValidBundle
  <2>4. BundleFacts'
    BY <1>2 DEF BundleFacts, Whole, ValidBundle, IsDirectory, CopiedFor
  <2> QED BY <2>2, <2>3, <2>4 DEF CopyFacts, RegistryFacts, pushing
<1> QED BY <1>1, <1>2

-----------------------------------------------------------------------------
(* Carrying and upload.                                                       *)

\* Whatever is damaged on the way no longer validates.
LEMMA DamagedIsInvalid ==
    ASSUME NEW b, Whole(b), NEW c \in Damaged(b)
    PROVE  ~ValidBundle(c)
<1> SUFFICES ASSUME ValidBundle(c) PROVE FALSE
  OBVIOUS
<1>1. /\ b = [chart |-> b.chart, layouts |-> b.layouts, manifest |-> b.manifest]
      /\ b.manifest \in Manifests /\ b.chart = "package"
      /\ b.manifest.chart = "package" /\ b.layouts = b.manifest.layouts
      /\ b.layouts \in Seq(Layouts) /\ b.manifest.images \in Seq(Images)
      /\ Len(b.layouts) = Len(b.manifest.images) /\ b.manifest.images # <<>>
  BY DEF Whole, ValidBundle, IsDirectory, Manifests
<1>2. ASSUME NEW chart \in {Absent, "damaged"}, c = [b EXCEPT !.chart = chart]
      PROVE  FALSE
  <2>1. c.chart = chart /\ c.manifest = b.manifest
    BY <1>1, <1>2
  <2> QED BY <1>1, <2>1 DEF ValidBundle
<1>3. ASSUME NEW i \in DOMAIN b.layouts, c = [b EXCEPT !.layouts[i].whole = FALSE]
      PROVE  FALSE
  <2>1. /\ c.layouts = [b.layouts EXCEPT ![i] = [b.layouts[i] EXCEPT !.whole = FALSE]]
    BY <1>1, <1>3
  <2>2. b.layouts[i] \in Layouts
    BY <1>1
  <2>3. i \in DOMAIN c.layouts /\ c.layouts[i].whole = FALSE
    BY <1>1, <2>1, <2>2 DEF Layouts
  <2> QED BY <2>3 DEF ValidBundle
<1>4. CASE c = [b EXCEPT !.layouts = Front(@)]
  <2>1. c.layouts = Front(b.layouts) /\ c.manifest = b.manifest
    BY <1>1, <1>4
  <2>2. Len(b.layouts) \in Nat \ {0} /\ Len(Front(b.layouts)) = Len(b.layouts) - 1
    BY <1>1 DEF Front
  <2> QED BY <1>1, <2>1, <2>2 DEF ValidBundle
<1>5. CASE c = [b EXCEPT !.manifest = Absent]
  BY <1>1, <1>5 DEF ValidBundle
<1> QED BY <1>2, <1>3, <1>4, <1>5 DEF Damaged

\* Only while nothing is pushed is the copy replaced, and by one that is the
\* bundle or does not validate.
LEMMA CarryStep ==
    ASSUME IInv, Carry \/ CarryDamaged
    PROVE  IInv'
<1>1. /\ UNCHANGED <<collecting, pushing>>
      /\ \A u \in Uploads : upload[u] # "push"
      /\ bundle # Absent
      /\ copy' = bundle \/ copy' \in Damaged(bundle)
  BY DEF Carry, CarryDamaged
<1>2. DownloadInv'
  BY <1>1 DEF IInv, DownloadInv, Shapes, StageFacts, BundleFacts, collecting, pushing
<1>3. CopyFacts'
  <2>1. Whole(bundle)
    BY <1>1 DEF IInv, DownloadInv, BundleFacts
  <2>2. ValidBundle(copy') => copy' = bundle
    BY <1>1, <2>1, DamagedIsInvalid
  <2> QED BY <1>1, <2>2 DEF CopyFacts, collecting
<1>4. RegistryFacts'
  BY <1>1 DEF IInv, RegistryFacts, ChartAfterImages, collecting, pushing
<1> QED BY <1>2, <1>3, <1>4 DEF IInv

\* Pushing the n-th image of a valid copy of the bundle leaves those before it
\* where they were, since no two share a destination.
LEMMA PushKeepsOthers ==
    ASSUME IInv, ValidBundle(copy), NEW n \in DOMAIN copy.manifest.images, Pushed(n)
    PROVE  /\ registry' = [d \in Destinations |-> registry'[d]]
           /\ \A i \in DOMAIN copy.manifest.images :
                 LET image == copy.manifest.images[i]
                 IN  /\ i = n => registry'[image.destination] = image.source
                     /\ i # n => registry'[image.destination] = registry[image.destination]
<1> DEFINE list == copy.manifest.images
<1>1. Whole(copy)
  BY DEF IInv, DownloadInv, CopyFacts, BundleFacts, ValidBundle
<1>2. /\ list \in Seq(Images) /\ OneSourceEach(list)
      /\ DOMAIN list = DOMAIN copy.layouts
      /\ \A i \in DOMAIN list : copy.layouts[i].source = list[i].source
  <2>1. /\ copy.manifest \in Manifests /\ copy.layouts = copy.manifest.layouts
        /\ Len(copy.layouts) = Len(list) /\ OneSourceEach(list)
    BY <1>1 DEF Whole, ValidBundle
  <2>2. list \in Seq(Images) /\ copy.layouts \in Seq(Layouts)
    BY <2>1 DEF Manifests
  <2> QED BY <1>1, <2>1, <2>2 DEF Whole, CopiedFor
<1>3. \A i \in DOMAIN list : list[i].destination \in Destinations
  BY <1>2 DEF Destinations
<1>4. registry' = [registry EXCEPT ![list[n].destination] = list[n].source]
  BY <1>2 DEF Pushed
<1>5. registry = [d \in Destinations |-> registry[d]]
  BY DEF IInv, DownloadInv, Shapes
<1>6. \A i \in DOMAIN list : i # n => list[i].destination # list[n].destination
  BY <1>2 DEF OneSourceEach
<1> HIDE DEF list
<1>7. /\ registry' = [d \in Destinations |-> registry'[d]]
      /\ registry'[list[n].destination] = list[n].source
      /\ \A d \in Destinations \ {list[n].destination} : registry'[d] = registry[d]
  <2>1. list[n].destination \in Destinations
    BY <1>3 DEF list
  <2> QED BY <1>4, <1>5, <2>1
<1> QED BY <1>3, <1>6, <1>7 DEF list

\* Whoever pushes, starts, ends or fails: what was pushed stays, and the chart
\* comes when every image is there.
LEMMA UploadStep ==
    ASSUME IInv, NEW u \in Uploads, Upload(u) \/ UploadFails(u)
    PROVE  IInv'
<1> DEFINE list == copy.manifest.images
           AllPushed == \A i \in DOMAIN list :
                            registry[list[i].destination] = list[i].source
<1>1. UNCHANGED <<collecting, copy>>
  BY DEF Upload, StartUpload, PushImage, PushChart, UploadFails
<1>2. StageFacts' /\ BundleFacts' /\ CopyFacts'
  BY <1>1 DEF IInv, DownloadInv, StageFacts, BundleFacts, CopyFacts, collecting
<1>3. /\ ValidBundle(copy) /\ bundle = copy /\ bundle # Absent
      /\ DOMAIN list = 1..Len(list) /\ Len(list) \in Nat
  <2>1. ValidBundle(copy)
    BY DEF Upload, StartUpload, PushImage, PushChart, UploadFails, IInv, RegistryFacts
  <2>2. list \in Seq(Images)
    BY <2>1 DEF ValidBundle, Manifests
  <2> QED BY <2>1, <2>2 DEF IInv, CopyFacts, ValidBundle
<1>4. \A v \in Uploads : upload[v] = "push" =>
         next[v] \in Nat \ {0} /\ PushedBefore(copy, next[v])
  BY DEF IInv, RegistryFacts
<1>5. released => AllPushed
  BY <1>3 DEF IInv, RegistryFacts, ChartAfterImages
<1>6. ASSUME upload[u] = "push", next[u] <= Len(list), Pushed(next[u])
      PROVE  /\ registry' = [d \in Destinations |-> registry'[d]]
             /\ \A n : PushedBefore(copy, n) => PushedBefore(copy, n)'
             /\ \A n : n = next[u] + 1 => PushedBefore(copy, n)'
             /\ AllPushed => AllPushed'
  <2>1. next[u] \in DOMAIN list /\ PushedBefore(copy, next[u])
    BY <1>3, <1>6, <1>4
  <2>2. /\ registry' = [d \in Destinations |-> registry'[d]]
        /\ \A i \in DOMAIN list :
              /\ i = next[u] => registry'[list[i].destination] = list[i].source
              /\ i # next[u] => registry'[list[i].destination]
                                  = registry[list[i].destination]
    BY <1>3, <1>6, <2>1, PushKeepsOthers
  <2>3. ASSUME NEW i \in DOMAIN list, registry[list[i].destination] = list[i].source
        PROVE  registry'[list[i].destination] = list[i].source
    BY <2>2, <2>3
  <2>4. \A n : PushedBefore(copy, n) => PushedBefore(copy, n)'
    BY <1>1, <2>3 DEF PushedBefore
  <2>5. ASSUME NEW n, n = next[u] + 1 PROVE PushedBefore(copy, n)'
    <3>1. ASSUME NEW i \in DOMAIN list, i < n
          PROVE  registry'[list[i].destination] = list[i].source
      <4>1. i = next[u] \/ i < next[u]
        BY <1>3, <2>1, <2>5, <3>1
      <4> QED BY <2>1, <2>2, <2>3, <4>1 DEF PushedBefore
    <3> QED BY <1>1, <3>1 DEF PushedBefore
  <2>6. AllPushed => AllPushed'
    BY <1>1, <2>3
  <2> QED BY <2>2, <2>4, <2>5, <2>6
\* It is enough to show what concerns the pushing commands and the chart.
<1>7. ASSUME released' => AllPushed', Shapes',
             \A v \in Uploads : upload'[v] = "push"
                => /\ next'[v] \in Nat \ {0}
                   /\ \A n : n = next'[v] => PushedBefore(copy, n)'
      PROVE  IInv'
  <2>1. released' => ChartAfterImages'
    BY <1>1, <1>3, <1>7 DEF ChartAfterImages, collecting
  <2>2. \A v \in Uploads : upload'[v] = "push" => PushedBefore(copy, next[v])'
    BY <1>7 DEF PushedBefore
  <2>3. bundle' # Absent /\ ValidBundle(copy)'
    BY <1>1, <1>3 DEF collecting, ValidBundle
  <2>4. RegistryFacts'
    BY <1>7, <2>1, <2>2, <2>3 DEF RegistryFacts
  <2> QED BY <1>2, <1>7, <2>4 DEF IInv, DownloadInv
<1>8. /\ upload = [v \in Uploads |-> upload[v]] /\ next = [v \in Uploads |-> next[v]]
      /\ registry = [e \in Destinations |-> registry[e]]
  BY DEF IInv, DownloadInv, Shapes
<1>9. ASSUME upload' = [v \in Uploads |-> upload'[v]], next' = [v \in Uploads |-> next'[v]],
             registry' = [e \in Destinations |-> registry'[e]]
      PROVE  Shapes'
  BY <1>1, <1>9 DEF IInv, DownloadInv, Shapes, collecting
<1>10. ASSUME UNCHANGED registry
      PROVE  /\ AllPushed => AllPushed'
             /\ \A n : PushedBefore(copy, n) => PushedBefore(copy, n)'
  BY <1>1, <1>10 DEF PushedBefore
<1>11. CASE StartUpload(u)
  <2>1. \A n : n = 1 => PushedBefore(copy, n)'
    BY <1>1, <1>3 DEF PushedBefore
  <2>2. /\ UNCHANGED <<registry, released>> /\ next'[u] = 1
        /\ \A v \in Uploads \ {u} : upload'[v] = upload[v] /\ next'[v] = next[v]
    BY <1>8, <1>11 DEF StartUpload
  <2>3. ASSUME NEW v \in Uploads, upload'[v] = "push"
        PROVE  /\ next'[v] \in Nat \ {0}
               /\ \A n : n = next'[v] => PushedBefore(copy, n)'
    BY <1>10, <1>4, <2>1, <2>2, <2>3
  <2>4. Shapes'
    BY <1>8, <1>9, <1>11 DEF StartUpload
  <2> QED BY <1>7, <1>10, <1>5, <2>2, <2>3, <2>4
<1>12. CASE PushChart(u)
  <2>1. AllPushed
    BY <1>3, <1>4, <1>12 DEF PushChart, PushedBefore
  <2> QED BY <1>7, <1>8, <1>9, <1>10, <1>12, <1>4, <2>1 DEF PushChart
<1>13. CASE PushImage(u)
  <2>1. /\ upload[u] = "push" /\ next[u] <= Len(list) /\ Pushed(next[u])
        /\ UNCHANGED <<upload, released>> /\ next'[u] = next[u] + 1
        /\ \A v \in Uploads \ {u} : next'[v] = next[v]
    BY <1>8, <1>13 DEF PushImage
  <2>2. ASSUME NEW v \in Uploads, upload'[v] = "push"
        PROVE  /\ next'[v] \in Nat \ {0}
               /\ \A n : n = next'[v] => PushedBefore(copy, n)'
    BY <1>6, <1>4, <2>1, <2>2
  <2>3. Shapes'
    BY <1>6, <1>8, <1>9, <1>13, <2>1 DEF PushImage
  <2> QED BY <1>6, <1>7, <1>5, <2>1, <2>2, <2>3
<1>14. CASE UploadFails(u)
  <2>1. CASE next[u] <= Len(list) /\ Pushed(next[u])
    BY <1>6, <1>7, <1>8, <1>9, <1>14, <1>4, <1>5, <2>1 DEF UploadFails
  <2>2. CASE next[u] <= Len(list) /\ UNCHANGED registry
    BY <1>7, <1>8, <1>9, <1>10, <1>14, <1>4, <1>5, <2>2 DEF UploadFails
  <2>3. CASE ~(next[u] <= Len(list))
    <3>1. AllPushed
      BY <1>3, <1>4, <1>14, <2>3 DEF UploadFails, PushedBefore
    <3> QED BY <1>7, <1>8, <1>9, <1>10, <1>14, <1>4, <2>3, <3>1 DEF UploadFails
  <2> QED BY <1>14, <2>1, <2>2, <2>3 DEF UploadFails
<1> QED BY <1>11, <1>12, <1>13, <1>14 DEF Upload

-----------------------------------------------------------------------------
\* Every step of every command keeps the inductive invariant.
LEMMA Step == IInv /\ [Next]_vars => IInv'
<1> SUFFICES ASSUME IInv, [Next]_vars PROVE IInv'
  OBVIOUS
<1>1. ASSUME NEW d \in Downloads,
             Download(d) \/ CopyPartOfImage(d) \/ DownloadFails(d) \/ KillDownload(d)
      PROVE  IInv'
  <2>1. UNCHANGED <<copy, pushing>>
    BY <1>1 DEF Download, Begin, PullChart, CopyWholeImage, CopyPartOfImage, CopyImage,
                ImagesCopied, WriteManifest, Validate, CheckAbsent, Rename,
                RenameRefused, Cleanup, DownloadFails, KillDownload
  <2>2. /\ Shapes' /\ StageFacts'
        /\ UNCHANGED bundle \/ (bundle = Absent /\ Whole(bundle'))
    BY <1>1, DownloadStep DEF IInv
  <2>3. BundleFacts' /\ CopyFacts' /\ RegistryFacts'
    BY <2>1, <2>2, DownloadKeepsRest
  <2> QED BY <2>2, <2>3 DEF IInv, DownloadInv
<1>2. ASSUME NEW u \in Uploads, Upload(u) \/ UploadFails(u) PROVE IInv'
  BY <1>2, UploadStep
<1>3. CASE Carry \/ CarryDamaged
  BY <1>3, CarryStep
<1>4. CASE UNCHANGED vars
  BY <1>4 DEF vars, collecting, pushing, IInv, DownloadInv, Shapes, StageFacts, StageOf,
              BundleFacts, Whole, CopyFacts, RegistryFacts, PushedBefore,
              ChartAfterImages
<1> QED BY <1>1, <1>2, <1>3, <1>4 DEF Next

\* The inductive invariant holds of every behaviour of the tool.
THEOREM Invariance == Spec => []IInv
BY InitIInv, Step, PTL DEF Spec

\* ChartAfterImages: whatever fails and however often it is rerun, the chart is
\* in the registry only beside every image of the bundle, from its source.
THEOREM ChartComesLast == Spec => []ChartAfterImages
<1>1. IInv => ChartAfterImages
  BY DEF IInv, RegistryFacts, ChartAfterImages
<1> QED BY Invariance, <1>1, PTL

\* AppearsOnceWhole: whatever fails, and however many downloads aim at the same
\* --bundle, a bundle appears there in one step, valid, and stays untouched.
THEOREM BundleAppearsOnceWhole == Spec => AppearsOnceWhole
<1>1. ASSUME IInv, [Next]_vars
      PROVE  [bundle' # bundle => bundle = Absent /\ ValidBundle(bundle')]_vars
  <2>1. ASSUME NEW d \in Downloads,
               Download(d) \/ CopyPartOfImage(d) \/ DownloadFails(d) \/ KillDownload(d)
        PROVE  UNCHANGED bundle \/ (bundle = Absent /\ ValidBundle(bundle'))
    BY <1>1, <2>1, DownloadStep DEF IInv, Whole
  <2>2. ASSUME NEW u \in Uploads, Upload(u) \/ UploadFails(u) PROVE UNCHANGED bundle
    BY <2>2 DEF Upload, StartUpload, PushImage, PushChart, UploadFails, collecting
  <2>3. CASE Carry \/ CarryDamaged
    BY <2>3 DEF Carry, CarryDamaged, collecting
  <2> QED BY <1>1, <2>1, <2>2, <2>3 DEF Next
<1> QED BY Invariance, <1>1, PTL DEF Spec, AppearsOnceWhole
-----------------------------------------------------------------------------
(* unique_images returns images.  UniqueImages is a recursive function; that  *)
(* there is one, and what it returns, is an induction over the list.          *)

\* A set of naturals that has an element has a least one.
LEMMA LeastNatural ==
    ASSUME NEW T \in SUBSET Nat, T # {}
    PROVE  \E least \in T : \A p \in T : least <= p
<1> DEFINE R == OpToRel(<, Nat)
<1>1. IsWellFoundedOn(R, Nat)
  BY NatLessThanWellFounded
<1>2. \A x, y \in Nat : <<x, y>> \in R <=> x < y
  BY DEF OpToRel
<1> HIDE DEF R
<1>3. \E x \in T : \A y \in T : ~(<<y, x>> \in R)
  BY <1>1, WFMin
<1>4. \A x, y \in T : ~(<<y, x>> \in R) => x <= y
  <2>1. \A x, y \in T : <<y, x>> \in R <=> y < x
    BY <1>2
  <2>2. \A x, y \in T : ~(y < x) => x <= y
    OBVIOUS
  <2> QED BY <2>1, <2>2
<1> QED BY <1>3, <1>4

\* Induction over the places of a list, with a set instead of a predicate: the
\* least number outside S would follow one that is in S.
LEMMA PlacesInduction ==
    ASSUME NEW N \in Nat, NEW S, 0 \in S, \A n \in 1..N : n - 1 \in S => n \in S
    PROVE  0..N \subseteq S
<1> DEFINE Out == {n \in 0..N : n \notin S}
<1> SUFFICES ASSUME Out # {} PROVE FALSE
  OBVIOUS
<1>1. PICK n \in Out : \A m \in Out : n <= m
  <2>1. Out \in SUBSET Nat
    OBVIOUS
  <2> HIDE DEF Out
  <2> QED BY <2>1, LeastNatural
<1>2. n \in 1..N /\ n - 1 \in 0..N
  OBVIOUS
<1>3. n - 1 \notin Out
  BY <1>1, <1>2
<1> QED BY <1>2, <1>3

\* An entry is kept unless it was kept before.
Kept(kept, image) == IF image \in ToSet(kept) THEN kept ELSE Append(kept, image)

\* f[m] is what unique_images has kept after m entries, for m up to n.
KeptUpTo(list, n, f) ==
    f = [m \in 0..n |-> IF m = 0 THEN <<>> ELSE Kept(f[m - 1], list[m])]

\* The loop of unique_images can be followed to any place of the list.
LEMMA KeptExists ==
    ASSUME NEW list, NEW N \in Nat
    PROVE  \E f : KeptUpTo(list, N, f)
<1> DEFINE S == {n \in 0..N : \E f : KeptUpTo(list, n, f)}
<1>1. 0 \in S
  <2>1. KeptUpTo(list, 0, [m \in 0..0 |-> <<>>])
    BY DEF KeptUpTo
  <2> QED BY <2>1
<1>2. ASSUME NEW n \in 1..N, n - 1 \in S PROVE n \in S
  <2>1. PICK f : KeptUpTo(list, n - 1, f)
    BY <1>2
  <2> DEFINE g == [m \in 0..n |-> IF m = n THEN Kept(f[n - 1], list[n]) ELSE f[m]]
  <2>2. ASSUME NEW m \in 0..n
        PROVE  g[m] = IF m = 0 THEN <<>> ELSE Kept(g[m - 1], list[m])
    <3>1. CASE m = n
      <4>1. g[m - 1] = f[n - 1]
        BY <3>1
      <4> QED BY <3>1, <4>1
    <3>2. CASE m # n
      <4>1. m \in 0..(n - 1) /\ g[m] = f[m] /\ (m # 0 => g[m - 1] = f[m - 1])
        BY <3>2
      <4>2. f[m] = IF m = 0 THEN <<>> ELSE Kept(f[m - 1], list[m])
        BY <2>1, <4>1 DEF KeptUpTo
      <4> QED BY <4>1, <4>2
    <3> QED BY <3>1, <3>2
  <2>3. KeptUpTo(list, n, g)
    BY <2>2 DEF KeptUpTo
  <2> QED BY <2>3
<1> HIDE DEF S
<1>3. 0..N \subseteq S
  BY <1>1, <1>2, PlacesInduction
<1> QED BY <1>3 DEF S

\* unique_images invents no entry.
LEMMA UniqueAreImages ==
    ASSUME NEW list \in Seq(Images)
    PROVE  UniqueImages(list) \in Seq(Images)
<1> DEFINE N == Len(list)
           f == CHOOSE f : KeptUpTo(list, N, f)
           S == {n \in 0..N : f[n] \in Seq(Images)}
<1>1. N \in Nat /\ \A n \in 1..N : list[n] \in Images
  OBVIOUS
<1>2. UniqueImages(list) = f[N]
  BY DEF UniqueImages, KeptUpTo, Kept
<1>3. KeptUpTo(list, N, f)
  BY <1>1, KeptExists
<1> HIDE DEF N, f
<1>4. 0 \in S
  BY <1>1, <1>3 DEF KeptUpTo
<1>5. ASSUME NEW n \in 1..N, n - 1 \in S PROVE n \in S
  <2>1. f[n - 1] \in Seq(Images) /\ list[n] \in Images
    BY <1>1, <1>5
  <2>2. Kept(f[n - 1], list[n]) \in Seq(Images)
    BY <2>1 DEF Kept
  <2>3. n \in 0..N /\ n # 0
    BY <1>1
  <2>4. f[n] = Kept(f[n - 1], list[n])
    BY <1>3, <2>3 DEF KeptUpTo
  <2> QED BY <2>2, <2>3, <2>4
<1> HIDE DEF S
<1>6. 0..N \subseteq S
  BY <1>1, <1>4, <1>5, PlacesInduction
<1>7. N \in S
  BY <1>1, <1>6
<1> QED BY <1>2, <1>7 DEF S

-----------------------------------------------------------------------------
(* Types.                                                                     *)

\* A download works in a directory of the right form.
StageTyped == \A d \in Downloads : download[d] \in Collecting => stage[d] \in Directories

TypeInv == TypeOK /\ StageTyped

\* The parts of an image are a source and a destination.
LEMMA ImageParts ==
    \A image \in Images : image.source \in Sources /\ image.destination \in Destinations
BY DEF Sources, Destinations

\* A bundle that validates is a directory with a manifest of images.
LEMMA ValidIsTyped ==
    ASSUME NEW b \in Directories \cup {Absent}, ValidBundle(b)
    PROVE  /\ b \in Directories /\ b.manifest.images \in Seq(Images)
           /\ b.layouts \in Seq(Layouts) /\ Len(b.layouts) = Len(b.manifest.images)
BY DEF ValidBundle, Directories, Manifests

\* Every step of a download keeps the types.
LEMMA DownloadTypes ==
    ASSUME TypeInv, NEW d \in Downloads,
           Download(d) \/ CopyPartOfImage(d) \/ DownloadFails(d) \/ KillDownload(d)
    PROVE  TypeInv'
<1> USE MaxFaultsAssumption DEF TypeInv, TypeOK, StageTyped, Collecting, pushing, Go, Fault
<1>0. stage[d] \in Directories =>
        stage[d].layouts \in Seq(Layouts) /\ stage[d].chart \in Charts
  BY DEF Directories
<1>1. CASE Begin(d)
  <2>1. PICK list \in Lists : images' = [images EXCEPT ![d] = UniqueImages(list)]
    BY <1>1 DEF Begin
  <2>2. UniqueImages(list) \in Seq(Images)
    BY ListsAssumption, UniqueAreImages
  <2>3. [chart |-> Absent, layouts |-> <<>>, manifest |-> Absent] \in Directories
    BY DEF Directories, Charts
  <2> QED BY <1>1, <2>1, <2>2, <2>3 DEF Begin
<1>2. CASE PullChart(d)
  <2>1. [stage[d] EXCEPT !.chart = "package"] \in Directories
    BY <1>2 DEF PullChart, Directories, Charts
  <2> QED BY <1>2, <2>1 DEF PullChart
<1>3. ASSUME NEW whole \in BOOLEAN, CopyImage(d, whole), faults' \in 0..MaxFaults
      PROVE  TypeInv'
  <2> DEFINE n == Len(stage[d].layouts) + 1
             layout == [source |-> images[d][n].source, whole |-> whole]
             layouts == Append(stage[d].layouts, layout)
  <2>1. stage[d] \in Directories
    BY <1>3 DEF CopyImage
  <2>2. images[d][n] \in Images
    BY <1>0, <1>3, <2>1 DEF CopyImage
  <2>3. layout \in Layouts
    BY <2>2, ImageParts DEF Layouts
  <2> HIDE DEF layout
  <2>4. layouts \in Seq(Layouts)
    BY <1>0, <2>1, <2>3
  <2>5. stage' = [stage EXCEPT ![d] = [stage[d] EXCEPT !.layouts = layouts]]
    BY <1>3 DEF CopyImage, layout
  <2> HIDE DEF layouts
  <2>6. [stage[d] EXCEPT !.layouts = layouts] \in Directories
    BY <2>1, <2>4 DEF Directories
  <2> QED BY <1>3, <2>5, <2>6 DEF CopyImage
<1>4. CASE WriteManifest(d)
  <2> DEFINE m == [images |-> images[d], chart |-> stage[d].chart,
                   layouts |-> stage[d].layouts]
  <2>1. stage[d] \in Directories
    BY <1>4 DEF WriteManifest
  <2>2. m \in Manifests
    BY <1>0, <2>1 DEF Manifests
  <2>3. [stage[d] EXCEPT !.manifest = m] \in Directories
    BY <2>1, <2>2 DEF Directories
  <2>4. stage' = [stage EXCEPT ![d] = [stage[d] EXCEPT !.manifest = m]]
    BY <1>4 DEF WriteManifest
  <2> HIDE DEF m
  <2> QED BY <1>4, <2>3, <2>4 DEF WriteManifest
<1>5. CASE ImagesCopied(d) \/ Validate(d) \/ CheckAbsent(d) \/ RenameRefused(d) \/ Cleanup(d)
  BY <1>5 DEF ImagesCopied, Validate, CheckAbsent, RenameRefused, Cleanup
<1>6. CASE Rename(d)
  BY <1>6 DEF Rename
<1>7. CASE DownloadFails(d) \/ KillDownload(d)
  <2>1. faults' \in 0..MaxFaults
    BY <1>7 DEF DownloadFails, KillDownload
  <2>2. PICK at \in {"cleanup", "killed"} : download' = [download EXCEPT ![d] = at]
    BY <1>7 DEF DownloadFails, KillDownload
  <2> QED BY <1>7, <2>1, <2>2 DEF DownloadFails, KillDownload
<1>8. CASE CopyWholeImage(d)
  BY <1>3, <1>8 DEF CopyWholeImage
<1>9. CASE CopyPartOfImage(d)
  <2>1. faults' \in 0..MaxFaults
    BY <1>9 DEF CopyPartOfImage
  <2> QED BY <1>3, <1>9, <2>1 DEF CopyPartOfImage
<1> QED
  BY ONLY Download(d) \/ CopyPartOfImage(d) \/ DownloadFails(d) \/ KillDownload(d),
     <1>1, <1>2, <1>4, <1>5, <1>6, <1>7, <1>8, <1>9 DEF Download

\* A copy, damaged or not, is a directory.
LEMMA CarryTypes ==
    ASSUME TypeInv, BundleFacts, Carry \/ CarryDamaged
    PROVE  TypeInv'
<1> USE MaxFaultsAssumption DEF TypeInv, TypeOK, StageTyped, pushing, collecting, Fault
<1>1. CASE Carry
  BY <1>1 DEF Carry
<1>2. CASE CarryDamaged
  <2>1. bundle \in Directories /\ Whole(bundle)
    BY <1>2 DEF CarryDamaged, BundleFacts
  <2>2. bundle.layouts \in Seq(Layouts) /\ bundle.layouts # <<>>
    <3>1. Len(bundle.layouts) # 0
      BY <2>1, ValidIsTyped DEF Whole, ValidBundle
    <3> QED BY <2>1, <3>1 DEF Directories
  <2>3. \A i \in DOMAIN bundle.layouts :
          [bundle EXCEPT !.layouts[i].whole = FALSE] \in Directories
    <3> TAKE i \in DOMAIN bundle.layouts
    <3> DEFINE layout == [bundle.layouts[i] EXCEPT !.whole = FALSE]
    <3>1. layout \in Layouts
      <4>1. bundle.layouts[i] \in Layouts
        BY <2>2
      <4> QED BY <4>1 DEF Layouts
    <3>2. [bundle.layouts EXCEPT ![i] = layout] \in Seq(Layouts)
      <4> HIDE DEF layout
      <4> QED BY <2>2, <3>1
    <3> QED BY <2>1, <3>2 DEF Directories
  <2>4. Front(bundle.layouts) \in Seq(Layouts)
    BY <2>2 DEF Front
  <2>5. Damaged(bundle) \subseteq Directories
    <3>1. \A chart \in {Absent, "damaged"} : [bundle EXCEPT !.chart = chart] \in Directories
      BY <2>1 DEF Directories, Charts
    <3>2. [bundle EXCEPT !.layouts = Front(@)] \in Directories
      BY <2>1, <2>4 DEF Directories
    <3>3. [bundle EXCEPT !.manifest = Absent] \in Directories
      BY <2>1 DEF Directories
    <3> QED BY <2>3, <3>1, <3>2, <3>3 DEF Damaged
  <2>6. copy' \in Directories
    BY <1>2, <2>5 DEF CarryDamaged
  <2>7. faults' \in 0..MaxFaults
    BY <1>2 DEF CarryDamaged
  <2> QED BY <1>2, <2>6, <2>7 DEF CarryDamaged
<1> QED BY <1>1, <1>2

\* Every step of an upload keeps the types: what it pushes is of the manifest.
LEMMA UploadTypes ==
    ASSUME TypeInv, RegistryFacts, NEW u \in Uploads, Upload(u) \/ UploadFails(u)
    PROVE  TypeInv'
<1> USE MaxFaultsAssumption DEF TypeInv, TypeOK, StageTyped, collecting, Fault
<1>1. ASSUME upload[u] = "push", next[u] <= Len(copy.manifest.images), Pushed(next[u])
      PROVE  registry' \in [Destinations -> Sources \cup {Absent}]
  <2> DEFINE i == next[u]
  <2>1. ValidBundle(copy)
    BY <1>1 DEF RegistryFacts
  <2>2. /\ copy.manifest.images \in Seq(Images) /\ copy.layouts \in Seq(Layouts)
        /\ Len(copy.layouts) = Len(copy.manifest.images)
    BY <2>1, ValidIsTyped
  <2>3. copy.manifest.images[i] \in Images /\ copy.layouts[i] \in Layouts
    BY <1>1, <2>2
  <2>4. copy.manifest.images[i].destination \in Destinations /\ copy.layouts[i].source \in Sources
    BY <2>3, ImageParts DEF Layouts
  <2> QED BY <1>1, <2>4 DEF Pushed
<1>2. CASE StartUpload(u)
  BY <1>2 DEF StartUpload
<1>3. CASE PushImage(u)
  BY <1>1, <1>3 DEF PushImage
<1>4. CASE PushChart(u)
  BY <1>4 DEF PushChart
<1>5. CASE UploadFails(u)
  <2>1. faults' \in 0..MaxFaults
    BY <1>5 DEF UploadFails
  <2>2. registry' \in [Destinations -> Sources \cup {Absent}]
    BY <1>1, <1>5 DEF UploadFails
  <2>3. released' \in BOOLEAN
    BY <1>5 DEF UploadFails
  <2>4. upload' \in [Uploads -> {"idle", "push", "done"}]
    BY <1>5 DEF UploadFails
  <2> QED BY <1>5, <2>1, <2>2, <2>3, <2>4 DEF UploadFails
<1> QED BY <1>2, <1>3, <1>4, <1>5 DEF Upload

\* TypeOK: every variable keeps its type, also the directories that were cut
\* short or damaged.
THEOREM TypeCorrect == Spec => []TypeOK
<1>1. Init => TypeInv
  <2> SUFFICES ASSUME Init PROVE TypeOK /\ StageTyped
    BY DEF TypeInv
  <2>1. \A d \in Downloads : download[d] \notin Collecting
    BY DEF Init, Collecting
  <2>2. images \in [Downloads -> Seq(Images)]
    BY DEF Init
  <2>3. next \in [Uploads -> Nat \ {0}]
    BY DEF Init
  <2>4. /\ download \in [Downloads -> Collecting \cup {"idle", "cleanup", "killed", "done"}]
        /\ stage \in [Downloads -> Directories \cup {Absent}]
        /\ upload \in [Uploads -> {"idle", "push", "done"}]
        /\ registry \in [Destinations -> Sources \cup {Absent}]
    BY DEF Init
  <2>5. /\ bundle \in Directories \cup {Absent} /\ copy \in Directories \cup {Absent}
        /\ released \in BOOLEAN
    BY DEF Init
  <2>6. faults \in 0..MaxFaults
    BY MaxFaultsAssumption DEF Init
  <2>7. TypeOK
    BY ONLY <2>2, <2>3, <2>4, <2>5, <2>6 DEF TypeOK
  <2> QED BY <2>1, <2>7 DEF StageTyped
<1>2. ASSUME TypeInv, IInv, [Next]_vars PROVE TypeInv'
  <2>1. BundleFacts /\ RegistryFacts
    BY <1>2 DEF IInv, DownloadInv
  <2>2. CASE UNCHANGED vars
    BY <1>2, <2>2 DEF vars, collecting, pushing, TypeInv, TypeOK, StageTyped
  <2> QED BY <1>2, <2>1, <2>2, DownloadTypes, UploadTypes, CarryTypes DEF Next
<1>3. TypeInv => TypeOK
  BY DEF TypeInv
<1> QED BY Invariance, <1>1, <1>2, <1>3, PTL DEF Spec
=============================================================================
