---------------------------- MODULE UpdateProofs ----------------------------
(***************************************************************************)
(* For any number of versions, failures of the disk, restarts and clicks:  *)
(* an install never takes the user to a worse place, a skipped version is  *)
(* not offered by itself, and the control of the status bar shows, once    *)
(* all is quiet, what the service is.                                      *)
(***************************************************************************)
EXTENDS UpdateView, TLAPS

CheckBy == {"none", "auto", "manual"}
DownloadPc == {"none", "start", "reverify", "fetch", "archive", "extract", "verify",
               "mark", "prepared", "failed"}
InstallPc == {"none", "probe", "clean", "stage", "copy", "verify", "aside", "place",
              "rollback", "restore", "placed", "failed", "done"}

ServiceOK == /\ current \in Version /\ phase \in Phase
             /\ mode \in Mode /\ baseMode \in Mode
             /\ available \in 0..MaxVersion /\ readyApp \in 0..MaxVersion
             /\ hasAsset \in BOOLEAN /\ due \in BOOLEAN
PrefsOK == prefs \in Preferences /\ disk \in Preferences /\ wish \in 0..MaxVersion
CheckOK == check \in [by : CheckBy, prev : {"idle", "available", "ready"}]
DownloadOK == dl \in [pc : DownloadPc, version : 0..MaxVersion]
InstallOK == inst \in [pc : InstallPc, moved : BOOLEAN, denied : BOOLEAN]
CacheOK == cache \in [Version -> Folder]
DiskOK == /\ {target, incoming, previous} \subseteq Bundle \union {NoBundle}
          /\ failures \in 0..MaxFailures /\ restarts \in 0..MaxRestarts

TypeOK == /\ ServiceOK /\ PrefsOK /\ CheckOK /\ DownloadOK /\ InstallOK
          /\ CacheOK /\ DiskOK

(* The phase tells which activity is in flight, and there is one at a time.  *)
ActivityInv ==
  /\ phase = "checking" <=> check # NoCheck
  /\ check # NoCheck <=> check.by # "none"
  /\ phase \in {"downloading", "verifying"} <=> dl.pc # "none"
  /\ phase = "installing" <=> inst.pc # "none"

(* What is offered is newer, what is ready is what is offered, and a phase    *)
(* that a check interrupts comes back to what it was.                        *)
Resting == IF phase = "checking" THEN check.prev ELSE phase
OfferInv ==
  /\ available # 0 => /\ available > current
                      /\ mode = IF hasAsset THEN baseMode ELSE "notify"
  /\ readyApp \in {0, available}
  /\ Resting \in {"available", "ready"} => available # 0
  /\ Resting = "ready" => readyApp # 0
  /\ dl.pc # "none" => dl.version = available /\ available # 0
  /\ inst.pc \notin {"none", "done"} => readyApp # 0 /\ hasAsset

\* Where the bundle that is to be installed lies beside the target, whole.
Staged == {"verify", "aside", "place", "rollback", "restore"}

(* A folder of the cache holds its own version; what is beside the target is  *)
(* the version that is ready, and verified before anything is moved.         *)
Own(b, v) == b # NoBundle => b.version = v
StagingInv ==
  /\ \A v \in Version : Own(cache[v].app, v)
  /\ inst.pc = "copy" => cache[readyApp].app # NoBundle
  /\ inst.pc \in Staged => incoming # NoBundle /\ incoming.version = readyApp
  /\ inst.pc \in {"aside", "place", "rollback"} => incoming.content = "good"
  /\ inst.pc = "placed" => target # NoBundle /\ target.version = readyApp

(* The target is empty only between two renames, with what was there beside   *)
(* it, or after both the second rename and its undoing failed.               *)
BundleInv ==
  /\ target # NoBundle => target.content = "good"
  /\ previous # NoBundle => previous.content = "good"
  /\ inst.pc \in {"place", "rollback"} => target = NoBundle /\ previous # NoBundle
  /\ inst.pc = "rollback" => failures > 0
  /\ target = NoBundle => inst.pc \in {"place", "rollback"} \/ failures > 1

(* While the disk never failed, what the user skipped is in memory and in    *)
(* the file.                                                                 *)
SkipInv == failures = 0 => prefs.skipped = wish /\ disk.skipped = wish

IInv == TypeOK /\ ActivityInv /\ OfferInv /\ StagingInv /\ BundleInv /\ SkipInv

(* Events leave in the order of their revisions and the last one is the state *)
(* of the service; an answer or the state shown is that state or an older one.*)
\* Where nobody looks, nothing is told.
Told == [revision : Nat \ {0}, phase : Phase, mode : Mode, available : 0..MaxVersion,
         skipped : 0..MaxVersion, auto : BOOLEAN]
OldOrNow(state) == /\ state.revision <= revision
                   /\ state.revision = revision => state = State
EventsInv == /\ revision \in Nat \ {0} /\ events \in Seq(Told)
             /\ Len(events) < revision
             /\ \A i \in DOMAIN events : events[i].revision = (revision - Len(events)) + i
             /\ events # <<>> => events[Len(events)] = State
AnswersInv == answers \subseteq Told /\ \A a \in answers : OldOrNow(a)
ShownInv == IF shown = NoState THEN Len(events) + 1 = revision
            ELSE shown \in Told /\ OldOrNow(shown) /\ shown.revision + Len(events) >= revision
WatchedInv == /\ watched \in BOOLEAN
              /\ ~watched => events = <<>> /\ answers = {} /\ shown = NoState /\ revision = 1

ViewInv == EventsInv /\ AnswersInv /\ ShownInv /\ WatchedInv
ViewIInv == IInv /\ ViewInv

LEMMA Parts ==
  ASSUME IInv
  PROVE  /\ ServiceOK /\ PrefsOK /\ CheckOK /\ DownloadOK /\ InstallOK
         /\ CacheOK /\ DiskOK
         /\ ActivityInv /\ OfferInv /\ StagingInv /\ BundleInv /\ SkipInv
BY DEF IInv, TypeOK

USE DEF Version, Phase, Mode, CheckBy, DownloadPc, InstallPc, Staged, NoCheck,
        NoDownload, NoInstall, offer, prefVars, bundles

-------------------------------------------------------------------------------
(* What a step does to the disk, to the activity in flight and to the cache.  *)

LEMMA Numbers == 0 \in 0..MaxVersion /\ 1 \in Version /\ Version \subseteq 0..MaxVersion
BY UpdateAssumption

LEMMA Failing ==
  ASSUME DiskOK
  PROVE  /\ failures \in Nat
         /\ Works => failures' = failures
         /\ Fails => failures' = failures + 1
         /\ Works \/ Fails => failures' \in 0..MaxFailures
BY UpdateAssumption DEF DiskOK, Works, Fails

LEMMA Downloads ==
  ASSUME DownloadOK, NEW from \in DownloadPc,
         NEW to \in DownloadPc, DownloadStep(from, to)
  PROVE  /\ dl.pc = from /\ dl'.pc = to /\ dl'.version = dl.version /\ DownloadOK'
         /\ UNCHANGED <<current, offer, prefVars, due, check, inst, bundles, restarts>>
<1>1. dl.pc = from /\ dl' = [dl EXCEPT !.pc = to]
  BY DEF DownloadStep
<1>2. DownloadOK'
  BY <1>1 DEF DownloadOK
<1> QED
  BY <1>1, <1>2 DEF DownloadStep, DownloadOK

LEMMA Swaps ==
  ASSUME InstallOK, NEW from \in InstallPc,
         NEW to \in InstallPc, SwapStep(from, to)
  PROVE  /\ inst.pc = from /\ inst'.pc = to /\ InstallOK'
         /\ inst'.moved = inst.moved
         /\ UNCHANGED <<current, phase, offer, prefVars, due, check, dl, restarts>>
<1>1. inst.pc = from /\ inst' = [inst EXCEPT !.pc = to]
  BY DEF SwapStep
<1>2. InstallOK'
  BY <1>1 DEF InstallOK
<1> QED
  BY <1>1, <1>2 DEF SwapStep, InstallOK

LEMMA SwapsNot ==
  ASSUME InstallOK, NEW from \in InstallPc,
         NEW to \in InstallPc, SwapFails(from, to)
  PROVE  /\ inst.pc = from /\ inst'.pc = to /\ InstallOK' /\ Fails
         /\ UNCHANGED <<current, phase, offer, prefVars, due, check, dl, cache, bundles,
                        restarts>>
<1>1. PICK denied \in BOOLEAN :
        inst' = [inst EXCEPT !.pc = to, !.denied = inst.denied \/ denied]
  BY DEF SwapFails
<1>2. inst'.pc = to /\ inst'.moved = inst.moved /\ inst'.denied = (inst.denied \/ denied)
  BY <1>1 DEF InstallOK
<1>3. (inst.denied \/ denied) \in BOOLEAN /\ inst.moved \in BOOLEAN
  BY DEF InstallOK
<1>4. InstallOK'
  BY <1>1, <1>3 DEF InstallOK
<1> QED
  BY <1>2, <1>4 DEF SwapFails

\* A folder of the cache is emptied, or its bundle or its mark is written.
LEMMA Empties ==
  ASSUME CacheOK, \A v \in Version : Own(cache[v].app, v),
         NEW f, f = [v \in Version |-> f[v]],
         \A v \in Version : f[v] \in {Empty, cache[v]}
  PROVE  f \in [Version -> Folder] /\ \A v \in Version : Own(f[v].app, v)
<1>1. Empty \in Folder /\ Empty.app = NoBundle
  BY DEF Empty, Folder
<1>2. ASSUME NEW v \in Version PROVE f[v] \in Folder /\ Own(f[v].app, v)
  BY <1>1 DEF CacheOK, Own
<1> QED
  BY <1>2

LEMMA EmptiesOne ==
  ASSUME CacheOK, \A v \in Version : Own(cache[v].app, v), NEW v \in Version,
         cache' = [cache EXCEPT ![v] = Empty]
  PROVE  CacheOK' /\ \A u \in Version : Own(cache'[u].app, u)
<1>1. cache' = [u \in Version |-> cache'[u]]
  BY DEF CacheOK
<1>2. \A u \in Version : cache'[u] \in {Empty, cache[u]}
  BY DEF CacheOK
<1> QED
  BY <1>1, <1>2, Empties DEF CacheOK

LEMMA Fills ==
  ASSUME CacheOK, \A u \in Version : Own(cache[u].app, u), NEW v \in Version,
         NEW b \in Bundle \union {NoBundle}, Own(b, v),
         cache' = [cache EXCEPT ![v].app = b]
  PROVE  /\ CacheOK' /\ \A u \in Version : Own(cache'[u].app, u)
         /\ cache'[v].app = b
<1>1. cache[v].marker \in BOOLEAN
  BY DEF CacheOK, Folder
<1>2. cache'[v].app = b /\ \A u \in Version : u # v => cache'[u] = cache[u]
  BY DEF CacheOK, Folder
<1>3. [cache[v] EXCEPT !.app = b] \in Folder
  BY <1>1 DEF CacheOK, Folder
<1>4. CacheOK'
  BY <1>3 DEF CacheOK
<1> QED
  BY <1>2, <1>4

LEMMA Marks ==
  ASSUME CacheOK, \A u \in Version : Own(cache[u].app, u), NEW v \in Version,
         cache' = [cache EXCEPT ![v].marker = TRUE]
  PROVE  CacheOK' /\ \A u \in Version : Own(cache'[u].app, u)
<1>1. \A u \in Version : cache'[u].app = cache[u].app
  BY DEF CacheOK, Folder
<1>2. [cache[v] EXCEPT !.marker = TRUE] \in Folder
  BY DEF CacheOK, Folder
<1>3. CacheOK'
  BY <1>2 DEF CacheOK
<1> QED
  BY <1>1, <1>3

LEMMA Damages ==
  ASSUME CacheOK, \A u \in Version : Own(cache[u].app, u), NEW v \in Version,
         cache[v].app.content = "good", cache' = [cache EXCEPT ![v].app.content = "bad"]
  PROVE  /\ CacheOK' /\ \A u \in Version : Own(cache'[u].app, u)
         /\ \A u \in Version : cache[u].app # NoBundle => cache'[u].app # NoBundle
<1> DEFINE b == [cache[v].app EXCEPT !.content = "bad"]
<1>1. cache[v].app \in Bundle /\ cache[v].app # NoBundle
  BY DEF CacheOK, Folder, NoBundle
<1>2. b \in Bundle
  BY <1>1 DEF Bundle
<1>3. b # NoBundle /\ b.version = cache[v].app.version
  BY <1>1 DEF Bundle, NoBundle
<1>4. Own(b, v)
  BY <1>1, <1>3 DEF Own
<1>5. cache' = [cache EXCEPT ![v].app = b]
  BY DEF CacheOK, Folder
<1>6. \A u \in Version : u # v => cache'[u] = cache[u]
  BY DEF CacheOK
<1> HIDE DEF b
<1> QED
  BY <1>2, <1>3, <1>4, <1>5, <1>6, Fills

\* The preferences are changed in one of their fields.
LEMMA Prefers ==
  ASSUME PrefsOK, NEW skipped \in 0..MaxVersion, NEW auto \in BOOLEAN
  PROVE  /\ [prefs EXCEPT !.skipped = skipped] \in Preferences
         /\ [prefs EXCEPT !.skipped = skipped].skipped = skipped
         /\ [prefs EXCEPT !.auto = auto] \in Preferences
         /\ [prefs EXCEPT !.auto = auto].skipped = prefs.skipped
BY DEF PrefsOK, Preferences

-------------------------------------------------------------------------------

LEMMA TimerFiresStep ==
  ASSUME IInv, TimerFires
  PROVE  IInv'
<1>1. TypeOK'
  BY Parts DEF TimerFires, TypeOK, ServiceOK, PrefsOK, CheckOK, DownloadOK,
               InstallOK, CacheOK, DiskOK
<1>2. ActivityInv'
  BY Parts DEF TimerFires, ActivityInv
<1>3. OfferInv'
  BY Parts DEF TimerFires, OfferInv, Resting
<1>4. StagingInv'
  BY Parts DEF TimerFires, StagingInv
<1>5. BundleInv'
  BY Parts DEF TimerFires, BundleInv
<1>6. SkipInv'
  BY Parts DEF TimerFires, SkipInv
<1> QED
  BY <1>1, <1>2, <1>3, <1>4, <1>5, <1>6 DEF IInv

LEMMA ManualCheckStep ==
  ASSUME IInv, ManualCheck
  PROVE  IInv'
<1>1. TypeOK'
  BY Parts DEF ManualCheck, StartCheck, MayCheck, Busy, TypeOK, ServiceOK,
               PrefsOK, CheckOK, DownloadOK, InstallOK, CacheOK, DiskOK
<1>2. ActivityInv'
  BY Parts DEF ManualCheck, StartCheck, MayCheck, Busy, ActivityInv
<1>3. OfferInv'
  BY Parts DEF ManualCheck, StartCheck, MayCheck, Busy, OfferInv, Resting
<1>4. StagingInv'
  BY Parts DEF ManualCheck, StartCheck, MayCheck, Busy, StagingInv
<1>5. BundleInv'
  BY Parts DEF ManualCheck, StartCheck, MayCheck, Busy, BundleInv
<1>6. SkipInv'
  BY Parts DEF ManualCheck, StartCheck, MayCheck, Busy, SkipInv
<1> QED
  BY <1>1, <1>2, <1>3, <1>4, <1>5, <1>6 DEF IInv

LEMMA AutoCheckStep ==
  ASSUME IInv, AutoCheck
  PROVE  IInv'
<1>1. /\ phase \in {"idle", "available"}
      /\ check' = [by |-> "auto", prev |-> phase]
  BY Parts DEF AutoCheck, StartCheck, MayCheck, Busy, ServiceOK
<1>2. TypeOK'
  <2>1. ServiceOK'
    BY <1>1, Parts, Failing, Numbers DEF AutoCheck, StartCheck, ServiceOK
  <2>2. PrefsOK'
    BY <1>1, Parts, Failing, Numbers DEF AutoCheck, StartCheck, PrefsOK
  <2>3. CheckOK' /\ DownloadOK' /\ InstallOK'
    BY <1>1, Parts, Failing, Numbers DEF AutoCheck, StartCheck, CheckOK,
                                         DownloadOK, InstallOK
  <2>4. CacheOK' /\ DiskOK'
    BY <1>1, Parts, Failing, Numbers DEF AutoCheck, StartCheck, CacheOK, DiskOK
  <2> QED
    BY <2>1, <2>2, <2>3, <2>4 DEF TypeOK
<1>3. ActivityInv'
  BY <1>1, Parts DEF AutoCheck, StartCheck, ActivityInv
<1>4. OfferInv'
  BY Parts DEF AutoCheck, StartCheck, OfferInv, Resting
<1>5. StagingInv'
  BY Parts DEF AutoCheck, StartCheck, StagingInv
<1>6. BundleInv'
  BY Parts DEF AutoCheck, StartCheck, BundleInv
<1>7. SkipInv'
  BY Parts DEF AutoCheck, StartCheck, SkipInv
<1> QED
  BY <1>2, <1>3, <1>4, <1>5, <1>6, <1>7 DEF IInv

LEMMA AutoCheckGivesUpStep ==
  ASSUME IInv, AutoCheckGivesUp
  PROVE  IInv'
<1>1. TypeOK'
  <2>1. ServiceOK'
    BY Parts, Failing, Numbers DEF AutoCheckGivesUp, ServiceOK
  <2>2. PrefsOK'
    BY Parts, Failing, Numbers DEF AutoCheckGivesUp, PrefsOK
  <2>3. CheckOK' /\ DownloadOK' /\ InstallOK'
    BY Parts, Failing, Numbers DEF AutoCheckGivesUp, CheckOK, DownloadOK,
                                   InstallOK
  <2>4. CacheOK' /\ DiskOK'
    BY Parts, Failing, Numbers DEF AutoCheckGivesUp, CacheOK, DiskOK
  <2> QED
    BY <2>1, <2>2, <2>3, <2>4 DEF TypeOK
<1>2. ActivityInv'
  BY Parts DEF AutoCheckGivesUp, ActivityInv
<1>3. OfferInv'
  BY Parts DEF AutoCheckGivesUp, OfferInv, Resting
<1>4. StagingInv'
  BY Parts DEF AutoCheckGivesUp, StagingInv
<1>5. BundleInv'
  BY Parts DEF AutoCheckGivesUp, BundleInv
<1>6. SkipInv'
  BY Parts DEF AutoCheckGivesUp, SkipInv
<1> QED
  BY <1>1, <1>2, <1>3, <1>4, <1>5, <1>6 DEF IInv

LEMMA CheckFailsStep ==
  ASSUME IInv, CheckFails
  PROVE  IInv'
<1>1. TypeOK'
  BY Parts DEF CheckFails, TypeOK, ServiceOK, PrefsOK, CheckOK, DownloadOK,
               InstallOK, CacheOK, DiskOK
<1>2. ActivityInv'
  BY Parts DEF CheckFails, ActivityInv, CheckOK
<1>3. OfferInv'
  BY Parts DEF CheckFails, OfferInv, Resting, ActivityInv
<1>4. StagingInv'
  BY Parts DEF CheckFails, StagingInv
<1>5. BundleInv'
  BY Parts DEF CheckFails, BundleInv
<1>6. SkipInv'
  BY Parts DEF CheckFails, SkipInv
<1> QED
  BY <1>1, <1>2, <1>3, <1>4, <1>5, <1>6 DEF IInv

LEMMA LookInCacheStep ==
  ASSUME IInv, LookInCache
  PROVE  IInv'
<1>1. /\ dl'.version = dl.version /\ DownloadOK'
      /\ UNCHANGED <<current, offer, prefVars, due, check, inst, bundles, restarts>>
      /\ \/ dl.pc = "start" /\ dl'.pc = "reverify" /\ phase' = "verifying"
         \/ dl.pc = "start" /\ dl'.pc = "fetch" /\ phase' = phase
  BY Parts, Downloads DEF LookInCache, Verifies
<1>2. CacheOK' /\ \A u \in Version : Own(cache'[u].app, u)
  BY Parts DEF LookInCache, CacheOK, StagingInv
<1>3. TypeOK'
  BY <1>1, Parts DEF LookInCache, TypeOK, ServiceOK, PrefsOK, CheckOK,
                     DownloadOK, InstallOK, CacheOK, DiskOK
<1>4. ActivityInv'
  BY <1>1, Parts DEF LookInCache, ActivityInv
<1>5. OfferInv'
  BY <1>1, Parts DEF LookInCache, OfferInv, Resting
<1>6. StagingInv'
  BY <1>1, Parts DEF LookInCache, StagingInv
<1>7. BundleInv'
  BY <1>1, Parts DEF LookInCache, BundleInv
<1>8. SkipInv'
  BY <1>1, Parts DEF LookInCache, SkipInv
<1> QED
  BY <1>3, <1>4, <1>5, <1>6, <1>7, <1>8 DEF IInv

LEMMA ReverifyStep ==
  ASSUME IInv, Reverify
  PROVE  IInv'
<1>1. /\ dl'.version = dl.version /\ DownloadOK'
      /\ UNCHANGED <<current, offer, prefVars, due, check, inst, bundles, restarts>>
      /\ \/ dl.pc = "reverify" /\ dl'.pc = "prepared" /\ phase' = phase
         \/ dl.pc = "reverify" /\ dl'.pc = "fetch" /\ phase' = "downloading"
  BY Parts, Downloads DEF Reverify, Verifies
<1>2. CacheOK' /\ \A u \in Version : Own(cache'[u].app, u)
  BY Parts DEF Reverify, CacheOK, StagingInv
<1>3. TypeOK'
  BY <1>1, Parts DEF Reverify, TypeOK, ServiceOK, PrefsOK, CheckOK, DownloadOK,
                     InstallOK, CacheOK, DiskOK
<1>4. ActivityInv'
  BY <1>1, Parts DEF Reverify, ActivityInv
<1>5. OfferInv'
  BY <1>1, Parts DEF Reverify, OfferInv, Resting
<1>6. StagingInv'
  BY <1>1, Parts DEF Reverify, StagingInv
<1>7. BundleInv'
  BY <1>1, Parts DEF Reverify, BundleInv
<1>8. SkipInv'
  BY <1>1, Parts DEF Reverify, SkipInv
<1> QED
  BY <1>3, <1>4, <1>5, <1>6, <1>7, <1>8 DEF IInv

LEMMA DigestStep ==
  ASSUME IInv, Digest
  PROVE  IInv'
<1>1. /\ dl'.version = dl.version /\ DownloadOK'
      /\ UNCHANGED <<current, offer, prefVars, due, check, inst, bundles, restarts>>
      /\ \/ dl.pc = "fetch" /\ dl'.pc = "archive" /\ phase' = phase
         \/ dl.pc = "fetch" /\ dl'.pc = "failed" /\ phase' = phase
  BY Parts, Downloads DEF Digest, Verifies
<1>2. CacheOK' /\ \A u \in Version : Own(cache'[u].app, u)
  <2>1. dl.version \in Version
    BY <1>1, Parts, UpdateAssumption DEF OfferInv, DownloadOK
  <2>2. CASE cache' = [cache EXCEPT ![dl.version] = Empty]
    BY <2>1, <2>2, Parts, EmptiesOne DEF StagingInv
  <2>3. CASE cache' = cache
    BY <2>3, Parts DEF CacheOK, StagingInv
  <2> QED
    BY <2>2, <2>3 DEF Digest
<1>3. TypeOK'
  BY <1>1, <1>2, Parts DEF Digest, TypeOK, ServiceOK, PrefsOK, CheckOK,
                           DownloadOK, InstallOK, CacheOK, DiskOK
<1>4. ActivityInv'
  BY <1>1, Parts DEF Digest, ActivityInv
<1>5. OfferInv'
  BY <1>1, Parts DEF Digest, OfferInv, Resting
<1>6. StagingInv'
  BY <1>1, <1>2, Parts DEF Digest, StagingInv, ActivityInv
<1>7. BundleInv'
  BY <1>1, Parts DEF Digest, BundleInv
<1>8. SkipInv'
  BY <1>1, Parts DEF Digest, SkipInv
<1> QED
  BY <1>3, <1>4, <1>5, <1>6, <1>7, <1>8 DEF IInv

LEMMA FetchStep ==
  ASSUME IInv, Fetch
  PROVE  IInv'
<1>1. /\ dl'.version = dl.version /\ DownloadOK'
      /\ UNCHANGED <<current, offer, prefVars, due, check, inst, bundles, restarts>>
      /\ \/ dl.pc = "archive" /\ dl'.pc = "extract" /\ phase' = "verifying"
         \/ dl.pc = "archive" /\ dl'.pc = "failed" /\ phase' = phase
  BY Parts, Downloads DEF Fetch, Verifies
<1>2. CacheOK' /\ \A u \in Version : Own(cache'[u].app, u)
  BY Parts DEF Fetch, CacheOK, StagingInv
<1>3. TypeOK'
  BY <1>1, Parts DEF Fetch, TypeOK, ServiceOK, PrefsOK, CheckOK, DownloadOK,
                     InstallOK, CacheOK, DiskOK
<1>4. ActivityInv'
  BY <1>1, Parts DEF Fetch, ActivityInv
<1>5. OfferInv'
  BY <1>1, Parts DEF Fetch, OfferInv, Resting
<1>6. StagingInv'
  BY <1>1, Parts DEF Fetch, StagingInv
<1>7. BundleInv'
  BY <1>1, Parts DEF Fetch, BundleInv
<1>8. SkipInv'
  BY <1>1, Parts DEF Fetch, SkipInv
<1> QED
  BY <1>3, <1>4, <1>5, <1>6, <1>7, <1>8 DEF IInv

LEMMA ExtractStep ==
  ASSUME IInv, Extract
  PROVE  IInv'
<1>1. /\ dl'.version = dl.version /\ DownloadOK'
      /\ UNCHANGED <<current, offer, prefVars, due, check, inst, bundles, restarts>>
      /\ \/ dl.pc = "extract" /\ dl'.pc = "verify" /\ phase' = phase
         \/ dl.pc = "extract" /\ dl'.pc = "failed" /\ phase' = phase
  BY Parts, Downloads DEF Extract, Verifies
<1>2. CacheOK' /\ \A u \in Version : Own(cache'[u].app, u)
  <2>1. dl.version \in Version
    BY <1>1, Parts DEF OfferInv, DownloadOK
  <2>2. ASSUME NEW content \in {"good", "bad"},
               cache' = [cache EXCEPT ![dl.version].app =
                           [version |-> dl.version, content |-> content]]
        PROVE  CacheOK' /\ \A u \in Version : Own(cache'[u].app, u)
    <3>1. [version |-> dl.version, content |-> content] \in Bundle
      BY <2>1 DEF Bundle
    <3>2. Own([version |-> dl.version, content |-> content], dl.version)
      BY DEF Own
    <3> QED
      BY <2>1, <2>2, <3>1, <3>2, Parts, Fills DEF StagingInv
  <2>3. CASE cache' = cache
    BY <2>3, Parts DEF CacheOK, StagingInv
  <2> QED
    BY <2>2, <2>3 DEF Extract
<1>3. TypeOK'
  BY <1>1, <1>2, Parts DEF Extract, TypeOK, ServiceOK, PrefsOK, CheckOK,
                           DownloadOK, InstallOK, CacheOK, DiskOK
<1>4. ActivityInv'
  BY <1>1, Parts DEF Extract, ActivityInv
<1>5. OfferInv'
  BY <1>1, Parts DEF Extract, OfferInv, Resting
<1>6. StagingInv'
  BY <1>1, <1>2, Parts DEF Extract, StagingInv, ActivityInv
<1>7. BundleInv'
  BY <1>1, Parts DEF Extract, BundleInv
<1>8. SkipInv'
  BY <1>1, Parts DEF Extract, SkipInv
<1> QED
  BY <1>3, <1>4, <1>5, <1>6, <1>7, <1>8 DEF IInv

LEMMA VerifyStep ==
  ASSUME IInv, Verify
  PROVE  IInv'
<1>1. /\ dl'.version = dl.version /\ DownloadOK'
      /\ UNCHANGED <<current, offer, prefVars, due, check, inst, bundles, restarts>>
      /\ \/ dl.pc = "verify" /\ dl'.pc = "mark" /\ phase' = phase
         \/ dl.pc = "verify" /\ dl'.pc = "failed" /\ phase' = phase
  BY Parts, Downloads DEF Verify, Verifies
<1>2. CacheOK' /\ \A u \in Version : Own(cache'[u].app, u)
  BY Parts DEF Verify, CacheOK, StagingInv
<1>3. TypeOK'
  BY <1>1, Parts DEF Verify, TypeOK, ServiceOK, PrefsOK, CheckOK, DownloadOK,
                     InstallOK, CacheOK, DiskOK
<1>4. ActivityInv'
  BY <1>1, Parts DEF Verify, ActivityInv
<1>5. OfferInv'
  BY <1>1, Parts DEF Verify, OfferInv, Resting
<1>6. StagingInv'
  BY <1>1, Parts DEF Verify, StagingInv
<1>7. BundleInv'
  BY <1>1, Parts DEF Verify, BundleInv
<1>8. SkipInv'
  BY <1>1, Parts DEF Verify, SkipInv
<1> QED
  BY <1>3, <1>4, <1>5, <1>6, <1>7, <1>8 DEF IInv

LEMMA MarkStep ==
  ASSUME IInv, Mark
  PROVE  IInv'
<1>1. /\ dl'.version = dl.version /\ DownloadOK'
      /\ UNCHANGED <<current, offer, prefVars, due, check, inst, bundles, restarts>>
      /\ \/ dl.pc = "mark" /\ dl'.pc = "prepared" /\ phase' = phase
         \/ dl.pc = "mark" /\ dl'.pc = "failed" /\ phase' = phase
  BY Parts, Downloads DEF Mark, Verifies
<1>2. CacheOK' /\ \A u \in Version : Own(cache'[u].app, u)
  <2>1. dl.version \in Version
    BY <1>1, Parts DEF OfferInv, DownloadOK
  <2>2. CASE cache' = [cache EXCEPT ![dl.version].marker = TRUE]
    BY <2>1, <2>2, Parts, Marks DEF StagingInv
  <2>3. CASE cache' = cache
    BY <2>3, Parts DEF CacheOK, StagingInv
  <2> QED
    BY <2>2, <2>3 DEF Mark
<1>3. TypeOK'
  BY <1>1, <1>2, Parts, Failing DEF Mark, TypeOK, ServiceOK, PrefsOK, CheckOK,
                                    DownloadOK, InstallOK, CacheOK, DiskOK
<1>4. ActivityInv'
  BY <1>1, Parts DEF Mark, ActivityInv
<1>5. OfferInv'
  BY <1>1, Parts DEF Mark, OfferInv, Resting
<1>6. StagingInv'
  BY <1>1, <1>2, Parts DEF Mark, StagingInv, ActivityInv
<1>7. BundleInv'
  BY <1>1, Parts, Failing DEF Mark, BundleInv
<1>8. SkipInv'
  BY <1>1, Parts, Failing DEF Mark, SkipInv
<1> QED
  BY <1>3, <1>4, <1>5, <1>6, <1>7, <1>8 DEF IInv

LEMMA NothingToOfferStep ==
  ASSUME IInv, NEW v \in 0..MaxVersion, NothingToOffer(v)
  PROVE  IInv'
<1>1. CacheOK' /\ \A u \in Version : Own(cache'[u].app, u)
  <2>1. CASE cache' = [u \in Version |-> IF u = available THEN Empty ELSE cache[u]]
    BY <2>1, Parts, Empties DEF CacheOK, StagingInv
  <2>2. CASE cache' = cache
    BY <2>2, Parts DEF CacheOK, StagingInv
  <2> QED
    BY <2>1, <2>2 DEF NothingToOffer, ClearAvailable, DiscardCache
<1>2. /\ Works \/ Fails
      /\ UNCHANGED <<current, prefVars, due, dl, inst, bundles, restarts>>
  BY DEF NothingToOffer, ClearAvailable, DiscardCache
<1>3. TypeOK'
  <2>1. ServiceOK'
    BY <1>1, <1>2, Parts, Failing, Numbers
       DEF NothingToOffer, ClearAvailable, ServiceOK
  <2>2. PrefsOK'
    BY <1>1, <1>2, Parts, Failing, Numbers
       DEF NothingToOffer, ClearAvailable, PrefsOK
  <2>3. CheckOK' /\ DownloadOK' /\ InstallOK'
    BY <1>1, <1>2, Parts, Failing, Numbers
       DEF NothingToOffer, ClearAvailable, CheckOK, DownloadOK, InstallOK
  <2>4. CacheOK' /\ DiskOK'
    BY <1>1, <1>2, Parts, Failing, Numbers
       DEF NothingToOffer, ClearAvailable, CacheOK, DiskOK
  <2> QED
    BY <2>1, <2>2, <2>3, <2>4 DEF TypeOK
<1>4. ActivityInv'
  BY Parts DEF NothingToOffer, ClearAvailable, ActivityInv
<1>5. OfferInv'
  BY Parts DEF NothingToOffer, ClearAvailable, OfferInv, Resting, ActivityInv
<1>6. StagingInv'
  BY <1>1, Parts DEF NothingToOffer, ClearAvailable, StagingInv, ActivityInv
<1>7. BundleInv'
  BY <1>2, Parts, Failing DEF NothingToOffer, ClearAvailable, BundleInv
<1>8. SkipInv'
  BY <1>2, Parts, Failing DEF NothingToOffer, ClearAvailable, SkipInv
<1> QED
  BY <1>3, <1>4, <1>5, <1>6, <1>7, <1>8 DEF IInv

LEMMA OfferStep ==
  ASSUME IInv, NEW v \in 0..MaxVersion, Offer(v)
  PROVE  IInv'
<1>1. CacheOK' /\ \A u \in Version : Own(cache'[u].app, u)
  <2>1. CASE cache' = [u \in Version |-> IF Replaced(v) /\ u = available THEN Empty
                                                                ELSE cache[u]]
    BY <2>1, Parts, Empties DEF CacheOK, StagingInv
  <2>2. CASE cache' = cache
    BY <2>2, Parts DEF CacheOK, StagingInv
  <2> QED
    BY <2>1, <2>2 DEF Offer, DiscardAndSave
<1>2. /\ Works \/ Fails
      /\ disk' \in {disk, prefs'}
  BY DEF Offer, DiscardAndSave, Written
<1>3. /\ prefs' \in Preferences
      /\ prefs'.skipped = IF SkipReplaced(v) THEN 0 ELSE prefs.skipped
  <2>1. prefs' = [prefs EXCEPT !.skipped = IF SkipReplaced(v) THEN 0 ELSE @]
    BY DEF Offer
  <2>2. (IF SkipReplaced(v) THEN 0 ELSE prefs.skipped) \in 0..MaxVersion
    BY Parts, UpdateAssumption DEF PrefsOK, Preferences
  <2> QED
    BY <2>1, <2>2, Parts DEF PrefsOK, Preferences
<1>4. /\ v \in Version /\ v > current
      /\ readyApp' \in {0, readyApp}
      /\ (readyApp' # 0 => available = v)
  BY Parts, UpdateAssumption DEF Offer, Newer, Replaced, ServiceOK, OfferInv
<1>5. failures' = 0 => disk'.skipped = IF SkipReplaced(v) THEN 0 ELSE disk.skipped
  <2>1. CASE disk' = IF SkipReplaced(v) THEN prefs' ELSE disk
    BY <1>3, <2>1
  <2>2. CASE SkipReplaced(v) /\ Fails
    BY <2>2, Parts, Failing
  <2> QED
    BY <2>1, <2>2 DEF Offer, DiscardAndSave, Written
<1>6. TypeOK'
  <2>1. ServiceOK'
    BY <1>1, <1>2, <1>3, <1>4, <1>5, Parts, Failing, Numbers
       DEF Offer, Replaced, Newer, ServiceOK
  <2>2. PrefsOK'
    BY <1>1, <1>2, <1>3, <1>4, <1>5, Parts, Failing, Numbers
       DEF Offer, Replaced, Newer, PrefsOK
  <2>3. CheckOK' /\ DownloadOK' /\ InstallOK'
    BY <1>1, <1>2, <1>3, <1>4, <1>5, Parts, Failing, Numbers
       DEF Offer, Replaced, Newer, CheckOK, DownloadOK, InstallOK
  <2>4. CacheOK' /\ DiskOK'
    BY <1>1, <1>2, <1>3, <1>4, <1>5, Parts, Failing, Numbers
       DEF Offer, Replaced, Newer, CacheOK, DiskOK
  <2> QED
    BY <2>1, <2>2, <2>3, <2>4 DEF TypeOK
<1>7. ActivityInv'
  BY Parts DEF Offer, Replaced, Newer, ActivityInv
<1>8. OfferInv'
  BY Parts DEF Offer, Replaced, Newer, OfferInv, Resting, ActivityInv, ServiceOK
<1>9. StagingInv'
  BY <1>1, Parts DEF Offer, Replaced, Newer, StagingInv, ActivityInv
<1>10. BundleInv'
  BY <1>2, Parts, Failing DEF Offer, Replaced, Newer, BundleInv
<1>11. SkipInv'
  <2>1. SUFFICES ASSUME failures' = 0
                 PROVE  prefs'.skipped = wish' /\ disk'.skipped = wish'
    BY DEF SkipInv
  <2>2. failures = 0 /\ prefs.skipped = wish /\ disk.skipped = wish
    BY <1>2, <2>1, Parts, Failing DEF SkipInv
  <2>3. wish' = IF SkipReplaced(v) THEN 0 ELSE wish
    BY <1>4, <2>2, Parts DEF Offer, SkipReplaced, PrefsOK
  <2> QED
    BY <1>3, <1>5, <2>1, <2>2, <2>3
<1> QED
  BY <1>6, <1>7, <1>8, <1>9, <1>10, <1>11 DEF IInv

LEMMA DownloadStarts ==
  ASSUME IInv, Download
  PROVE  IInv'
<1>1. TypeOK'
  BY Parts DEF Download, TypeOK, ServiceOK, PrefsOK, CheckOK, DownloadOK,
               InstallOK, CacheOK, DiskOK
<1>2. ActivityInv'
  BY Parts DEF Download, ActivityInv
<1>3. OfferInv'
  BY Parts DEF Download, OfferInv, Resting
<1>4. StagingInv'
  BY Parts DEF Download, StagingInv
<1>5. BundleInv'
  BY Parts DEF Download, BundleInv
<1>6. SkipInv'
  BY Parts DEF Download, SkipInv
<1> QED
  BY <1>1, <1>2, <1>3, <1>4, <1>5, <1>6 DEF IInv

LEMMA DownloadReadyStep ==
  ASSUME IInv, DownloadReady
  PROVE  IInv'
<1>1. TypeOK'
  <2>1. ServiceOK'
    BY Parts, Failing, Numbers DEF DownloadReady, ServiceOK
  <2>2. PrefsOK'
    BY Parts, Failing, Numbers DEF DownloadReady, PrefsOK
  <2>3. CheckOK' /\ DownloadOK' /\ InstallOK'
    BY Parts, Failing, Numbers DEF DownloadReady, CheckOK, DownloadOK, InstallOK
  <2>4. CacheOK' /\ DiskOK'
    BY Parts, Failing, Numbers DEF DownloadReady, CacheOK, DiskOK
  <2> QED
    BY <2>1, <2>2, <2>3, <2>4 DEF TypeOK
<1>2. ActivityInv'
  BY Parts DEF DownloadReady, ActivityInv
<1>3. OfferInv'
  BY Parts DEF DownloadReady, OfferInv
<1>4. StagingInv'
  BY Parts DEF DownloadReady, StagingInv, ActivityInv
<1>5. BundleInv'
  BY Parts DEF DownloadReady, BundleInv
<1>6. SkipInv'
  BY Parts DEF DownloadReady, SkipInv
<1> QED
  BY <1>1, <1>2, <1>3, <1>4, <1>5, <1>6 DEF IInv

LEMMA DownloadFailsStep ==
  ASSUME IInv, DownloadFails
  PROVE  IInv'
<1>1. CacheOK' /\ \A u \in Version : Own(cache'[u].app, u)
  <2>1. dl.version \in Version
    BY Parts, UpdateAssumption DEF DownloadFails, OfferInv, DownloadOK
  <2>2. CASE cache' = [cache EXCEPT ![dl.version] = Empty]
    BY <2>1, <2>2, Parts, EmptiesOne DEF StagingInv
  <2>3. CASE cache' = cache
    BY <2>3, Parts DEF CacheOK, StagingInv
  <2> QED
    BY <2>2, <2>3 DEF DownloadFails
<1>2. Works \/ Fails
  BY DEF DownloadFails
<1>3. TypeOK'
  <2>1. ServiceOK'
    BY <1>1, <1>2, Parts, Failing, Numbers DEF DownloadFails, ServiceOK
  <2>2. PrefsOK'
    BY <1>1, <1>2, Parts, Failing, Numbers DEF DownloadFails, PrefsOK
  <2>3. CheckOK' /\ DownloadOK' /\ InstallOK'
    BY <1>1, <1>2, Parts, Failing, Numbers
       DEF DownloadFails, CheckOK, DownloadOK, InstallOK
  <2>4. CacheOK' /\ DiskOK'
    BY <1>1, <1>2, Parts, Failing, Numbers DEF DownloadFails, CacheOK, DiskOK
  <2> QED
    BY <2>1, <2>2, <2>3, <2>4 DEF TypeOK
<1>4. ActivityInv'
  BY Parts DEF DownloadFails, ActivityInv
<1>5. OfferInv'
  BY Parts DEF DownloadFails, OfferInv, Resting
<1>6. StagingInv'
  BY <1>1, Parts DEF DownloadFails, StagingInv, ActivityInv
<1>7. BundleInv'
  BY Parts, Failing DEF DownloadFails, BundleInv
<1>8. SkipInv'
  BY Parts, Failing DEF DownloadFails, SkipInv
<1> QED
  BY <1>3, <1>4, <1>5, <1>6, <1>7, <1>8 DEF IInv

LEMMA DamageStep ==
  ASSUME IInv, Damage
  PROVE  IInv'
<1>1. /\ Fails
      /\ CacheOK' /\ \A u \in Version : Own(cache'[u].app, u)
      /\ \A u \in Version : cache[u].app # NoBundle => cache'[u].app # NoBundle
  BY Parts, Damages DEF Damage, StagingInv
<1>2. TypeOK'
  BY <1>1, Parts, Failing DEF Damage, TypeOK, ServiceOK, PrefsOK, CheckOK,
                              DownloadOK, InstallOK, CacheOK, DiskOK
<1>3. ActivityInv'
  BY Parts DEF Damage, ActivityInv
<1>4. OfferInv'
  BY Parts DEF Damage, OfferInv, Resting
<1>5. StagingInv'
  BY <1>1, Parts DEF Damage, StagingInv
<1>6. BundleInv'
  BY Parts, Failing DEF Damage, BundleInv
<1>7. SkipInv'
  BY Parts, Failing DEF Damage, SkipInv
<1> QED
  BY <1>2, <1>3, <1>4, <1>5, <1>6, <1>7 DEF IInv

LEMMA InstallStep ==
  ASSUME IInv, Install
  PROVE  IInv'
<1>1. inst'.pc = "probe" /\ InstallOK'
  BY DEF Install, InstallOK
<1>2. TypeOK'
  BY <1>1, Parts DEF Install, TypeOK, ServiceOK, PrefsOK, CheckOK, DownloadOK,
                     InstallOK, CacheOK, DiskOK
<1>3. ActivityInv'
  BY Parts DEF Install, ActivityInv
<1>4. OfferInv'
  BY Parts DEF Install, OfferInv
<1>5. StagingInv'
  BY Parts DEF Install, StagingInv
<1>6. BundleInv'
  BY Parts DEF Install, BundleInv, ActivityInv
<1>7. SkipInv'
  BY Parts DEF Install, SkipInv
<1> QED
  BY <1>2, <1>3, <1>4, <1>5, <1>6, <1>7 DEF IInv

LEMMA ProbeStep ==
  ASSUME IInv, Probe
  PROVE  IInv'
<1>1. /\ InstallOK'
      /\ UNCHANGED <<current, phase, offer, prefVars, due, check, dl, restarts>>
      /\ \/ /\ inst.pc = "probe" /\ inst'.pc = "clean"
            /\ UNCHANGED <<cache, bundles, failures>>
         \/ /\ inst.pc = "probe" /\ inst'.pc = "failed" /\ Fails
            /\ UNCHANGED <<cache, bundles>>
  BY Parts, Swaps, SwapsNot DEF Probe, StagedVerifies, Verifies
<1>2. CacheOK' /\ \A u \in Version : Own(cache'[u].app, u)
  BY Parts DEF Probe, SwapFails, CacheOK, StagingInv
<1>3. TypeOK'
  BY <1>1, Parts, Failing DEF Probe, TypeOK, ServiceOK, PrefsOK, CheckOK,
                              DownloadOK, InstallOK, CacheOK, DiskOK
<1>4. ActivityInv'
  BY <1>1, Parts DEF Probe, ActivityInv
<1>5. OfferInv'
  BY <1>1, Parts DEF Probe, OfferInv
<1>6. StagingInv'
  BY <1>1, Parts DEF Probe, StagingInv
<1>7. BundleInv'
  BY <1>1, Parts, Failing DEF Probe, BundleInv
<1>8. SkipInv'
  BY <1>1, Parts, Failing DEF Probe, SkipInv
<1> QED
  BY <1>3, <1>4, <1>5, <1>6, <1>7, <1>8 DEF IInv

LEMMA CleanStep ==
  ASSUME IInv, Clean
  PROVE  IInv'
<1>1. /\ InstallOK'
      /\ UNCHANGED <<current, phase, offer, prefVars, due, check, dl, restarts>>
      /\ \/ /\ inst.pc = "clean" /\ inst'.pc = "stage" /\ (Works \/ Fails)
            /\ UNCHANGED <<cache, target>>
            /\ incoming' \in {incoming, NoBundle} /\ previous' \in {previous, NoBundle}
  BY Parts, Swaps, SwapsNot DEF Clean, StagedVerifies, Verifies
<1>2. CacheOK' /\ \A u \in Version : Own(cache'[u].app, u)
  BY Parts DEF Clean, SwapFails, CacheOK, StagingInv
<1>3. TypeOK'
  BY <1>1, Parts, Failing DEF Clean, TypeOK, ServiceOK, PrefsOK, CheckOK,
                              DownloadOK, InstallOK, CacheOK, DiskOK
<1>4. ActivityInv'
  BY <1>1, Parts DEF Clean, ActivityInv
<1>5. OfferInv'
  BY <1>1, Parts DEF Clean, OfferInv
<1>6. StagingInv'
  BY <1>1, Parts DEF Clean, StagingInv
<1>7. BundleInv'
  BY <1>1, Parts, Failing DEF Clean, BundleInv
<1>8. SkipInv'
  BY <1>1, Parts, Failing DEF Clean, SkipInv
<1> QED
  BY <1>3, <1>4, <1>5, <1>6, <1>7, <1>8 DEF IInv

LEMMA StartCopyStep ==
  ASSUME IInv, StartCopy
  PROVE  IInv'
<1>1. /\ InstallOK'
      /\ UNCHANGED <<current, phase, offer, prefVars, due, check, dl, restarts>>
      /\ \/ /\ inst.pc = "stage" /\ inst'.pc = "copy"
            /\ cache[readyApp].app # NoBundle
            /\ UNCHANGED <<cache, target, previous, failures>>
  BY Parts, Swaps, SwapsNot DEF StartCopy, StagedVerifies, Verifies
<1>2. CacheOK' /\ \A u \in Version : Own(cache'[u].app, u)
  BY Parts DEF StartCopy, SwapFails, CacheOK, StagingInv
<1>3. incoming' \in Bundle
  <2>1. cache[readyApp].app \in Bundle
    BY <1>1, Parts DEF CacheOK, Folder, OfferInv, ServiceOK
  <2> QED
    BY <2>1 DEF StartCopy, Bundle
<1>4. TypeOK'
  BY <1>1, <1>3, Parts DEF StartCopy, TypeOK, ServiceOK, PrefsOK, CheckOK,
                           DownloadOK, InstallOK, CacheOK, DiskOK
<1>5. ActivityInv'
  BY <1>1, Parts DEF StartCopy, ActivityInv
<1>6. OfferInv'
  BY <1>1, Parts DEF StartCopy, OfferInv
<1>7. StagingInv'
  BY <1>1, Parts DEF StartCopy, StagingInv
<1>8. BundleInv'
  BY <1>1, Parts DEF StartCopy, BundleInv
<1>9. SkipInv'
  BY <1>1, Parts DEF StartCopy, SkipInv
<1> QED
  BY <1>4, <1>5, <1>6, <1>7, <1>8, <1>9 DEF IInv

LEMMA VerifyStagedStep ==
  ASSUME IInv, VerifyStaged
  PROVE  IInv'
<1>1. /\ InstallOK'
      /\ UNCHANGED <<current, phase, offer, prefVars, due, check, dl, restarts>>
      /\ \/ /\ inst.pc = "verify" /\ inst'.pc = "aside" /\ incoming.content = "good"
            /\ UNCHANGED <<cache, bundles, failures>>
         \/ /\ inst.pc = "verify" /\ inst'.pc = "restore"
            /\ UNCHANGED <<cache, bundles, failures>>
  BY Parts, Swaps, SwapsNot DEF VerifyStaged, StagedVerifies, Verifies
<1>2. CacheOK' /\ \A u \in Version : Own(cache'[u].app, u)
  BY Parts DEF VerifyStaged, SwapFails, CacheOK, StagingInv
<1>3. TypeOK'
  BY <1>1, Parts DEF VerifyStaged, TypeOK, ServiceOK, PrefsOK, CheckOK,
                     DownloadOK, InstallOK, CacheOK, DiskOK
<1>4. ActivityInv'
  BY <1>1, Parts DEF VerifyStaged, ActivityInv
<1>5. OfferInv'
  BY <1>1, Parts DEF VerifyStaged, OfferInv
<1>6. StagingInv'
  BY <1>1, Parts DEF VerifyStaged, StagingInv
<1>7. BundleInv'
  BY <1>1, Parts DEF VerifyStaged, BundleInv
<1>8. SkipInv'
  BY <1>1, Parts DEF VerifyStaged, SkipInv
<1> QED
  BY <1>3, <1>4, <1>5, <1>6, <1>7, <1>8 DEF IInv

LEMMA MoveAsideStep ==
  ASSUME IInv, MoveAside
  PROVE  IInv'
<1>1. /\ InstallOK'
      /\ UNCHANGED <<current, phase, offer, prefVars, due, check, dl, restarts>>
      /\ \/ /\ inst.pc = "aside" /\ inst'.pc = "place" /\ target # NoBundle
            /\ previous' = target /\ target' = NoBundle
            /\ UNCHANGED <<cache, incoming, failures>>
         \/ /\ inst.pc = "aside" /\ inst'.pc = "restore"
            /\ (previous # NoBundle \/ target = NoBundle)
            /\ UNCHANGED <<cache, bundles, failures>>
         \/ /\ inst.pc = "aside" /\ inst'.pc = "restore" /\ Fails
            /\ UNCHANGED <<cache, bundles>>
  BY Parts, Swaps, SwapsNot DEF MoveAside, StagedVerifies, Verifies
<1>2. CacheOK' /\ \A u \in Version : Own(cache'[u].app, u)
  BY Parts DEF MoveAside, SwapFails, CacheOK, StagingInv
<1>3. TypeOK'
  BY <1>1, Parts, Failing DEF MoveAside, TypeOK, ServiceOK, PrefsOK, CheckOK,
                              DownloadOK, InstallOK, CacheOK, DiskOK
<1>4. ActivityInv'
  BY <1>1, Parts DEF MoveAside, ActivityInv
<1>5. OfferInv'
  BY <1>1, Parts DEF MoveAside, OfferInv
<1>6. StagingInv'
  BY <1>1, Parts DEF MoveAside, StagingInv
<1>7. BundleInv'
  BY <1>1, Parts, Failing DEF MoveAside, BundleInv
<1>8. SkipInv'
  BY <1>1, Parts, Failing DEF MoveAside, SkipInv
<1> QED
  BY <1>3, <1>4, <1>5, <1>6, <1>7, <1>8 DEF IInv

LEMMA PlaceStep ==
  ASSUME IInv, Place
  PROVE  IInv'
<1>1. /\ InstallOK'
      /\ UNCHANGED <<current, phase, offer, prefVars, due, check, dl, restarts>>
      /\ \/ /\ inst.pc = "place" /\ inst'.pc = "placed" /\ target' = incoming
            /\ incoming' = NoBundle /\ UNCHANGED <<cache, previous, failures>>
         \/ /\ inst.pc = "place" /\ inst'.pc = "rollback" /\ Fails
            /\ UNCHANGED <<cache, bundles>>
  BY Parts, Swaps, SwapsNot DEF Place, StagedVerifies, Verifies
<1>2. CacheOK' /\ \A u \in Version : Own(cache'[u].app, u)
  BY Parts DEF Place, SwapFails, CacheOK, StagingInv
<1>3. TypeOK'
  BY <1>1, Parts, Failing DEF Place, TypeOK, ServiceOK, PrefsOK, CheckOK,
                              DownloadOK, InstallOK, CacheOK, DiskOK
<1>4. ActivityInv'
  BY <1>1, Parts DEF Place, ActivityInv
<1>5. OfferInv'
  BY <1>1, Parts DEF Place, OfferInv
<1>6. StagingInv'
  BY <1>1, Parts DEF Place, StagingInv
<1>7. BundleInv'
  BY <1>1, Parts, Failing DEF Place, BundleInv, StagingInv
<1>8. SkipInv'
  BY <1>1, Parts, Failing DEF Place, SkipInv
<1> QED
  BY <1>3, <1>4, <1>5, <1>6, <1>7, <1>8 DEF IInv

LEMMA RollbackStep ==
  ASSUME IInv, Rollback
  PROVE  IInv'
<1>1. /\ InstallOK'
      /\ UNCHANGED <<current, phase, offer, prefVars, due, check, dl, restarts>>
      /\ \/ /\ inst.pc = "rollback" /\ inst'.pc = "restore" /\ target' = previous
            /\ previous' = NoBundle
            /\ UNCHANGED <<cache, incoming, failures>>
         \/ /\ inst.pc = "rollback" /\ inst'.pc = "failed" /\ Fails
            /\ UNCHANGED <<cache, bundles>>
  BY Parts, Swaps, SwapsNot DEF Rollback, StagedVerifies, Verifies
<1>2. CacheOK' /\ \A u \in Version : Own(cache'[u].app, u)
  BY Parts DEF Rollback, SwapFails, CacheOK, StagingInv
<1>3. TypeOK'
  BY <1>1, Parts, Failing DEF Rollback, TypeOK, ServiceOK, PrefsOK, CheckOK,
                              DownloadOK, InstallOK, CacheOK, DiskOK
<1>4. ActivityInv'
  BY <1>1, Parts DEF Rollback, ActivityInv
<1>5. OfferInv'
  BY <1>1, Parts DEF Rollback, OfferInv
<1>6. StagingInv'
  BY <1>1, Parts DEF Rollback, StagingInv
<1>7. BundleInv'
  BY <1>1, Parts, Failing DEF Rollback, BundleInv
<1>8. SkipInv'
  BY <1>1, Parts, Failing DEF Rollback, SkipInv
<1> QED
  BY <1>3, <1>4, <1>5, <1>6, <1>7, <1>8 DEF IInv

LEMMA StageByRenameStep ==
  ASSUME IInv, StageByRename
  PROVE  IInv'
<1>1. /\ InstallOK'
      /\ UNCHANGED <<current, phase, offer, prefVars, due, check, dl, restarts>>
      /\ \/ /\ /\ inst.pc = "stage" /\ inst'.pc = "verify"
            /\ cache[readyApp].app # NoBundle
            /\ incoming' = cache[readyApp].app
            /\ cache' = [cache EXCEPT ![readyApp].app = NoBundle]
            /\ UNCHANGED <<target, previous, failures>>
         \/ /\ inst.pc = "stage" /\ inst'.pc = "failed"
            /\ UNCHANGED <<cache, bundles, failures>>
         \/ /\ inst.pc = "stage" /\ inst'.pc = "failed" /\ Fails
            /\ UNCHANGED <<cache, bundles>>
  <2>1. ASSUME inst.pc = "stage", inst' = [inst EXCEPT !.pc = "verify", !.moved = TRUE]
        PROVE  InstallOK' /\ inst'.pc = "verify"
    BY <2>1, Parts DEF InstallOK
  <2> QED
    BY <2>1, Parts, Swaps, SwapsNot DEF StageByRename
<1>2. readyApp \in Version
  BY <1>1, Parts DEF OfferInv, ServiceOK
<1>3. /\ cache[readyApp].app \in Bundle \union {NoBundle}
      /\ Own(cache[readyApp].app, readyApp)
  BY <1>2, Parts DEF CacheOK, Folder, StagingInv
<1>4. CacheOK' /\ \A u \in Version : Own(cache'[u].app, u)
  <2>1. CASE cache' = [cache EXCEPT ![readyApp].app = NoBundle]
    BY <1>2, <2>1, Parts, Fills DEF Own, StagingInv
  <2>2. CASE cache' = cache
    BY <2>2, Parts DEF CacheOK, StagingInv
  <2> QED
    BY <1>1, <2>1, <2>2
<1>5. TypeOK'
  BY <1>1, <1>3, <1>4, Parts, Failing DEF StageByRename, TypeOK, ServiceOK,
                                          PrefsOK, CheckOK, DownloadOK,
                                          InstallOK, CacheOK, DiskOK
<1>6. ActivityInv'
  BY <1>1, Parts DEF StageByRename, ActivityInv
<1>7. OfferInv'
  BY <1>1, Parts DEF StageByRename, OfferInv
<1>8. StagingInv'
  BY <1>1, <1>3, <1>4, Parts DEF StageByRename, StagingInv, Own
<1>9. BundleInv'
  BY <1>1, Parts, Failing DEF StageByRename, BundleInv
<1>10. SkipInv'
  BY <1>1, Parts, Failing DEF StageByRename, SkipInv
<1> QED
  BY <1>5, <1>6, <1>7, <1>8, <1>9, <1>10 DEF IInv

LEMMA CopyStep ==
  ASSUME IInv, Copy
  PROVE  IInv'
<1>1. /\ InstallOK'
      /\ UNCHANGED <<current, phase, offer, prefVars, due, check, dl, restarts>>
      /\ \/ inst.pc = "copy" /\ inst'.pc = "verify" /\ incoming' = cache[readyApp].app
              /\ UNCHANGED <<cache, target, previous, failures>>
         \/ inst.pc = "copy" /\ inst'.pc = "failed" /\ incoming' = NoBundle /\ Fails
              /\ UNCHANGED <<cache, target, previous>>
  <2>1. ASSUME inst.pc = "copy", inst' = [inst EXCEPT !.pc = "failed"]
        PROVE  InstallOK' /\ inst'.pc = "failed"
    BY <2>1, Parts DEF InstallOK
  <2> QED
    BY <2>1, Parts, Swaps DEF Copy
<1>2. readyApp \in Version
  BY <1>1, Parts DEF OfferInv, ServiceOK
<1>3. /\ cache[readyApp].app \in Bundle \union {NoBundle}
      /\ Own(cache[readyApp].app, readyApp)
      /\ cache[readyApp].app # NoBundle
  BY <1>1, <1>2, Parts DEF CacheOK, Folder, StagingInv
<1>4. CacheOK' /\ \A u \in Version : Own(cache'[u].app, u)
  BY <1>1, Parts DEF CacheOK, StagingInv
<1>5. TypeOK'
  BY <1>1, <1>3, Parts, Failing DEF Copy, TypeOK, ServiceOK, PrefsOK, CheckOK,
                                    DownloadOK, InstallOK, CacheOK, DiskOK
<1>6. ActivityInv'
  BY <1>1, Parts DEF Copy, ActivityInv
<1>7. OfferInv'
  BY <1>1, Parts DEF Copy, OfferInv
<1>8. StagingInv'
  BY <1>1, <1>3, Parts DEF Copy, StagingInv, Own
<1>9. BundleInv'
  BY <1>1, Parts, Failing DEF Copy, BundleInv
<1>10. SkipInv'
  BY <1>1, Parts, Failing DEF Copy, SkipInv
<1> QED
  BY <1>5, <1>6, <1>7, <1>8, <1>9, <1>10 DEF IInv

LEMMA RestoreStagedStep ==
  ASSUME IInv, RestoreStaged
  PROVE  IInv'
<1>1. /\ InstallOK'
      /\ UNCHANGED <<current, phase, offer, prefVars, due, check, dl, restarts>>
      /\ inst.pc = "restore" /\ inst'.pc = "failed" /\ UNCHANGED <<target, previous>>
      /\ Works \/ Fails
      /\ incoming' \in {incoming, NoBundle}
  BY Parts, Swaps DEF RestoreStaged
<1>2. readyApp \in Version /\ incoming \in Bundle \union {NoBundle} /\ Own(incoming, readyApp)
  BY <1>1, Parts DEF OfferInv, ServiceOK, DiskOK, StagingInv, Own
<1>3. CacheOK' /\ \A u \in Version : Own(cache'[u].app, u)
  <2>1. CASE cache' = [cache EXCEPT ![readyApp].app = incoming]
    BY <1>2, <2>1, Parts, Fills DEF StagingInv
  <2>2. CASE cache' = cache
    BY <2>2, Parts DEF CacheOK, StagingInv
  <2> QED
    BY <2>1, <2>2 DEF RestoreStaged
<1>4. TypeOK'
  BY <1>1, <1>3, Parts, Failing DEF RestoreStaged, TypeOK, ServiceOK, PrefsOK,
                                    CheckOK, DownloadOK, InstallOK, CacheOK,
                                    DiskOK
<1>5. ActivityInv'
  BY <1>1, Parts DEF RestoreStaged, ActivityInv
<1>6. OfferInv'
  BY <1>1, Parts DEF RestoreStaged, OfferInv
<1>7. StagingInv'
  BY <1>1, <1>3, Parts DEF RestoreStaged, StagingInv
<1>8. BundleInv'
  BY <1>1, Parts, Failing DEF RestoreStaged, BundleInv
<1>9. SkipInv'
  BY <1>1, Parts, Failing DEF RestoreStaged, SkipInv
<1> QED
  BY <1>4, <1>5, <1>6, <1>7, <1>8, <1>9 DEF IInv

LEMMA InstallFailsStep ==
  ASSUME IInv, InstallFails
  PROVE  IInv'
<1>1. TypeOK'
  BY Parts DEF InstallFails, TypeOK, ServiceOK, PrefsOK, CheckOK, DownloadOK,
               InstallOK, CacheOK, DiskOK
<1>2. ActivityInv'
  BY Parts DEF InstallFails, ActivityInv
<1>3. OfferInv'
  BY Parts DEF InstallFails, OfferInv
<1>4. StagingInv'
  BY Parts DEF InstallFails, StagingInv
<1>5. BundleInv'
  BY Parts DEF InstallFails, BundleInv
<1>6. SkipInv'
  BY Parts DEF InstallFails, SkipInv
<1> QED
  BY <1>1, <1>2, <1>3, <1>4, <1>5, <1>6 DEF IInv

LEMMA InstallEndsStep ==
  ASSUME IInv, InstallEnds
  PROVE  IInv'
<1>1. inst'.pc = "done" /\ InstallOK'
  BY Parts DEF InstallEnds, InstallOK
<1>2. TypeOK'
  <2>1. ServiceOK'
    BY <1>1, Parts, Failing, Numbers DEF InstallEnds, ServiceOK
  <2>2. PrefsOK'
    BY <1>1, Parts, Failing, Numbers DEF InstallEnds, PrefsOK
  <2>3. CheckOK' /\ DownloadOK' /\ InstallOK'
    BY <1>1, Parts, Failing, Numbers DEF InstallEnds, CheckOK, DownloadOK,
                                         InstallOK
  <2>4. CacheOK' /\ DiskOK'
    BY <1>1, Parts, Failing, Numbers DEF InstallEnds, CacheOK, DiskOK
  <2> QED
    BY <2>1, <2>2, <2>3, <2>4 DEF TypeOK
<1>3. ActivityInv'
  BY Parts DEF InstallEnds, ActivityInv
<1>4. OfferInv'
  BY Parts DEF InstallEnds, OfferInv, Resting, ActivityInv
<1>5. StagingInv'
  BY Parts DEF InstallEnds, StagingInv
<1>6. BundleInv'
  BY Parts DEF InstallEnds, BundleInv
<1>7. SkipInv'
  BY Parts DEF InstallEnds, SkipInv
<1> QED
  BY <1>2, <1>3, <1>4, <1>5, <1>6, <1>7 DEF IInv

LEMMA SkipStep ==
  ASSUME IInv, Skip
  PROVE  IInv'
<1>1. available \in Version /\ prefs' \in Preferences /\ prefs'.skipped = available
  BY Parts, UpdateAssumption, Prefers DEF Skip, ServiceOK, PrefsOK, Preferences
<1>2. /\ Works \/ Fails
      /\ disk' \in {disk, prefs'} /\ (failures' = 0 => disk' = prefs')
  BY Parts, Failing DEF Skip, ClearAvailable, DiscardCache, Written, Works,
                        Fails
<1>3. /\ phase' = "idle" /\ available' = 0 /\ readyApp' = 0 /\ hasAsset' = FALSE
      /\ mode' = baseMode /\ baseMode' = baseMode
  BY DEF Skip, ClearAvailable
<1>4. CacheOK' /\ \A u \in Version : Own(cache'[u].app, u)
  <2>1. CASE cache' = [u \in Version |-> IF u = available THEN Empty ELSE cache[u]]
    BY <2>1, Parts, Empties DEF CacheOK, StagingInv
  <2>2. CASE cache' = [cache EXCEPT ![available] = Empty]
    BY <1>1, <2>2, Parts, EmptiesOne DEF StagingInv
  <2>3. CASE cache' = cache
    BY <2>3, Parts DEF CacheOK, StagingInv
  <2> QED
    BY <2>1, <2>2, <2>3 DEF Skip, ClearAvailable, DiscardCache
<1>5. TypeOK'
  <2>1. ServiceOK'
    BY <1>1, <1>2, <1>3, <1>4, Parts, Failing, Numbers DEF Skip, Busy, ServiceOK
  <2>2. PrefsOK'
    BY <1>1, <1>2, <1>3, <1>4, Parts, Failing, Numbers DEF Skip, Busy, PrefsOK
  <2>3. CheckOK' /\ DownloadOK' /\ InstallOK'
    BY <1>1, <1>2, <1>3, <1>4, Parts, Failing, Numbers
       DEF Skip, Busy, CheckOK, DownloadOK, InstallOK
  <2>4. CacheOK' /\ DiskOK'
    BY <1>1, <1>2, <1>3, <1>4, Parts, Failing, Numbers
       DEF Skip, Busy, CacheOK, DiskOK
  <2> QED
    BY <2>1, <2>2, <2>3, <2>4 DEF TypeOK
<1>6. ActivityInv'
  BY <1>3, Parts DEF Skip, Busy, ActivityInv
<1>7. OfferInv'
  BY <1>3, Parts DEF Skip, Busy, OfferInv, Resting, ActivityInv
<1>8. StagingInv'
  BY <1>4, Parts DEF Skip, Busy, StagingInv, ActivityInv
<1>9. BundleInv'
  BY <1>2, Parts, Failing DEF Skip, Busy, BundleInv
<1>10. SkipInv'
  BY <1>2, Parts DEF Skip, Busy, SkipInv, PrefsOK, Preferences
<1> QED
  BY <1>5, <1>6, <1>7, <1>8, <1>9, <1>10 DEF IInv

LEMMA SetAutoCheckStep ==
  ASSUME IInv, SetAutoCheck
  PROVE  IInv'
<1>1. prefs' \in Preferences /\ prefs'.skipped = prefs.skipped
  <2>1. PICK auto \in BOOLEAN : prefs' = [prefs EXCEPT !.auto = auto]
    BY DEF SetAutoCheck
  <2> QED
    BY <2>1, Parts DEF PrefsOK, Preferences
<1>2. /\ Works \/ Fails
      /\ disk' \in {disk, prefs'} /\ (failures' = 0 => disk' = prefs')
  BY Parts, Failing DEF SetAutoCheck, Written, Works, Fails
<1>3. due' \in BOOLEAN
  BY Parts DEF SetAutoCheck, ServiceOK
<1>4. TypeOK'
  BY <1>1, <1>2, <1>3, Parts, Failing DEF SetAutoCheck, TypeOK, ServiceOK,
                                          PrefsOK, CheckOK, DownloadOK,
                                          InstallOK, CacheOK, DiskOK
<1>5. ActivityInv'
  BY Parts DEF SetAutoCheck, ActivityInv
<1>6. OfferInv'
  BY Parts DEF SetAutoCheck, OfferInv, Resting
<1>7. StagingInv'
  BY Parts DEF SetAutoCheck, StagingInv
<1>8. BundleInv'
  BY Parts, Failing DEF SetAutoCheck, BundleInv
<1>9. SkipInv'
  BY <1>2, Parts, Failing DEF SetAutoCheck, SkipInv, PrefsOK, Preferences
<1> QED
  BY <1>4, <1>5, <1>6, <1>7, <1>8, <1>9 DEF IInv

LEMMA RestartStep ==
  ASSUME IInv, Restart
  PROVE  IInv'
<1>1. CacheOK' /\ \A u \in Version : Own(cache'[u].app, u)
  <2>1. CASE cache' = [v \in Version |-> IF Leftover(v) THEN Empty ELSE cache[v]]
    BY <2>1, Parts, Empties DEF CacheOK, StagingInv
  <2>2. CASE cache' = cache
    BY <2>2, Parts DEF CacheOK, StagingInv
  <2> QED
    BY <2>1, <2>2 DEF Restart
<1>2. /\ Works \/ Fails
      /\ incoming' \in {incoming, NoBundle} /\ previous' \in {previous, NoBundle}
  BY DEF Restart, Works
<1>3. current' \in Version /\ target # NoBundle
  BY Parts DEF Restart, DiskOK, Bundle
<1>4. restarts' \in 0..MaxRestarts
  BY Parts, UpdateAssumption DEF Restart, DiskOK
<1>5. TypeOK'
  <2>1. ServiceOK'
    BY <1>1, <1>2, <1>3, <1>4, Parts, Failing, Numbers DEF Restart, ServiceOK
  <2>2. PrefsOK'
    BY <1>1, <1>2, <1>3, <1>4, Parts, Failing, Numbers DEF Restart, PrefsOK
  <2>3. CheckOK' /\ DownloadOK' /\ InstallOK'
    BY <1>1, <1>2, <1>3, <1>4, Parts, Failing, Numbers
       DEF Restart, CheckOK, DownloadOK, InstallOK
  <2>4. CacheOK' /\ DiskOK'
    BY <1>1, <1>2, <1>3, <1>4, Parts, Failing, Numbers
       DEF Restart, CacheOK, DiskOK
  <2> QED
    BY <2>1, <2>2, <2>3, <2>4 DEF TypeOK
<1>6. ActivityInv'
  BY Parts DEF Restart, ActivityInv
<1>7. OfferInv'
  BY Parts DEF Restart, OfferInv, Resting
<1>8. StagingInv'
  BY <1>1, Parts DEF Restart, StagingInv
<1>9. BundleInv'
  BY Parts DEF Restart, BundleInv
<1>10. SkipInv'
  BY Parts, Failing DEF Restart, SkipInv
<1> QED
  BY <1>5, <1>6, <1>7, <1>8, <1>9, <1>10 DEF IInv

-------------------------------------------------------------------------------
(* The invariant holds from the start and through every step.                *)

LEMMA Initially == Init => IInv
<1> SUFFICES ASSUME Init PROVE IInv
  OBVIOUS
<1>1. Good(1) \in Bundle /\ Good(1) # NoBundle /\ Good(1).content = "good"
  BY Numbers DEF Bundle, Good, NoBundle
<1>2. Empty \in Folder /\ Empty.app = NoBundle
  BY DEF Empty, Folder
<1>3. ServiceOK /\ PrefsOK
  BY Numbers DEF Init, ServiceOK, PrefsOK, Preferences
<1>4. CheckOK /\ DownloadOK /\ InstallOK
  BY Numbers DEF Init, CheckOK, DownloadOK, InstallOK
<1>5. CacheOK /\ DiskOK
  BY <1>1, <1>2, UpdateAssumption DEF Init, CacheOK, DiskOK
<1>6. ActivityInv /\ OfferInv
  BY DEF Init, ActivityInv, OfferInv, Resting
<1>7. StagingInv /\ BundleInv
  BY <1>1, <1>2 DEF Init, StagingInv, BundleInv, Own
<1>8. SkipInv
  BY DEF Init, SkipInv
<1> QED
  BY <1>3, <1>4, <1>5, <1>6, <1>7, <1>8 DEF IInv, TypeOK

LEMMA Stutters == ASSUME IInv, UNCHANGED vars PROVE IInv'
<1>1. TypeOK'
  BY Parts DEF vars, TypeOK, ServiceOK, PrefsOK, CheckOK, DownloadOK, InstallOK,
               CacheOK,
               DiskOK
<1>2. (ActivityInv /\ OfferInv /\ StagingInv /\ BundleInv /\ SkipInv)'
  BY Parts DEF vars, ActivityInv, OfferInv, Resting, StagingInv, Own, BundleInv,
               SkipInv
<1> QED
  BY <1>1, <1>2 DEF IInv

LEMMA NextStep == ASSUME IInv, Next PROVE IInv'
<1>1. CASE TimerFires \/ ManualCheck \/ AutoCheck \/ AutoCheckGivesUp
  BY <1>1, TimerFiresStep, ManualCheckStep, AutoCheckStep, AutoCheckGivesUpStep
<1>2. CASE CheckEnds
  BY <1>2, CheckFailsStep, NothingToOfferStep, OfferStep
     DEF CheckEnds, CheckAnswers
<1>3. CASE DownloadProgress
  <2>1. CASE LookInCache \/ Reverify \/ Digest \/ Fetch
    BY <2>1, LookInCacheStep, ReverifyStep, DigestStep, FetchStep
  <2>2. CASE Extract \/ Verify \/ Mark
    BY <2>2, ExtractStep, VerifyStep, MarkStep
  <2>3. CASE DownloadReady \/ DownloadFails
    BY <2>3, DownloadReadyStep, DownloadFailsStep
  <2> QED
    BY <1>3, <2>1, <2>2, <2>3 DEF DownloadProgress
<1>4. CASE Swap
  <2>1. CASE Probe \/ Clean \/ StageByRename \/ StartCopy \/ Copy \/ VerifyStaged
    BY <2>1, ProbeStep, CleanStep, StageByRenameStep, StartCopyStep, CopyStep,
       VerifyStagedStep
  <2>2. CASE MoveAside \/ Place \/ Rollback \/ RestoreStaged
    BY <2>2, MoveAsideStep, PlaceStep, RollbackStep, RestoreStagedStep
  <2>3. CASE InstallFails \/ InstallEnds
    BY <2>3, InstallFailsStep, InstallEndsStep
  <2> QED
    BY <1>4, <2>1, <2>2, <2>3 DEF Swap
<1>5. CASE Download \/ Damage \/ Install
  BY <1>5, DownloadStarts, DamageStep, InstallStep
<1>6. CASE Skip \/ SetAutoCheck \/ Restart
  BY <1>6, SkipStep, SetAutoCheckStep, RestartStep
<1> QED
  BY <1>1, <1>2, <1>3, <1>4, <1>5, <1>6 DEF Next

(* Checks, downloads, installs and skips, on a disk that fails and in a       *)
(* process that ends anywhere, keep the invariant.                           *)
THEOREM Inductive == Spec => []IInv
<1>1. IInv /\ [Next]_vars => IInv'
  BY NextStep, Stutters
<1> QED
  BY <1>1, Initially, PTL DEF Spec

(* The variables keep their types.                                           *)
THEOREM TypeCorrect == Spec => []TypeOK
<1>1. IInv => TypeOK
  BY DEF IInv
<1> QED
  BY <1>1, Inductive, PTL

(* What replaceBundle puts in the place of the application verifies and is    *)
(* the version that was offered, newer than the one that runs; one failure    *)
(* of the disk or the end of the process anywhere leaves a whole application. *)
THEOREM InstallSafe == Spec => []InstallIsSafe
<1>1. IInv => InstallIsSafe
  <2> SUFFICES ASSUME IInv PROVE InstallIsSafe
    OBVIOUS
  <2>1. InstalledIsVerified
    BY Parts DEF BundleInv, InstalledIsVerified
  <2>2. InstallIsUpgrade
    BY Parts DEF StagingInv, OfferInv, InstallIsUpgrade
  <2>3. AppSurvives
    BY Parts DEF BundleInv, AppSurvives, DiskOK
  <2> QED
    BY <2>1, <2>2, <2>3 DEF InstallIsSafe
<1> QED
  BY <1>1, Inductive, PTL

(* An automatic check does not bring a skipped version back: Skip writes it   *)
(* down, a restart reads it, and only a newer release clears it.             *)
THEOREM SkipHeld == Spec => SkipHolds
<1> DEFINE Brings == check.by = "auto" /\ available' # available /\ available' # 0
<1>1. ASSUME IInv, Next, Brings, failures = 0 PROVE available' > wish
  <2>1. check # NoCheck
    BY <1>1
  <2>2. phase = "checking" /\ dl.pc = "none" /\ inst.pc = "none"
    BY <1>1, <2>1, Parts DEF ActivityInv
  <2>3. PICK v \in 0..MaxVersion : Offer(v)
    <3>1. CASE CheckEnds
      BY <1>1, <3>1 DEF CheckEnds, CheckFails, CheckAnswers, NothingToOffer,
                        ClearAvailable
    <3>2. CASE TimerFires \/ ManualCheck \/ AutoCheck \/ AutoCheckGivesUp
      BY <1>1, <3>2 DEF TimerFires, ManualCheck, AutoCheck, AutoCheckGivesUp,
                        StartCheck
    <3>3. CASE DownloadProgress
      BY <1>1, <2>2, <3>3, Parts, Downloads
         DEF DownloadProgress, LookInCache, Reverify, Digest, Fetch, Extract, Verify, Mark,
             DownloadReady, DownloadFails
    <3>4. CASE Swap
      BY <1>1, <2>2, <3>4
         DEF Swap, Probe, Clean, StageByRename, StartCopy, Copy, VerifyStaged, MoveAside,
             Place, Rollback, RestoreStaged, InstallFails, InstallEnds, SwapStep, SwapFails
    <3>5. CASE Download \/ Damage \/ Install
      BY <1>1, <3>5 DEF Download, Damage, Install
    <3>6. CASE Skip \/ SetAutoCheck \/ Restart
      BY <1>1, <3>6 DEF Skip, ClearAvailable, SetAutoCheck, Restart
    <3> QED
      BY <1>1, <3>1, <3>2, <3>3, <3>4, <3>5, <3>6 DEF Next
  <2>4. available' = v /\ v > current /\ ~Hidden(v)
    BY <2>3 DEF Offer, Newer
  <2>5. prefs.skipped = wish
    BY <1>1, Parts DEF SkipInv
  <2> QED
    BY <1>1, <2>4, <2>5, Parts DEF Hidden, ServiceOK, PrefsOK
<1>2. IInv /\ [Next]_vars => [Brings /\ failures = 0 => available' > wish]_vars
  BY <1>1
<1> QED
  BY <1>2, Inductive, PTL DEF Spec, SkipHolds

-------------------------------------------------------------------------------
(* The control of the status bar.                                            *)

\* Whatever the webview does is a step of the service or none.
LEMMA ServiceSteps == ASSUME UpdateNext PROVE [Next]_vars
BY DEF UpdateNext, ViewNext, Hosts, AnsweredBefore, Answers, HandleEvent,
       HandleAnswer,
       Click, Menu, Primary, Next, CheckEnds, Swap, vars

(* The webview only adds to the updater: with it every behaviour is one of    *)
(* Update, so what is proved of Update holds for it.                         *)
THEOREM Composition == UpdateSpec => Spec
<1>1. ViewInit => Init
  BY DEF ViewInit
<1>2. [UpdateNext]_<<vars, viewVars>> => [Next]_vars
  BY ServiceSteps
<1> QED
  BY <1>1, <1>2, PTL DEF UpdateSpec, Spec

LEMMA StateTold ==
  ASSUME IInv, revision \in Nat \ {0}
  PROVE  State \in Told /\ State # NoState
BY Parts DEF Told, State, NoState, ServiceOK, PrefsOK, Preferences

LEMMA ToldIsState ==
  ASSUME NEW state \in Told
  PROVE  state # NoState /\ state.revision \in Nat \ {0}
BY DEF Told, NoState

\* Of what was told, nothing becomes newer than the service.
LEMMA Ages ==
  ASSUME revision \in Nat, revision' \in Nat,
         NEW state \in Told, OldOrNow(state),
         \/ revision' = revision + 1
         \/ revision' = revision /\ State' = State
  PROVE  OldOrNow(state)'
BY ToldIsState DEF OldOrNow

LEMMA Revised ==
  ASSUME NEW state \in Told, NEW n \in Nat \ {0}
  PROVE  /\ [state EXCEPT !.revision = n] \in Told
         /\ [state EXCEPT !.revision = n].revision = n
BY DEF Told

LEMMA Appending ==
  ASSUME NEW q \in Seq(Told), NEW e \in Told, NEW r, r = Append(q, e)
  PROVE  /\ r \in Seq(Told) /\ Len(r) = Len(q) + 1 /\ Len(q) \in Nat /\ r # <<>>
         /\ DOMAIN r = 1..Len(r) /\ DOMAIN q = 1..Len(q)
         /\ r[Len(r)] = e /\ \A i \in DOMAIN q : r[i] = q[i]
OBVIOUS

\* The host tells a change, or has none to tell.
LEMMA Emitting ==
  ASSUME IInv, IInv', ViewInv, Emits
  PROVE  /\ EventsInv'
         /\ State' \in Told
         /\ \/ revision' = revision + 1 /\ Len(events') = Len(events) + 1
            \/ revision' = revision /\ State' = State /\ events' = events
<1>0. EventsInv
  BY DEF ViewInv
<1>1. CASE UNCHANGED <<Visible, revision, events>>
  <2>1. State' = State
    BY <1>1 DEF State, Visible
  <2> QED
    BY <1>0, <1>1, <2>1, StateTold DEF EventsInv
<1>2. CASE revision' = revision + 1 /\ events' = Append(events, State')
  <2>1. revision' \in Nat \ {0}
    BY <1>0, <1>2 DEF EventsInv
  <2>2. State' \in Told
    BY <2>1 DEF State, Told, IInv, TypeOK, ServiceOK, PrefsOK, Preferences
  <2>3. State'.revision = revision + 1
    BY <1>2 DEF State
  <2>4. /\ events \in Seq(Told) /\ Len(events) < revision /\ revision \in Nat
        /\ \A i \in DOMAIN events : events[i].revision = (revision - Len(events)) + i
    BY <1>0 DEF EventsInv
  <2>5. /\ events' \in Seq(Told) /\ Len(events') = Len(events) + 1
        /\ Len(events) \in Nat /\ DOMAIN events' = 1..Len(events')
        /\ DOMAIN events = 1..Len(events)
        /\ events'[Len(events')] = State' /\ \A i \in DOMAIN events : events'[i] = events[i]
    BY <1>2, <2>2, <2>4, Appending
  <2>6. ASSUME NEW i \in DOMAIN events'
        PROVE  events'[i].revision = (revision' - Len(events')) + i
    <3>1. CASE i = Len(events')
      BY <1>2, <2>3, <2>4, <2>5, <3>1
    <3>2. CASE i # Len(events')
      BY <1>2, <2>4, <2>5, <3>2
    <3> QED
      BY <3>1, <3>2
  <2>7. Len(events') < revision'
    BY <1>2, <2>4, <2>5
  <2> QED
    BY <1>2, <2>1, <2>2, <2>5, <2>6, <2>7 DEF EventsInv
<1> QED
  BY <1>1, <1>2 DEF Emits

\* Then what is on its way and what is shown has aged, not more.
LEMMA Emitted ==
  ASSUME IInv, IInv', ViewInv, Emits, UNCHANGED shown
  PROVE  EventsInv' /\ ShownInv' /\ \A a \in answers : OldOrNow(a)'
<1>1. /\ revision \in Nat \ {0} /\ revision' \in Nat /\ Len(events) \in Nat
      /\ \/ revision' = revision + 1 /\ Len(events') = Len(events) + 1
         \/ revision' = revision /\ State' = State /\ events' = events
  BY Emitting DEF ViewInv, EventsInv
<1>2. \A a \in answers : OldOrNow(a)'
  BY <1>1, Ages DEF ViewInv, AnswersInv
<1>3. ASSUME shown = NoState PROVE ShownInv'
  <2>1. Len(events) + 1 = revision
    BY <1>3 DEF ViewInv, ShownInv
  <2>2. Len(events') + 1 = revision' /\ shown' = NoState
    BY <1>1, <1>3, <2>1
  <2> QED
    BY <2>2 DEF ShownInv, NoState
<1>4. ASSUME shown # NoState PROVE ShownInv'
  <2>1. shown \in Told /\ OldOrNow(shown) /\ shown.revision + Len(events) >= revision
    BY <1>4 DEF ViewInv, ShownInv
  <2>2. OldOrNow(shown)'
    BY <1>1, <2>1, Ages
  <2>3. shown.revision \in Nat
    BY <2>1, ToldIsState
  <2>4. shown'.revision + Len(events') >= revision'
    BY <1>1, <2>1, <2>3
  <2> QED
    BY <1>4, <2>1, <2>2, <2>4 DEF ShownInv
<1> QED
  BY <1>2, <1>3, <1>4, Emitting

LEMMA HostsStep ==
  ASSUME IInv, IInv', ViewInv, watched, UNCHANGED watched, Hosts \/ Click
  PROVE  ViewInv'
<1>1. Emits /\ UNCHANGED <<shown, answers>>
  BY DEF Hosts, Click
<1> QED
  BY <1>1, Emitted DEF ViewInv, AnswersInv, WatchedInv

LEMMA AnsweredBeforeStep ==
  ASSUME IInv, IInv', ViewInv, watched, UNCHANGED watched, AnsweredBefore
  PROVE  ViewInv'
<1> DEFINE answer == [State' EXCEPT !.revision = revision]
<1>1. Emits /\ UNCHANGED shown /\ answers' = answers \cup {answer}
  BY DEF AnsweredBefore, State
<1>2. revision \in Nat \ {0}
  BY DEF ViewInv, EventsInv
<1>3. answer \in Told /\ answer.revision = revision
  <2>1. State' \in Told
    BY <1>1, Emitting
  <2> QED
    BY <1>2, <2>1, Revised
<1>4. answer.revision <= revision' /\ (answer.revision = revision' => answer = State')
  <2>1. CASE revision' = revision + 1
    BY <1>2, <1>3, <2>1
  <2>2. CASE revision' = revision /\ State' = State
    <3>1. answer = State
      BY <2>2 DEF State
    <3> QED
      BY <1>2, <1>3, <2>2, <3>1
  <2> QED
    BY <1>1, <2>1, <2>2, Emitting
<1> HIDE DEF answer
<1>5. EventsInv' /\ ShownInv' /\ \A a \in answers : OldOrNow(a)'
  BY <1>1, Emitted
<1>6. ASSUME NEW a \in answers' PROVE OldOrNow(a)'
  <2>1. CASE a = answer
    BY <1>4, <2>1 DEF OldOrNow
  <2>2. CASE a \in answers
    BY <1>5, <2>2
  <2> QED
    BY <1>1, <2>1, <2>2
<1>7. AnswersInv'
  BY <1>1, <1>3, <1>6 DEF ViewInv, AnswersInv
<1> QED
  BY <1>5, <1>7 DEF ViewInv, WatchedInv

LEMMA AnswersStep ==
  ASSUME IInv, ViewInv, watched, UNCHANGED watched, Answers
  PROVE  ViewInv'
<1>1. revision \in Nat \ {0}
  BY DEF ViewInv, EventsInv
<1>2. UNCHANGED <<State, revision, events, shown>> /\ answers' = answers \cup {State}
  BY DEF Answers, State, vars, offer, prefVars
<1>3. State \in Told /\ State.revision = revision
  BY <1>1, StateTold DEF State
<1> DEFINE now == State
<1>4. OldOrNow(now) /\ now \in Told
  BY <1>1, <1>3 DEF OldOrNow
<1>5. \A a : OldOrNow(a)' <=> OldOrNow(a)
  BY <1>2 DEF OldOrNow
<1>6. EventsInv'
  BY <1>2 DEF ViewInv, EventsInv
<1>7. ShownInv'
  BY <1>2, <1>5 DEF ViewInv, ShownInv
<1>8. AnswersInv'
  BY <1>2, <1>4, <1>5 DEF ViewInv, AnswersInv
<1> QED
  BY <1>6, <1>7, <1>8 DEF ViewInv, WatchedInv

\* The store takes what is not older than what it shows.
LEMMA Applies ==
  ASSUME ViewInv, NEW next \in Told, OldOrNow(next), Apply(next)
  PROVE  /\ shown' \in Told /\ OldOrNow(shown')
         /\ shown'.revision >= next.revision
         /\ shown # NoState => shown'.revision >= shown.revision
<1>1. next.revision \in Nat
  BY ToldIsState
<1>2. CASE shown = NoState
  BY <1>1, <1>2 DEF Apply
<1>3. CASE shown # NoState
  <2>1. shown \in Told /\ OldOrNow(shown) /\ shown.revision \in Nat
    BY <1>3, ToldIsState DEF ViewInv, ShownInv
  <2> QED
    BY <1>1, <1>3, <2>1 DEF Apply
<1> QED
  BY <1>2, <1>3

LEMMA FirstOf ==
  ASSUME NEW q \in Seq(Told), q # <<>>
  PROVE  Head(q) = q[1] /\ q[1] \in Told /\ 1 \in DOMAIN q
OBVIOUS

LEMMA HandleEventStep ==
  ASSUME ViewInv, watched, UNCHANGED watched, HandleEvent
  PROVE  ViewInv'
<1>1. /\ UNCHANGED <<State, revision, answers>>
      /\ events # <<>> /\ events' = Tail(events) /\ Apply(Head(events))
  BY DEF HandleEvent, State, vars, offer, prefVars
<1>2. EventsInv
  BY DEF ViewInv
<1>3. /\ revision \in Nat \ {0} /\ events \in Seq(Told)
      /\ Len(events) \in Nat \ {0} /\ Len(events') = Len(events) - 1
      /\ events' \in Seq(Told) /\ DOMAIN events = 1..Len(events)
      /\ \A i \in DOMAIN events' : i + 1 \in DOMAIN events /\ events'[i] = events[i + 1]
  BY <1>1, <1>2 DEF EventsInv
<1>4. EventsInv'
  <2>1. events[Len(events)] = State /\ Len(events) < revision
    BY <1>1, <1>2 DEF EventsInv
  <2>2. events' # <<>> => events'[Len(events')] = State'
    BY <1>1, <1>3, <2>1
  <2>3. Len(events') < revision'
    BY <1>1, <1>3, <2>1
  <2>4. ASSUME NEW i \in DOMAIN events'
        PROVE  events'[i].revision = (revision' - Len(events')) + i
    <3>1. i \in Nat /\ events'[i].revision = (revision - Len(events)) + (i + 1)
      BY <1>2, <1>3 DEF EventsInv
    <3> QED
      BY <1>1, <1>3, <3>1
  <2> QED
    BY <1>1, <1>3, <2>2, <2>3, <2>4 DEF EventsInv
<1> DEFINE next == Head(events)
<1>5. next \in Told /\ next.revision = (revision - Len(events)) + 1
  BY <1>1, <1>2, <1>3, FirstOf DEF EventsInv
<1>6. OldOrNow(next)
  <2>1. CASE Len(events) = 1
    <3>1. next = events[1] /\ events[Len(events)] = State
      BY <1>1, <1>2, <1>3, FirstOf DEF EventsInv
    <3> QED
      BY <1>3, <1>5, <2>1, <3>1 DEF OldOrNow
  <2>2. CASE Len(events) # 1
    BY <1>3, <1>5, <2>2 DEF OldOrNow
  <2> QED
    BY <2>1, <2>2
<1>7. Apply(next)
  BY <1>1
<1> HIDE DEF next
<1>8. shown' \in Told /\ OldOrNow(shown') /\ shown'.revision >= next.revision
  BY <1>5, <1>6, <1>7, Applies
<1>9. \A a : OldOrNow(a)' <=> OldOrNow(a)
  BY <1>1 DEF OldOrNow
<1>10. shown'.revision + Len(events') >= revision'
  BY <1>1, <1>3, <1>5, <1>8, ToldIsState
<1>11. OldOrNow(shown)'
  BY <1>1, <1>8 DEF OldOrNow
<1>12. ShownInv'
  BY <1>8, <1>10, <1>11, ToldIsState DEF ShownInv
<1>13. AnswersInv'
  BY <1>1, <1>9 DEF ViewInv, AnswersInv
<1> QED
  BY <1>4, <1>12, <1>13 DEF ViewInv, WatchedInv

LEMMA HandleAnswerStep ==
  ASSUME ViewInv, watched, UNCHANGED watched, HandleAnswer
  PROVE  ViewInv'
<1>1. PICK next \in answers : answers' = answers \ {next} /\ Apply(next)
                              /\ UNCHANGED <<State, revision, events>>
  BY DEF HandleAnswer, State, vars, offer, prefVars
<1>2. next \in Told /\ OldOrNow(next) /\ next.revision \in Nat \ {0}
  BY ToldIsState DEF ViewInv, AnswersInv
<1>3. EventsInv'
  BY <1>1 DEF ViewInv, EventsInv
<1>4. \A a : OldOrNow(a)' <=> OldOrNow(a)
  BY <1>1 DEF OldOrNow
<1>5. AnswersInv'
  BY <1>1, <1>4 DEF ViewInv, AnswersInv
<1>6. /\ shown' \in Told /\ OldOrNow(shown') /\ shown'.revision >= next.revision
      /\ shown # NoState => shown'.revision >= shown.revision
  BY <1>1, <1>2, Applies
<1>7. shown'.revision \in Nat /\ shown' # NoState
  BY <1>6, ToldIsState
<1>8. shown'.revision + Len(events) >= revision
  <2>1. revision \in Nat /\ Len(events) \in Nat
    BY DEF ViewInv, EventsInv
  <2>2. CASE shown = NoState
    BY <1>2, <1>6, <1>7, <2>1, <2>2 DEF ViewInv, ShownInv
  <2>3. CASE shown # NoState
    <3>1. shown.revision \in Nat /\ shown.revision + Len(events) >= revision
      BY <2>3, ToldIsState DEF ViewInv, ShownInv
    <3> QED
      BY <1>6, <1>7, <2>1, <2>3, <3>1
  <2> QED
    BY <2>2, <2>3
<1>9. OldOrNow(shown)'
  BY <1>1, <1>6 DEF OldOrNow
<1>10. ShownInv'
  BY <1>1, <1>6, <1>7, <1>8, <1>9 DEF ShownInv
<1> QED
  BY <1>3, <1>5, <1>10 DEF ViewInv, WatchedInv

\* Where nobody looks, the service is free.
LEMMA UnwatchedStep ==
  ASSUME ViewInv, ~watched, UNCHANGED viewVars
  PROVE  ViewInv'
<1>1. /\ watched' = watched /\ revision' = 1 /\ events' = <<>> /\ answers' = {}
      /\ shown' = NoState
  BY DEF viewVars, ViewInv, WatchedInv
<1>2. EventsInv'
  BY <1>1 DEF EventsInv
<1> QED
  BY <1>1, <1>2 DEF ViewInv, AnswersInv, ShownInv, WatchedInv

LEMMA ViewStutters ==
  ASSUME ViewInv, UNCHANGED <<vars, viewVars>>
  PROVE  ViewInv'
<1>1. UNCHANGED <<State, watched, revision, events, answers, shown>>
  BY DEF State, vars, viewVars, offer, prefVars
<1>2. \A a : OldOrNow(a)' <=> OldOrNow(a)
  BY <1>1 DEF OldOrNow
<1> QED
  BY <1>1, <1>2 DEF ViewInv, EventsInv, AnswersInv, ShownInv, WatchedInv

(* Events, answers and the store keep to the revisions, whatever overtakes    *)
(* what.                                                                     *)
THEOREM ViewInductive == UpdateSpec => []ViewIInv
<1>1. ViewInit => ViewIInv
  <2> SUFFICES ASSUME ViewInit PROVE ViewIInv
    OBVIOUS
  <2>1. IInv
    BY Initially DEF ViewInit
  <2>2. revision = 1 /\ events = <<>> /\ answers = {} /\ shown = NoState
        /\ watched \in BOOLEAN
    BY DEF ViewInit
  <2>3. EventsInv
    BY <2>2 DEF EventsInv
  <2> QED
    BY <2>1, <2>2, <2>3 DEF ViewIInv, ViewInv, AnswersInv, ShownInv, WatchedInv
<1>2. ASSUME ViewIInv, [UpdateNext]_<<vars, viewVars>> PROVE ViewIInv'
  <2>1. IInv /\ ViewInv
    BY <1>2 DEF ViewIInv
  <2>2. IInv'
    BY <1>2, <2>1, ServiceSteps, NextStep, Stutters
  <2>3. CASE watched /\ ViewNext /\ UNCHANGED watched
    BY <2>1, <2>2, <2>3, HostsStep, AnsweredBeforeStep, AnswersStep,
       HandleEventStep,
       HandleAnswerStep DEF ViewNext, ViewIInv
  <2>4. CASE ~watched /\ UNCHANGED viewVars
    BY <2>1, <2>2, <2>4, UnwatchedStep DEF ViewIInv
  <2>5. CASE UNCHANGED <<vars, viewVars>>
    BY <2>1, <2>2, <2>5, ViewStutters DEF ViewIInv
  <2> QED
    BY <1>2, <2>2, <2>3, <2>4, <2>5 DEF UpdateNext, ViewIInv
<1> QED
  BY <1>1, <1>2, PTL DEF UpdateSpec

(* Once nothing is on its way the control shows the state of the service and  *)
(* offers what the service takes: emitLocked counts, apply keeps the newest.  *)
THEOREM ShownCurrent == UpdateSpec => []ShownIsCurrent
<1>1. ASSUME ViewIInv, events = <<>>, shown # NoState
      PROVE  /\ shown = State
             /\ UpdatePrimaryAction(shown) = "download" => hasAsset
             /\ UpdatePrimaryAction(shown) = "install" => readyApp # 0
  <2>1. IInv /\ EventsInv /\ ShownInv
    BY <1>1 DEF ViewIInv, ViewInv
  <2>2. shown.revision \in Nat /\ revision \in Nat
    BY <1>1, <2>1, ToldIsState DEF ShownInv, EventsInv
  <2>3. shown = State
    BY <1>1, <2>1, <2>2 DEF ShownInv, OldOrNow
  <2>4. UpdatePrimaryAction(State) = "download" => phase = "available" /\ mode # "notify"
    BY DEF UpdatePrimaryAction, State
  <2>5. UpdatePrimaryAction(State) = "install" => phase = "ready"
    BY DEF UpdatePrimaryAction, State
  <2> QED
    BY <2>1, <2>3, <2>4, <2>5, Parts DEF OfferInv, Resting, ServiceOK
<1>2. ViewIInv => ShownIsCurrent
  BY <1>1 DEF ShownIsCurrent
<1> QED
  BY <1>2, ViewInductive, PTL
===============================================================================
