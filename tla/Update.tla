--------------------------------- MODULE Update --------------------------------
(***************************************************************************)
(* The updater of internal/update: the check, the download and the install *)
(* of service.go, the swap of the application bundle of install.go and the *)
(* preferences of prefs.go, on a disk where renames, removals and writes   *)
(* fail and in a process that can end between any two steps.               *)
(*                                                                         *)
(* Versions are 1..MaxVersion, 0 is none.  A bundle is reduced to what its *)
(* verification sees: its version and whether it is "good", "bad" (does    *)
(* not verify) or "partial" (not wholly copied).  cache[v] is the folder   *)
(* of v in the update cache.  A step is one critical section of Service.mu *)
(* or one operation on the disk.  The UI fixture, progress and the texts   *)
(* of State are left out; of the disk operations of one step at most one   *)
(* fails.                                                                  *)
(***************************************************************************)
EXTENDS Naturals

CONSTANTS MaxVersion,
          MaxFailures,  \* bound: failures of the disk, damage to what it holds included
          MaxRestarts   \* bound: times the application ends and starts again

ASSUME UpdateAssumption == /\ MaxVersion \in Nat \ {0}
                           /\ {MaxFailures, MaxRestarts} \subseteq Nat

VARIABLES
  current,     \* version of the running process
  phase,       \* State.Phase
  mode,        \* State.Mode
  baseMode,    \* what this installation can do
  available,   \* State.AvailableVersion
  hasAsset,    \* the available release has a package for this machine
  readyApp,    \* version of the verified bundle in the cache, or 0
  prefs,       \* preferences in memory
  disk,        \* preferences in the file
  wish,        \* the version the user skipped and no newer one replaced
  due,         \* an automatic check is about to start
  check,       \* the check in flight: who asked, and the phase before it
  dl,          \* the download in flight: where it is, and its version
  inst,        \* the install in flight: where it is, and how it staged
  cache, target, incoming, previous,  \* bundles on disk
  failures, restarts

offer == <<mode, baseMode, available, hasAsset, readyApp>>
prefVars == <<prefs, disk, wish>>
bundles == <<target, incoming, previous>>
vars == <<current, phase, offer, prefVars, due, check, dl, inst, cache, bundles,
          failures, restarts>>

-------------------------------------------------------------------------------
Version == 1..MaxVersion
Phase == {"idle", "checking", "available", "downloading", "verifying", "ready",
          "installing"}
Mode == {"off", "notify", "manual", "installer"}
Bundle == [version : Version, content : {"good", "bad", "partial"}]
NoBundle == [version |-> 0, content |-> "none"]
Good(v) == [version |-> v, content |-> "good"]
Folder == [app : Bundle \union {NoBundle}, marker : BOOLEAN]
Empty == [app |-> NoBundle, marker |-> FALSE]
Preferences == [auto : BOOLEAN, skipped : 0..MaxVersion]

NoCheck == [by |-> "none", prev |-> "idle"]
NoDownload == [pc |-> "none", version |-> 0]
NoInstall == [pc |-> "none", moved |-> FALSE, denied |-> FALSE]

\* State.busy: what excludes a check, a skip and, by the phase, all else.
Busy == phase \in {"checking", "downloading", "verifying", "installing"}

\* A disk operation either works or uses up one of the failures.
Works == UNCHANGED failures
Fails == failures < MaxFailures /\ failures' = failures + 1

\* savePreferences replaces the file in one rename.
Unwritten(p) == disk                                                     \* mutant
Written(p) == p

Init == /\ current = 1
        /\ phase = "idle"
        /\ baseMode \in Mode
        /\ mode = baseMode
        /\ available = 0
        /\ hasAsset = FALSE
        /\ readyApp = 0
        /\ prefs = [auto |-> TRUE, skipped |-> 0]
        /\ disk = prefs
        /\ wish = 0
        /\ due = FALSE
        /\ check = NoCheck
        /\ dl = NoDownload
        /\ inst = NoInstall
        /\ cache = [v \in Version |-> Empty]
        /\ target = Good(1)
        /\ incoming = NoBundle
        /\ previous = NoBundle
        /\ failures = 0
        /\ restarts = 0

-------------------------------------------------------------------------------
(* Check: the timer and SetAutoCheck start automatic checks, the user      *)
(* manual ones; the release is fetched outside the lock.                   *)

\* The timer of schedule fires and finds automatic checks on.
TimerFires == /\ baseMode # "off"
              /\ prefs.auto
              /\ ~due
              /\ due' = TRUE
              /\ UNCHANGED <<current, phase, offer, prefVars, check, dl, inst, cache,
                             bundles, failures, restarts>>

MayCheck(by) == /\ baseMode # "off"
                /\ ~Busy
                /\ by = "auto" => phase # "ready"

StartCheck(by) == /\ MayCheck(by)
                  /\ check' = [by |-> by, prev |-> phase]
                  /\ phase' = "checking"
                  /\ UNCHANGED <<current, offer, prefVars, dl, inst, cache, bundles,
                                 failures, restarts>>

ManualCheck == StartCheck("manual") /\ UNCHANGED due

AutoCheck == due /\ due' = FALSE /\ StartCheck("auto")

AutoCheckGivesUp == /\ due
                    /\ ~MayCheck("auto")
                    /\ due' = FALSE
                    /\ UNCHANGED <<current, phase, offer, prefVars, check, dl, inst,
                                   cache, bundles, failures, restarts>>

\* The request fails or its 15 seconds are over.
CheckFails == /\ check # NoCheck
              /\ phase' = check.prev
              /\ check' = NoCheck
              /\ UNCHANGED <<current, offer, prefVars, due, dl, inst, cache, bundles,
                             failures, restarts>>

\* discardCacheLocked: the folder of the available version is removed, or
\* cannot be.
DiscardCache == \/ Works /\ cache' = [v \in Version |->
                                        IF v = available THEN Empty ELSE cache[v]]
                \/ available # 0 /\ Fails /\ UNCHANGED cache

ClearAvailable == /\ DiscardCache
                  /\ readyApp' = 0
                  /\ available' = 0
                  /\ hasAsset' = FALSE
                  /\ mode' = baseMode
                  /\ phase' = "idle"
                  /\ UNCHANGED baseMode

\* applyReleaseLocked refuses what is not newer, and hides from automatic
\* checks what the user skipped.
Newer(v) == v > current
Hidden(v) == prefs.skipped # 0 /\ v <= prefs.skipped /\ check.by = "auto"

\* No release is published (v = 0), none that counts, or a skipped one.
NothingToOffer(v) == /\ check # NoCheck
                     /\ ~Newer(v) \/ Hidden(v)
                     /\ ClearAvailable
                     /\ check' = NoCheck
                     /\ UNCHANGED <<current, prefVars, due, dl, inst, bundles, restarts>>

HasCachedApp(v) == cache[v].marker /\ cache[v].app # NoBundle

\* Another version than the one offered: what was downloaded is dropped.
Replaced(v) == available # 0 /\ available # v

SkipReplaced(v) == prefs.skipped # 0 /\ v > prefs.skipped

\* At most one of the two disk operations of this step fails.
DiscardAndSave(v) ==
  LET discarded == [u \in Version |-> IF Replaced(v) /\ u = available THEN Empty
                                      ELSE cache[u]]
      saved == IF SkipReplaced(v) THEN Written(prefs') ELSE disk
  IN \/ Works /\ cache' = discarded /\ disk' = saved
     \/ Replaced(v) /\ Fails /\ UNCHANGED cache /\ disk' = saved
     \/ SkipReplaced(v) /\ Fails /\ cache' = discarded /\ UNCHANGED disk

\* applyReleaseLocked offers v; a package downloaded before a restart is
\* verified again at once.
Offer(v) ==
  /\ check # NoCheck
  /\ Newer(v)
  /\ ~Hidden(v)
  /\ prefs' = [prefs EXCEPT !.skipped = IF SkipReplaced(v) THEN 0 ELSE @]
  /\ wish' = IF v > wish THEN 0 ELSE wish
  /\ DiscardAndSave(v)
  /\ readyApp' = IF Replaced(v) THEN 0 ELSE readyApp
  /\ \E asset \in BOOLEAN :
        /\ hasAsset' = asset
        /\ mode' = IF asset THEN baseMode ELSE "notify"
  /\ available' = v
  /\ check' = NoCheck
  /\ \/ readyApp' # 0 /\ phase' = "ready" /\ UNCHANGED dl
     \/ /\ readyApp' = 0
        /\ mode' = "notify" \/ ~HasCachedApp(v)
        /\ phase' = "available"
        /\ UNCHANGED dl
     \/ /\ readyApp' = 0
        /\ mode' # "notify"
        /\ HasCachedApp(v)
        /\ phase' = "downloading"
        /\ dl' = [pc |-> "start", version |-> v]
  /\ UNCHANGED <<current, baseMode, due, inst, bundles, restarts>>

\* The release feed may name any version, or none.
CheckAnswers == \E v \in 0..MaxVersion : NothingToOffer(v) \/ Offer(v)

-------------------------------------------------------------------------------
(* Download, and runDownload with prepareUpdate on a goroutine.            *)

Download == /\ phase = "available"
            /\ hasAsset
            /\ mode \in {"installer", "manual"}
            /\ phase' = "downloading"
            /\ dl' = [pc |-> "start", version |-> available]
            /\ UNCHANGED <<current, offer, prefVars, due, check, inst, cache, bundles,
                           failures, restarts>>

DownloadStep(from, to) ==
  /\ dl.pc = from
  /\ dl' = [dl EXCEPT !.pc = to]
  /\ UNCHANGED <<current, offer, prefVars, due, check, inst, bundles, restarts>>

\* Is there a package that was verified before?
LookInCache == \/ /\ DownloadStep("start", "reverify")
                  /\ HasCachedApp(dl.version)
                  /\ phase' = "verifying"
                  /\ UNCHANGED <<cache, failures>>
               \/ /\ DownloadStep("start", "fetch")
                  /\ ~HasCachedApp(dl.version)
                  /\ UNCHANGED <<phase, cache, failures>>

Verifies(b) == b.content = "good"

\* The tools refuse what is not good, and may fail on what is.
Reverify == \/ /\ DownloadStep("reverify", "prepared")
               /\ Verifies(cache[dl.version].app)
               /\ UNCHANGED <<phase, cache, failures>>
            \/ /\ DownloadStep("reverify", "fetch")
               /\ phase' = "downloading"
               /\ UNCHANGED <<cache, failures>>

\* The digest is asked for and the folder emptied.
Digest == \/ /\ DownloadStep("fetch", "archive")
             /\ cache' = [cache EXCEPT ![dl.version] = Empty]
             /\ UNCHANGED <<phase, failures>>
          \/ /\ DownloadStep("fetch", "failed")
             /\ UNCHANGED <<phase, cache, failures>>

\* downloadAsset: what arrives has the length and the digest GitHub tells;
\* the stall timeout ends a silent download.
Fetch == \/ /\ DownloadStep("archive", "extract")
            /\ phase' = "verifying"
            /\ UNCHANGED <<cache, failures>>
         \/ /\ DownloadStep("archive", "failed")
            /\ UNCHANGED <<phase, cache, failures>>

\* An archive with the published digest may still hold anything.
Extract == \/ /\ DownloadStep("extract", "verify")
              /\ \E content \in {"good", "bad"} :
                   cache' = [cache EXCEPT ![dl.version].app =
                               [version |-> dl.version, content |-> content]]
              /\ UNCHANGED <<phase, failures>>
           \/ /\ DownloadStep("extract", "failed")
              /\ UNCHANGED <<phase, cache, failures>>

Verify == \/ /\ DownloadStep("verify", "mark")
             /\ Verifies(cache[dl.version].app)
             /\ UNCHANGED <<phase, cache, failures>>
          \/ /\ DownloadStep("verify", "failed")
             /\ UNCHANGED <<phase, cache, failures>>

Mark == \/ /\ DownloadStep("mark", "prepared")
           /\ Works
           /\ cache' = [cache EXCEPT ![dl.version].marker = TRUE]
           /\ UNCHANGED phase
        \/ /\ DownloadStep("mark", "failed")
           /\ Fails
           /\ UNCHANGED <<phase, cache>>

\* The rest of runDownload, under the lock.  A download whose version is no
\* longer the available one would return without a word: see ActivityEnds.
DownloadReady == /\ dl.pc = "prepared"
                 /\ dl.version = available
                 /\ readyApp' = dl.version
                 /\ phase' = "ready"
                 /\ dl' = NoDownload
                 /\ UNCHANGED <<current, mode, baseMode, available, hasAsset, prefVars, due,
                                check, inst, cache, bundles, failures, restarts>>

FailsSilently == /\ dl.pc = "failed"                                    \* mutant
                 /\ dl' = NoDownload
                 /\ UNCHANGED <<current, phase, offer, prefVars, due, check, inst, cache,
                                bundles, failures, restarts>>

DownloadFails == /\ dl.pc = "failed"
                 /\ dl.version = available
                 /\ \/ Works /\ cache' = [cache EXCEPT ![dl.version] = Empty]
                    \/ Fails /\ UNCHANGED cache
                 /\ phase' = "available"
                 /\ dl' = NoDownload
                 /\ UNCHANGED <<current, offer, prefVars, due, check, inst, bundles, restarts>>

\* A bundle that waits in the cache is damaged on the disk.
Damage == /\ Fails
          /\ \E v \in Version : /\ cache[v].app.content = "good"
                                /\ cache' = [cache EXCEPT ![v].app.content = "bad"]
          /\ UNCHANGED <<current, phase, offer, prefVars, due, check, dl, inst, bundles,
                         restarts>>

-------------------------------------------------------------------------------
(* Install and replaceBundle, called by the user, with the lock released   *)
(* during the swap.                                                        *)

Install == /\ phase = "ready"
           /\ readyApp # 0
           /\ mode = "installer"
           /\ phase' = "installing"
           /\ inst' = [NoInstall EXCEPT !.pc = "probe"]
           /\ UNCHANGED <<current, offer, prefVars, due, check, dl, cache, bundles,
                          failures, restarts>>

SwapStep(from, to) ==
  /\ inst.pc = from
  /\ inst' = [inst EXCEPT !.pc = to]
  /\ UNCHANGED <<current, phase, offer, prefVars, due, check, dl, restarts>>

\* An operation fails and the install goes on at to, to report that the
\* permission is missing or that something else is wrong.
SwapFails(from, to) ==
  /\ inst.pc = from
  /\ Fails
  /\ \E denied \in BOOLEAN : inst' = [inst EXCEPT !.pc = to, !.denied = @ \/ denied]
  /\ UNCHANGED <<current, phase, offer, prefVars, due, check, dl, cache, bundles, restarts>>

Probe == \/ SwapStep("probe", "clean") /\ UNCHANGED <<cache, bundles, failures>>
         \/ SwapFails("probe", "failed")

\* What an earlier install left beside the target; errors are ignored.
Clean == /\ SwapStep("clean", "stage")
         /\ \/ Works /\ incoming' = NoBundle /\ previous' = NoBundle
            \/ /\ Fails
               /\ \/ UNCHANGED incoming /\ previous' = NoBundle
                  \/ UNCHANGED previous /\ incoming' = NoBundle
         /\ UNCHANGED <<cache, target>>

\* The cache is on the volume of the application: a rename.  A rename needs
\* its source, and a folder with something in it is not replaced.
StageByRename ==
  \/ /\ inst.pc = "stage"
     /\ incoming = NoBundle
     /\ cache[readyApp].app # NoBundle
     /\ inst' = [inst EXCEPT !.pc = "verify", !.moved = TRUE]
     /\ incoming' = cache[readyApp].app
     /\ cache' = [cache EXCEPT ![readyApp].app = NoBundle]
     /\ UNCHANGED <<current, phase, offer, prefVars, due, check, dl, target, previous,
                    failures, restarts>>
  \/ /\ SwapStep("stage", "failed")
     /\ cache[readyApp].app = NoBundle \/ incoming # NoBundle
     /\ UNCHANGED <<cache, bundles, failures>>
  \/ SwapFails("stage", "failed")

\* It is on another volume: a copy, that takes a while.
StartCopy == /\ SwapStep("stage", "copy")
             /\ cache[readyApp].app # NoBundle
             /\ incoming' = [cache[readyApp].app EXCEPT !.content = "partial"]
             /\ UNCHANGED <<cache, target, previous, failures>>

Copy == \/ /\ SwapStep("copy", "verify")
           /\ incoming' = cache[readyApp].app
           /\ UNCHANGED <<cache, target, previous, failures>>
        \/ /\ inst.pc = "copy"
           /\ Fails
           /\ inst' = [inst EXCEPT !.pc = "failed"]
           /\ incoming' = NoBundle
           /\ UNCHANGED <<current, phase, offer, prefVars, due, check, dl, cache, target,
                          previous, restarts>>

AnyStaged(b) == b # NoBundle                                             \* mutant
StagedVerifies(b) == Verifies(b)

VerifyStaged == \/ /\ SwapStep("verify", "aside")
                   /\ StagedVerifies(incoming)
                   /\ UNCHANGED <<cache, bundles, failures>>
                \/ /\ SwapStep("verify", "restore")
                   /\ UNCHANGED <<cache, bundles, failures>>

MoveAside == \/ /\ SwapStep("aside", "place")
                /\ target # NoBundle
                /\ previous = NoBundle
                /\ previous' = target
                /\ target' = NoBundle
                /\ UNCHANGED <<cache, incoming, failures>>
             \/ /\ SwapStep("aside", "restore")
                /\ previous # NoBundle \/ target = NoBundle
                /\ UNCHANGED <<cache, bundles, failures>>
             \/ SwapFails("aside", "restore")

Place == \/ /\ SwapStep("place", "placed")
            /\ target' = incoming
            /\ incoming' = NoBundle
            /\ UNCHANGED <<cache, previous, failures>>
         \/ SwapFails("place", "rollback")

Rollback == \/ /\ SwapStep("rollback", "restore")
               /\ target' = previous
               /\ previous' = NoBundle
               /\ UNCHANGED <<cache, incoming, failures>>
            \/ SwapFails("rollback", "failed")

\* restoreStaged: what was moved goes back to the cache, a copy is removed.
RestoreStaged ==
  /\ SwapStep("restore", "failed")
  /\ UNCHANGED <<target, previous>>
  /\ \/ /\ Works
        /\ incoming' = NoBundle
        /\ cache' = IF inst.moved THEN [cache EXCEPT ![readyApp].app = incoming] ELSE cache
     \/ Fails /\ UNCHANGED <<cache, incoming>>

InstallFails == /\ inst.pc = "failed"
                /\ phase' = "ready"
                /\ baseMode' = IF inst.denied THEN "manual" ELSE baseMode
                /\ mode' = IF inst.denied THEN "manual" ELSE mode
                /\ inst' = NoInstall
                /\ UNCHANGED <<current, available, hasAsset, readyApp, prefVars, due, check,
                               dl, cache, bundles, failures, restarts>>

\* The helper is started; the application quits 200 ms later.
InstallEnds == /\ inst.pc = "placed"
               /\ readyApp' = 0
               /\ inst' = [inst EXCEPT !.pc = "done"]
               /\ UNCHANGED <<current, phase, mode, baseMode, available, hasAsset, prefVars,
                              due, check, dl, cache, bundles, failures, restarts>>

-------------------------------------------------------------------------------
(* Preferences, and the end of the process.                                *)

\* Skip, for an available version and between two activities.
Skip == /\ available # 0
        /\ ~Busy
        /\ prefs' = [prefs EXCEPT !.skipped = available]
        /\ wish' = available
        /\ \/ disk' = Written(prefs') /\ ClearAvailable
           \/ /\ UNCHANGED disk
              /\ Fails
              /\ cache' = [cache EXCEPT ![available] = Empty]
              /\ phase' = "idle"
              /\ available' = 0
              /\ readyApp' = 0
              /\ hasAsset' = FALSE
              /\ mode' = baseMode
              /\ UNCHANGED baseMode
        /\ UNCHANGED <<current, due, check, dl, inst, bundles, restarts>>

\* SetAutoCheck; once re-enabled a check starts soon if the last is old.
SetAutoCheck == /\ \E auto \in BOOLEAN :
                     /\ prefs' = [prefs EXCEPT !.auto = auto]
                     /\ due' \in IF auto /\ baseMode # "off" THEN {due, TRUE} ELSE {due}
                /\ \/ Works /\ disk' = Written(prefs')
                   \/ Fails /\ UNCHANGED disk
                /\ UNCHANGED <<current, phase, offer, wish, check, dl, inst, cache, bundles,
                               restarts>>

\* The process ends, in the middle of anything, and the bundle at the target
\* is opened again: Start, with resolveModeLocked and removeLeftovers.
Leftover(v) == v <= target.version
Restart == /\ restarts < MaxRestarts
           /\ target # NoBundle
           /\ restarts' = restarts + 1
           /\ current' = target.version
           /\ baseMode' \in Mode
           /\ mode' = baseMode'
           /\ phase' = "idle"
           /\ available' = 0
           /\ hasAsset' = FALSE
           /\ readyApp' = 0
           /\ prefs' = disk
           /\ due' = FALSE
           /\ check' = NoCheck
           /\ dl' = NoDownload
           /\ inst' = NoInstall
           /\ \/ /\ baseMode' = "off"
                 /\ UNCHANGED <<cache, incoming, previous, failures>>
              \/ /\ baseMode' # "off"
                 /\ cache' = [v \in Version |-> IF Leftover(v) THEN Empty ELSE cache[v]]
                 /\ \/ Works /\ incoming' = NoBundle /\ previous' = NoBundle
                    \/ Fails /\ UNCHANGED <<incoming, previous>>
           /\ UNCHANGED <<disk, wish, target>>

-------------------------------------------------------------------------------
DownloadProgress == LookInCache \/ Reverify \/ Digest \/ Fetch \/ Extract \/ Verify \/ Mark
                    \/ DownloadReady \/ DownloadFails

Swap == Probe \/ Clean \/ StageByRename \/ StartCopy \/ Copy \/ VerifyStaged
        \/ MoveAside \/ Place \/ Rollback \/ RestoreStaged
        \/ InstallFails \/ InstallEnds

CheckEnds == CheckFails \/ CheckAnswers

Next == \/ TimerFires \/ ManualCheck \/ AutoCheck \/ AutoCheckGivesUp \/ CheckEnds
        \/ Download \/ DownloadProgress \/ Damage
        \/ Install \/ Swap
        \/ Skip \/ SetAutoCheck \/ Restart

Spec == Init /\ [][Next]_vars

(***************************************************************************)
(* CheckTimeout and StallTimeout end what waits for the network, the rest  *)
(* is a goroutine or a call that runs; only the tools of macOS are trusted *)
(* to return.  The user is not fair, nor is the timer.                     *)
(***************************************************************************)
Running == WF_vars(CheckEnds) /\ WF_vars(DownloadProgress) /\ WF_vars(Swap)

FairSpec == Spec /\ Running

-------------------------------------------------------------------------------
\* What is put in the place of the application verifies, even if the bundle
\* was damaged while it waited in the cache (replaceBundle, 93-98).
InstalledIsVerified == target # NoBundle => target.content = "good"

\* An install puts the version that was offered in place, and it is newer
\* than the one that runs, whatever the feed says later and whatever an
\* earlier process left in the cache.
InstallIsUpgrade == inst.pc = "placed" => /\ target.version = available
                                          /\ target.version > current

\* With one failure of the disk, at any point of any install, and the end
\* of the process anywhere, a whole application is left on the disk, at the
\* target or beside it (the order of removals and renames of replaceBundle).
AppSurvives == failures < 2 => \E b \in {target, previous} : b.content = "good"

\* An install never takes the user to a worse place: not to a package that does
\* not verify, not to an older version, and not to none (replaceBundle, install).
InstallIsSafe == InstalledIsVerified /\ InstallIsUpgrade /\ AppSurvives

\* An automatic check does not offer a version the user skipped, nor an
\* older one, before a newer one is published, across restarts and as long
\* as the preferences could be saved (Skip, applyReleaseLocked).
SkipHolds == [][check.by = "auto" /\ available' # available /\ available' # 0
                /\ failures = 0 => available' > wish]_vars

\* A check and a download end, and so does an install that did not replace
\* the application: the update is never stuck in a busy phase.
ActivityEnds == Busy ~> (~Busy \/ inst.pc = "done")
===============================================================================
