------------------------------ MODULE OtaProofs ------------------------------
(***************************************************************************)
(* What holds of an update for any images, releases, file names and keys,  *)
(* and however the publisher, the daemon, the node, the link and the power *)
(* interleave.                                                             *)
(*                                                                         *)
(* The invariant has one part per place that keeps state: the served       *)
(* directory, the link with the daemon at its end, and the node.  What the *)
(* node needs of the other two is only that a manifest signed with the     *)
(* fleet key names a released image, and that a release is for ever; the   *)
(* rest of the argument stays inside the part the step belongs to.         *)
(***************************************************************************)
EXTENDS Ota, TLAPS

\* The fleet key only ever signs for an image that is then released.
SignedIsReleased(m) == m # None /\ m.key = FleetKey => m.sha \in released

ServerSafe ==
  /\ \/ pub = NoPublish
     \/ pub \in [at : {"copied"}, rel : Releases]
  /\ published \in 0 .. MaxPublish
  /\ dir \in [Files -> Images \cup {None}]
  /\ manifest \in Manifests \cup {None}
  /\ released \subseteq Images
  /\ pub.at = "copied" => dir[pub.rel.file] = pub.rel.image
  /\ SignedIsReleased(manifest)

LinkSafe ==
  /\ uplink \in Versions \cup {None}
  /\ daemon \in [reports : Versions \cup {None}, read : Manifests \cup {None}]
  /\ downlink \in {0, 1, None}

Phases == {"asleep", "window", "joining", "joined", "checking", "accepted",
           "streaming", "hashing", "restarting"}

NodeSafe ==
  /\ at \in Phases
  /\ running \in Images
  /\ flash \in [AppSlots -> Images \cup {Garbled}]
  /\ boot \in AppSlots
  /\ wifi \in {"off", "on"}
  /\ fetched \in Manifests \cup {None}
  /\ served \in Images \cup {None}
  /\ SignedIsReleased(fetched)
  /\ at \in {"checking", "accepted", "streaming", "hashing", "restarting"}
       => fetched # None
  /\ at \in {"accepted", "streaming", "hashing", "restarting"}
       => fetched.key = FleetKey
  /\ at \in {"streaming", "hashing"} => served # None
  /\ at \in {"asleep", "window"} => wifi = "off"
  /\ flash[boot] = IF at = "restarting" THEN fetched.sha ELSE running
  /\ running \in {Factory} \cup released

Safe == ServerSafe /\ LinkSafe /\ NodeSafe

LEMMA SpareSlot ==
  ASSUME boot \in AppSlots
  PROVE  Spare \in AppSlots /\ Spare # boot
  <1>1. \E s \in AppSlots : s # boot
    BY DEF AppSlots
  <1>2. QED  BY <1>1 DEF Spare

LEMMA InitSafe == Init => Safe
  <1> SUFFICES ASSUME Init PROVE Safe
      OBVIOUS
  <1>1. ServerSafe
    BY PublishAssumption DEF Init, ServerSafe, NoPublish, SignedIsReleased
  <1>2. LinkSafe
    BY DEF Init, LinkSafe, Idle
  <1>3. NodeSafe
    BY ImagesAssumption DEF Init, NodeSafe, AppSlots, Phases, SignedIsReleased
  <1>4. QED  BY <1>1, <1>2, <1>3 DEF Safe

-----------------------------------------------------------------------------
(* The publisher *)

LEMMA ManifestShape ==
  ASSUME NEW r \in Releases, dir[r.file] \in Images
  PROVE  ManifestOf(r) \in Manifests
  BY ImagesAssumption DEF ManifestOf, Manifests, Files, Versions, Keys

\* A publish leaves the directory consistent with the manifest it is about to
\* write, and takes no release back.
LEMMA PublisherStep ==
  ASSUME ServerSafe, Publisher
  PROVE  ServerSafe' /\ released \subseteq released'
  <1>1. CASE PublishImage
    <2>1. PICK r \in Releases :
            /\ dir' = [dir EXCEPT ![r.file] = r.image]
            /\ pub' = [at |-> "copied", rel |-> r]
      BY <1>1 DEF PublishImage
    <2>2. r.file \in Files /\ r.image \in Images
      BY ImagesAssumption DEF Files
    <2>3. dir' \in [Files -> Images \cup {None}] /\ dir'[r.file] = r.image
      BY <2>1, <2>2 DEF ServerSafe
    <2>4. published' \in 0 .. MaxPublish
      BY <1>1, PublishAssumption DEF PublishImage, ServerSafe
    <2>5. QED
      BY <1>1, <2>1, <2>3, <2>4 DEF PublishImage, ServerSafe, SignedIsReleased
  <1>2. CASE PublishManifest
    <2>1. pub.rel \in Releases /\ dir[pub.rel.file] = pub.rel.image
      BY <1>2 DEF PublishManifest, ServerSafe, NoPublish
    <2>2. dir[pub.rel.file] \in Images
      BY <2>1, ImagesAssumption
    <2>3. manifest' \in Manifests
      BY <1>2, <2>1, <2>2, ManifestShape DEF PublishManifest
    <2>4. manifest'.key = pub.rel.key /\ manifest'.sha = dir[pub.rel.file]
      BY <1>2 DEF PublishManifest, ManifestOf
    <2>5. SignedIsReleased(manifest)'
      BY <1>2, <2>4 DEF PublishManifest, SignedIsReleased
    <2>6. released' \subseteq Images /\ released \subseteq released'
      BY <1>2, <2>2 DEF PublishManifest, ServerSafe
    <2>7. QED
      BY <1>2, <2>3, <2>5, <2>6 DEF PublishManifest, ServerSafe, NoPublish
  <1>3. CASE PublishDies
    BY <1>3 DEF PublishDies, ServerSafe, NoPublish, SignedIsReleased
  <1>4. QED  BY <1>1, <1>2, <1>3 DEF Publisher

LEMMA ServerKept ==
  ASSUME ServerSafe, UNCHANGED serverVars
  PROVE  ServerSafe' /\ released \subseteq released'
  BY DEF ServerSafe, serverVars, SignedIsReleased

-----------------------------------------------------------------------------
(* The link and the daemon *)

LEMMA LinkKept ==
  ASSUME LinkSafe, UNCHANGED linkVars
  PROVE  LinkSafe'
  BY DEF LinkSafe, linkVars

LEMMA LinkStep ==
  ASSUME ServerSafe, LinkSafe, Daemon \/ LosePacket \/ LoseDownlink
  PROVE  LinkSafe'
  <1>1. CASE DaemonReads
    BY <1>1 DEF DaemonReads, LinkSafe, ServerSafe
  <1>2. CASE DaemonReplies
    BY <1>2 DEF DaemonReplies, LinkSafe, Idle
  <1>3. CASE LosePacket
    BY <1>3 DEF LosePacket, LinkSafe
  <1>4. CASE LoseDownlink
    BY <1>4 DEF LoseDownlink, LinkSafe
  <1>5. QED  BY <1>1, <1>2, <1>3, <1>4 DEF Daemon

-----------------------------------------------------------------------------
(* The node *)

LEMMA NodeKept ==
  ASSUME NodeSafe, UNCHANGED nodeVars, released \subseteq released'
  PROVE  NodeSafe'
  BY DEF NodeSafe, nodeVars, SignedIsReleased

\* Outside a commit the boot slot and its contents stand still.
LEMMA NodeStep ==
  ASSUME ServerSafe, NodeSafe, Node, released' = released
  PROVE  NodeSafe'
  <1> USE DEF Phases, SignedIsReleased
  <1>1. CASE WakeAndSend
    BY <1>1 DEF WakeAndSend, NodeSafe
  <1>2. CASE QuietWindow
    BY <1>2 DEF QuietWindow, NodeSafe
  <1>3. CASE HearDownlink
    BY <1>3 DEF HearDownlink, GiveUp, NodeSafe
  <1>4. CASE JoinWifi
    BY <1>4 DEF JoinWifi, NodeSafe
  <1>5. CASE FetchManifest
    BY <1>5 DEF FetchManifest, ServerSafe, NodeSafe
  <1>6. CASE AcceptManifest
    BY <1>6 DEF AcceptManifest, Accepted, NodeSafe
  <1>7. CASE RefuseManifest
    BY <1>7 DEF RefuseManifest, GiveUp, NodeSafe
  <1>8. CASE OpenImage
    <2>1. Spare \in AppSlots /\ Spare # boot
      BY SpareSlot DEF NodeSafe
    <2>2. fetched.file \in Files
      BY <1>8 DEF OpenImage, NodeSafe, Manifests
    <2>3. served' \in Images
      BY <1>8, <2>2 DEF OpenImage, Offered, ServerSafe
    <2>4. flash' \in [AppSlots -> Images \cup {Garbled}] /\ flash'[boot] = flash[boot]
      BY <1>8, <2>1 DEF OpenImage, NodeSafe
    <2>5. QED  BY <1>8, <2>3, <2>4, ImagesAssumption DEF OpenImage, NodeSafe
  <1>9. CASE RefuseImage
    BY <1>9 DEF RefuseImage, GiveUp, NodeSafe
  <1>10. CASE StreamImage
    <2>1. Spare \in AppSlots /\ Spare # boot
      BY SpareSlot DEF NodeSafe
    <2>2. PICK arrived \in {served, Garbled} :
            flash' = [flash EXCEPT ![Spare] = arrived]
      BY <1>10 DEF StreamImage
    <2>3. arrived \in Images \cup {Garbled}
      BY <1>10 DEF StreamImage, NodeSafe
    <2>4. flash' \in [AppSlots -> Images \cup {Garbled}] /\ flash'[boot] = flash[boot]
      BY <2>1, <2>2, <2>3 DEF NodeSafe
    <2>5. QED  BY <1>10, <2>4 DEF StreamImage, NodeSafe
  <1>11. CASE Commit
    <2>1. Spare \in AppSlots
      BY SpareSlot DEF NodeSafe
    <2>2. QED  BY <1>11, <2>1 DEF Commit, NodeSafe
  <1>12. CASE Discard
    BY <1>12 DEF Discard, GiveUp, NodeSafe
  <1>13. CASE StepFails
    BY <1>13 DEF StepFails, GiveUp, NodeSafe
  <1>14. CASE Restart \/ PowerLoss
    <2>1. flash[boot] \in {Factory} \cup released
      BY DEF NodeSafe
    <2>2. flash[boot] \in Images
      BY <2>1, ImagesAssumption DEF ServerSafe
    <2>3. running' = flash[boot] /\ flash' = flash /\ boot' = boot /\ GiveUp
      BY <1>14 DEF Restart, PowerLoss
    <2>4. QED  BY <2>1, <2>2, <2>3 DEF GiveUp, NodeSafe
  <1>15. QED
    BY <1>1, <1>2, <1>3, <1>4, <1>5, <1>6, <1>7, <1>8, <1>9, <1>10, <1>11,
       <1>12, <1>13, <1>14 DEF Node, Update

LEMMA NodeLeavesServer == ASSUME Node PROVE UNCHANGED serverVars
  BY DEF Node, Update, WakeAndSend, QuietWindow, HearDownlink, JoinWifi,
         FetchManifest, AcceptManifest, RefuseManifest, OpenImage, RefuseImage,
         StreamImage, Commit, Restart, Discard, StepFails, PowerLoss

\* What a node step does to the link: it sends, it takes, or it leaves it alone.
LEMMA NodeAndLink ==
  ASSUME NodeSafe, LinkSafe, Node
  PROVE  LinkSafe'
  <1>1. CASE WakeAndSend
    BY <1>1 DEF WakeAndSend, NodeSafe, LinkSafe, Versions
  <1>2. CASE HearDownlink
    BY <1>2 DEF HearDownlink, LinkSafe
  <1>3. CASE ~WakeAndSend /\ ~HearDownlink
    <2>1. UNCHANGED linkVars
      BY <1>3 DEF Node, Update, QuietWindow, JoinWifi, FetchManifest,
         AcceptManifest, RefuseManifest, OpenImage, RefuseImage, StreamImage,
         Commit, Restart, Discard, StepFails, PowerLoss
    <2>2. QED  BY <2>1, LinkKept
  <1>4. QED  BY <1>1, <1>2, <1>3

-----------------------------------------------------------------------------
(* The whole system *)

LEMMA SafeInductive == Safe /\ [Next]_vars => Safe'
  <1> SUFFICES ASSUME Safe, [Next]_vars PROVE Safe'
      OBVIOUS
  <1> USE DEF Safe
  <1>1. CASE Publisher
    <2>1. UNCHANGED linkVars /\ UNCHANGED nodeVars
      BY <1>1 DEF Publisher, PublishImage, PublishManifest, PublishDies
    <2>2. QED  BY <1>1, <2>1, PublisherStep, LinkKept, NodeKept
  <1>2. CASE Daemon \/ LosePacket \/ LoseDownlink
    <2>1. UNCHANGED serverVars /\ UNCHANGED nodeVars
      BY <1>2 DEF Daemon, DaemonReads, DaemonReplies, LosePacket, LoseDownlink
    <2>2. QED  BY <1>2, <2>1, LinkStep, ServerKept, NodeKept
  <1>3. CASE Node
    <2>1. UNCHANGED serverVars
      BY <1>3, NodeLeavesServer
    <2>2. released' = released
      BY <2>1 DEF serverVars
    <2>3. QED  BY <1>3, <2>1, <2>2, NodeStep, NodeAndLink, ServerKept
  <1>4. CASE UNCHANGED vars
    <2>1. UNCHANGED serverVars /\ UNCHANGED linkVars /\ UNCHANGED nodeVars
      BY <1>4 DEF vars
    <2>2. QED  BY <2>1, ServerKept, LinkKept, NodeKept
  <1>5. QED  BY <1>1, <1>2, <1>3, <1>4 DEF Next

LEMMA AlwaysSafe == Spec => []Safe
  BY InitSafe, SafeInductive, PTL DEF Spec

\* Everything served, sent, fetched and flashed has the shape its reader
\* checks, in every interleaving of publisher, daemon and node.
THEOREM TypeCorrect == Spec => []TypeOK
  <1>1. Safe => TypeOK
    BY DEF Safe, ServerSafe, LinkSafe, NodeSafe, TypeOK, Phases
  <1>2. QED  BY <1>1, AlwaysSafe, PTL

\* For any set of releases, whoever signed them and however often they are
\* republished: a node executes, and would boot after a power loss, only what
\* it was flashed with on the bench or what the fleet key signed for.
THEOREM NothingForeignBoots == Spec => []OnlyReleasedImagesBoot
  <1>1. Safe => OnlyReleasedImagesBoot
    BY DEF Safe, NodeSafe, SignedIsReleased, OnlyReleasedImagesBoot
  <1>2. QED  BY <1>1, AlwaysSafe, PTL

\* Until Update.end() has moved the boot target a power loss at any instant of an
\* update brings back the running image; from there to the restart it starts the
\* image the accepted manifest's digest and signature stand for.
THEOREM UpdateIsAllOrNothing == Spec => []SurvivesPowerLoss
  <1>1. Safe => SurvivesPowerLoss
    BY DEF Safe, NodeSafe, SignedIsReleased, SurvivesPowerLoss
  <1>2. QED  BY <1>1, AlwaysSafe, PTL

\* Every path out of an update, whatever failed on it, turns WiFi off.
THEOREM NeverSleepsAssociated == Spec => []WifiOffAsleep
  <1>1. Safe => WifiOffAsleep
    BY DEF Safe, NodeSafe, WifiOffAsleep
  <1>2. QED  BY <1>1, AlwaysSafe, PTL

-----------------------------------------------------------------------------
(* What a commit changes *)

\* From the check of the manifest to the commit the node holds a manifest whose
\* version is not the one it runs; nothing on the way replaces either.
Mismatched ==
  at \in {"accepted", "streaming", "hashing"} => fetched.version # Version[running]

LEMMA MismatchedInductive == Safe /\ Mismatched /\ [Next]_vars => Mismatched'
  <1> SUFFICES ASSUME Safe, Mismatched, [Next]_vars PROVE Mismatched'
      OBVIOUS
  <1> USE DEF Mismatched
  <1>1. CASE UNCHANGED nodeVars
    BY <1>1 DEF nodeVars
  <1>2. CASE Node
    <2>1. CASE AcceptManifest
      BY <2>1 DEF AcceptManifest, Accepted
    <2>2. CASE OpenImage \/ StreamImage
      BY <2>2 DEF OpenImage, StreamImage
    <2>3. CASE ~AcceptManifest /\ ~OpenImage /\ ~StreamImage
      <3>1. at' \notin {"accepted", "streaming", "hashing"}
        BY <1>2, <2>3 DEF Node, Update, WakeAndSend, QuietWindow, HearDownlink,
           JoinWifi, FetchManifest, RefuseManifest, RefuseImage, Commit, Restart,
           Discard, StepFails, PowerLoss, GiveUp
      <3>2. QED  BY <3>1
    <2>4. QED  BY <2>1, <2>2, <2>3
  <1>3. CASE Publisher \/ Daemon \/ LosePacket \/ LoseDownlink
    <2>1. UNCHANGED nodeVars
      BY <1>3 DEF Publisher, PublishImage, PublishManifest, PublishDies, Daemon,
         DaemonReads, DaemonReplies, LosePacket, LoseDownlink
    <2>2. QED  BY <2>1, <1>1
  <1>4. QED  BY <1>1, <1>2, <1>3 DEF Next, vars

\* The boot slot changes in a commit and nowhere else, and there the image that
\* will start is the one whose digest the manifest gave.
LEMMA OnlyCommitMovesBoot ==
  ASSUME Safe, [Next]_vars, boot' # boot
  PROVE  at = "hashing" /\ flash'[boot'] = fetched.sha /\ fetched # None
  <1>1. Commit
    BY DEF Next, vars, nodeVars, Publisher, PublishImage, PublishManifest, PublishDies,
       Daemon, DaemonReads, DaemonReplies, LosePacket, LoseDownlink, Node, Update,
       WakeAndSend, QuietWindow, HearDownlink, JoinWifi, FetchManifest,
       AcceptManifest, RefuseManifest, OpenImage, RefuseImage, StreamImage, Restart,
       Discard, StepFails, PowerLoss
  <1>2. QED  BY <1>1 DEF Commit, Safe, NodeSafe

\* However late a flag arrives and whatever is published meanwhile, no commit
\* installs an image of the version the node was running, unless it was released
\* under a version it was not built with.
THEOREM NothingIsReflashed == Spec => NeverReflashed
  <1>1. Init => Mismatched
    BY DEF Init, Mismatched
  <1>2. Safe /\ Mismatched /\ [Next]_vars
          => [boot' # boot /\ fetched.version = Version[fetched.sha]
                => Version[flash'[boot']] # Version[running]]_vars
    <2>1. ASSUME Safe, Mismatched, [Next]_vars, boot' # boot,
                 fetched.version = Version[fetched.sha]
          PROVE  Version[flash'[boot']] # Version[running]
      BY <2>1, OnlyCommitMovesBoot DEF Mismatched
    <2>2. QED  BY <2>1
  <1>3. QED
    BY <1>1, <1>2, InitSafe, SafeInductive, MismatchedInductive, PTL DEF Spec, NeverReflashed

-----------------------------------------------------------------------------
(* What the served manifest says of the served file *)

\* The workflow publish_firmware.py describes names a file for the version in
\* it; nobody publishes another build under such a name.
AsDescribed(r) == r.version = Version[r.image] /\ r.file = r.version
NamesAreOwn ==
  \A r, other \in Releases :
    AsDescribed(r) /\ other.file = r.file => other.image = r.image

\* The manifest is some release's; if that release is a documented one, its file
\* still holds its image.
ManifestIsOf(r) ==
  /\ manifest.version = r.version /\ manifest.sha = r.image
  /\ manifest.size = Size[r.image] /\ manifest.file = r.file
Described ==
  manifest # None =>
    \E r \in Releases :
      ManifestIsOf(r) /\ (AsDescribed(r) => dir[r.file] = r.image)

LEMMA DescribedInductive ==
  ASSUME NamesAreOwn
  PROVE  Safe /\ Described /\ [Next]_vars => Described'
  <1> SUFFICES ASSUME Safe, Described, [Next]_vars PROVE Described'
      OBVIOUS
  <1> USE DEF Described, ManifestIsOf
  <1>1. CASE UNCHANGED <<manifest, dir>>
    BY <1>1
  <1>2. CASE PublishImage
    <2> SUFFICES ASSUME manifest # None PROVE Described'
        BY <1>2 DEF PublishImage
    <2>1. PICK r \in Releases :
            ManifestIsOf(r) /\ (AsDescribed(r) => dir[r.file] = r.image)
      OBVIOUS
    <2>2. PICK new \in Releases : dir' = [dir EXCEPT ![new.file] = new.image]
      BY <1>2 DEF PublishImage
    <2>3. r.file \in DOMAIN dir
      BY DEF Safe, ServerSafe, Files
    <2>4. AsDescribed(r) => dir'[r.file] = r.image
      <3>1. CASE new.file = r.file
        BY <2>2, <2>3, <3>1, NamesAreOwn DEF NamesAreOwn
      <3>2. CASE new.file # r.file
        BY <2>1, <2>2, <3>2
      <3>3. QED  BY <3>1, <3>2
    <2>5. manifest' = manifest
      BY <1>2 DEF PublishImage
    <2>6. QED  BY <2>1, <2>4, <2>5
  <1>3. CASE PublishManifest
    <2>1. pub.rel \in Releases /\ dir[pub.rel.file] = pub.rel.image
      BY <1>3 DEF PublishManifest, Safe, ServerSafe, NoPublish
    <2>2. manifest' = ManifestOf(pub.rel) /\ dir' = dir
      BY <1>3 DEF PublishManifest
    <2>3. QED  BY <2>1, <2>2 DEF ManifestOf
  <1>4. CASE ~PublishImage /\ ~PublishManifest
    <2>1. UNCHANGED <<manifest, dir>>
      <3>1. CASE Node
        BY <3>1, NodeLeavesServer DEF serverVars
      <3>2. CASE ~Node
        BY <1>4, <3>2 DEF Next, vars, serverVars, Publisher, PublishDies, Daemon,
           DaemonReads, DaemonReplies, LosePacket, LoseDownlink
      <3>3. QED  BY <3>1, <3>2
    <2>2. QED  BY <2>1, <1>1
  <1>5. QED  BY <1>2, <1>3, <1>4

\* Where no other build goes out under the name of a documented release, what the
\* served manifest of such a release describes is there, whole, at every instant
\* of every later publish, one cut short included.
THEOREM DocumentedStaysWhole ==
  ASSUME NamesAreOwn
  PROVE  Spec => []DocumentedIsWhole
  <1>1. Init => Described
    BY DEF Init, Described
  <1>2. Safe /\ Described => DocumentedIsWhole
    <2> SUFFICES ASSUME Safe, Described, manifest # None, Documented(manifest)
                 PROVE  ImageIsGood(manifest)
        BY DEF DocumentedIsWhole
    <2>1. PICK r \in Releases :
            ManifestIsOf(r) /\ (AsDescribed(r) => dir[r.file] = r.image)
      BY DEF Described
    <2>2. AsDescribed(r) /\ r.image # None
      BY <2>1, ImagesAssumption DEF Documented, AsDescribed, ManifestIsOf
    <2>3. QED  BY <2>1, <2>2 DEF ImageIsGood, ManifestIsOf
  <1>3. QED
    BY <1>1, <1>2, InitSafe, SafeInductive, DescribedInductive, PTL DEF Spec

-----------------------------------------------------------------------------
(* The update as one step *)

\* The slot that is written is not the one that boots, so only a commit moves
\* either image.
LEMMA NodeStepIsAtomic ==
  ASSUME ServerSafe, NodeSafe, Node
  PROVE  [Atomic!Next]_(Atomic!updateVars)
  <1> USE DEF Atomic!Next, Atomic!updateVars
  <1>0. /\ released' = released /\ boot \in AppSlots
        /\ at # "restarting" => flash[boot] = running
        /\ flash \in [AppSlots -> Images \cup {Garbled}]
    BY NodeLeavesServer DEF serverVars, NodeSafe
  <1>1. CASE WakeAndSend
    BY <1>0, <1>1 DEF WakeAndSend, Atomic!Wake
  <1>2. CASE QuietWindow
    BY <1>0, <1>2 DEF QuietWindow, Atomic!Rest
  <1>3. CASE HearDownlink
    BY <1>0, <1>3 DEF HearDownlink, GiveUp, Atomic!Rest
  <1>4. CASE JoinWifi \/ FetchManifest \/ AcceptManifest
    BY <1>0, <1>4 DEF JoinWifi, FetchManifest, AcceptManifest
  <1>5. CASE RefuseManifest \/ RefuseImage \/ Discard \/ StepFails
    BY <1>0, <1>5 DEF RefuseManifest, RefuseImage, Discard, StepFails, GiveUp, Atomic!Rest
  <1>6. CASE Restart \/ PowerLoss
    BY <1>0, <1>6 DEF Restart, PowerLoss, GiveUp, Atomic!Rest
  <1>7. CASE OpenImage \/ StreamImage
    <2>1. Spare \in AppSlots /\ Spare # boot
      BY <1>0, SpareSlot
    <2>2. PICK bytes : flash' = [flash EXCEPT ![Spare] = bytes]
      BY <1>7 DEF OpenImage, StreamImage
    <2>3. flash'[boot] = flash[boot]
      BY <1>0, <2>1, <2>2
    <2>4. QED  BY <1>0, <1>7, <2>3 DEF OpenImage, StreamImage
  <1>8. CASE Commit
    <2>1. flash[Spare] \in released
      BY <1>8 DEF Commit, NodeSafe, SignedIsReleased
    <2>2. /\ at = "hashing" /\ at' = "restarting"
          /\ running' = running /\ flash'[boot'] = flash[Spare]
      BY <1>8 DEF Commit
    <2>3. QED  BY <1>0, <2>1, <2>2 DEF Atomic!Install
  <1>9. QED
    BY <1>1, <1>2, <1>3, <1>4, <1>5, <1>6, <1>7, <1>8 DEF Node, Update

\* An update over the air, whatever fails in it and whatever is published
\* meanwhile, makes a released image the boot target in one step, and the wake then
\* ends in that image, or it changes neither image.
THEOREM OtaImplementsAtomicUpdate == Spec => UpdateSpec
  <1>1. Init => Atomic!Init
    BY DEF Init, Atomic!Init, AppSlots
  <1>2. Safe /\ [Next]_vars => [Atomic!Next]_(Atomic!updateVars)
    <2> SUFFICES ASSUME Safe, [Next]_vars PROVE [Atomic!Next]_(Atomic!updateVars)
        OBVIOUS
    <2>1. CASE PublishManifest
      <3>1. dir[pub.rel.file] \in Images
        BY <2>1, ImagesAssumption DEF PublishManifest, Safe, ServerSafe, NoPublish
      <3>2. \/ released' = released \cup {dir[pub.rel.file]}
            \/ released' = released
        BY <2>1 DEF PublishManifest
      <3>3. UNCHANGED <<running, flash, boot, at>>
        BY <2>1 DEF PublishManifest, nodeVars
      <3>4. QED
        BY <3>1, <3>2, <3>3 DEF Atomic!Next, Atomic!Release, Atomic!updateVars
    <2>2. CASE Node
      BY <2>2, NodeStepIsAtomic DEF Safe
    <2>3. CASE ~PublishManifest /\ ~Node
      <3>1. UNCHANGED <<running, flash, boot, at, released>>
        BY <2>3 DEF Next, vars, serverVars, nodeVars, Publisher, PublishImage, PublishDies,
           Daemon, DaemonReads, DaemonReplies, LosePacket, LoseDownlink
      <3>2. QED  BY <3>1 DEF Atomic!updateVars
    <2>4. QED  BY <2>1, <2>2, <2>3
  <1>3. QED
    BY <1>1, <1>2, AlwaysSafe, PTL DEF Spec, UpdateSpec, Atomic!Spec
=============================================================================
