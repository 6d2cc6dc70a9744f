-------------------------------- MODULE Ota --------------------------------
(***************************************************************************)
(* Firmware over the air, end to end: the publishing tool, the directory   *)
(* it serves, the daemon's update policy, the downlink, and the node's OTA *)
(* client (tools/publish_firmware.py, soundings_gateway/ota.py,            *)
(* firmware/src/esp32/ota_client.cpp).                                     *)
(*                                                                         *)
(* The publisher, the daemon and the node run at once and share only the   *)
(* served directory.  Each of their reads and writes of it is a step of    *)
(* its own, so a publish can fall between any two of them.  The publisher  *)
(* may die between its steps; packets and downlinks may be lost or late;   *)
(* every fetch may fail; the node may lose power anywhere.                 *)
(*                                                                         *)
(* An image is a model value that stands for its bytes and for their       *)
(* SHA-256.  A signature is the key that made it.  os.replace is atomic,   *)
(* and a GET reads the file it opened, so an image is served whole or not  *)
(* at all; what arrives over the air may differ from what was served.      *)
(***************************************************************************)
EXTENDS Integers

CONSTANTS
  Images,      \* the images there are
  Version,     \* Version[b]: kFwVersion compiled into image b
  Size,        \* Size[b]: length of image b
  Releases,    \* what the operator may publish: [image, version, file, key]
  FleetKey,    \* the key the nodes and the daemon trust
  Factory,     \* the image flashed over USB
  MaxPublish,  \* how many publishes are started
  Garbled,     \* bytes of a slot that are no image
  None

Files == {r.file : r \in Releases}
Versions == {Version[b] : b \in Images} \cup {r.version : r \in Releases}
Keys == {FleetKey} \cup {r.key : r \in Releases}
AppSlots == {"app0", "app1"}

ASSUME ImagesAssumption ==
  /\ Factory \in Images /\ Garbled \notin Images /\ None \notin Images
  /\ DOMAIN Version = Images
  /\ \A r \in Releases : r.image \in Images
ASSUME NoneAssumption == None \notin Versions /\ None \notin Nat
ASSUME PublishAssumption == MaxPublish \in Nat

VARIABLES
  pub,        \* the publish in progress and how far it is: [at, rel]
  published,  \* publishes started so far
  dir,        \* dir[f]: the image served under file name f
  manifest,   \* the served manifest.txt, or None
  uplink,     \* the version a packet on its way to the daemon reports, or None
  daemon,     \* the reading being answered and the manifest read for it
  downlink,   \* the flags of a downlink on its way to the node, or None
  at,         \* where in its wake the node is
  running,    \* the image executing
  flash,      \* contents of the two application slots
  boot,       \* the slot the bootloader will start
  wifi,       \* the WiFi radio, "on" or "off"
  fetched,    \* the manifest the node holds
  served,     \* the image the open GET is reading
  released    \* history: images some fleet-signed manifest was served for

serverVars == <<pub, published, dir, manifest, released>>
linkVars == <<uplink, daemon, downlink>>
nodeVars == <<at, running, flash, boot, wifi, fetched, served>>
vars == <<serverVars, linkVars, nodeVars>>

NoPublish == [at |-> "idle", rel |-> None]
Idle == [reports |-> None, read |-> None]

\* The manifest publish() writes for a release: the digest is that of the file
\* as it lies in the directory, the size that of the file it was copied from.
ManifestOf(r) ==
  [version |-> r.version, sha |-> dir[r.file], size |-> Size[r.image],
   file |-> r.file, key |-> r.key]

\* Mutant: the second slot is always the one written.
SpareIsApp1 == "app1"
\* Update.begin() takes the application slot that is not executing, which is the
\* one that does not boot until an update has been committed.
Spare == CHOOSE s \in AppSlots : s # boot

Init ==
  /\ pub = NoPublish
  /\ published = 0
  /\ dir = [f \in Files |-> None]
  /\ manifest = None
  /\ uplink = None
  /\ daemon = Idle
  /\ downlink = None
  /\ at = "asleep"
  /\ running = Factory
  /\ flash = [s \in AppSlots |-> IF s = "app0" THEN Factory ELSE Garbled]
  /\ boot = "app0"
  /\ wifi = "off"
  /\ fetched = None
  /\ served = None
  /\ released = {}

-----------------------------------------------------------------------------
(* publish() *)

\* Mutant: the file is named for the node type and not for the version.
OneName ==
  /\ pub.at = "idle"
  /\ published < MaxPublish
  /\ \E r \in Releases, f \in Files :
       /\ \A other \in Files : f <= other
       /\ dir' = [dir EXCEPT ![f] = r.image]
       /\ pub' = [at |-> "copied", rel |-> [r EXCEPT !.file = f]]
  /\ published' = published + 1
  /\ UNCHANGED <<manifest, released, linkVars, nodeVars>>

\* The image lands under its own name, in one rename.
PublishImage ==
  /\ pub.at = "idle"
  /\ published < MaxPublish
  /\ \E r \in Releases :
       /\ dir' = [dir EXCEPT ![r.file] = r.image]
       /\ pub' = [at |-> "copied", rel |-> r]
  /\ published' = published + 1
  /\ UNCHANGED <<manifest, released, linkVars, nodeVars>>

\* Hashed, signed, and swapped in: the moment the release becomes visible.
PublishManifest ==
  /\ pub.at = "copied"
  /\ manifest' = ManifestOf(pub.rel)
  /\ released' = released \cup
       {b \in {dir[pub.rel.file]} : pub.rel.key = FleetKey}
  /\ pub' = NoPublish
  /\ UNCHANGED <<published, dir, linkVars, nodeVars>>

\* The tool fails or is killed after the image landed.
PublishDies ==
  /\ pub.at = "copied"
  /\ pub' = NoPublish
  /\ UNCHANGED <<published, dir, manifest, released, linkVars, nodeVars>>

-----------------------------------------------------------------------------
(* UpdatePolicy.flags_for(), and the reply it leads to *)

\* A reading arrives; the manifest is read anew for it.
DaemonReads ==
  /\ daemon = Idle
  /\ uplink # None
  /\ daemon' = [reports |-> uplink, read |-> manifest]
  /\ uplink' = None
  /\ UNCHANGED <<downlink, serverVars, nodeVars>>

\* validate_image(): present, that long, that hash, now.
ImageIsGood(m) ==
  /\ dir[m.file] # None
  /\ Size[dir[m.file]] = m.size
  /\ dir[m.file] = m.sha

\* Mutant: only a newer release is an update.
NewerWaiting(m, reported) ==
  m # None /\ m.key = FleetKey /\ m.version > reported /\ ImageIsGood(m)

UpdateWaiting(m, reported) ==
  /\ m # None
  /\ m.key = FleetKey
  /\ m.version # reported
  /\ ImageIsGood(m)

DaemonReplies ==
  /\ daemon # Idle
  /\ downlink' = IF UpdateWaiting(daemon.read, daemon.reports) THEN 1 ELSE 0
  /\ daemon' = Idle
  /\ UNCHANGED <<uplink, serverVars, nodeVars>>

LosePacket ==
  /\ uplink # None
  /\ uplink' = None
  /\ UNCHANGED <<daemon, downlink, serverVars, nodeVars>>

LoseDownlink ==
  /\ downlink # None
  /\ downlink' = None
  /\ UNCHANGED <<uplink, daemon, serverVars, nodeVars>>

-----------------------------------------------------------------------------
(* The node: a wake, and OtaClient::onDownlink() inside it *)

\* Every path out of the client ends here, its locals gone.
GiveUp ==
  /\ wifi' = "off"
  /\ at' = "asleep"
  /\ fetched' = None
  /\ served' = None

WakeAndSend ==
  /\ at = "asleep"
  /\ at' = "window"
  /\ uplink' = Version[running]
  /\ UNCHANGED <<daemon, downlink, serverVars, running, flash, boot, wifi,
                 fetched, served>>

QuietWindow ==
  /\ at = "window"
  /\ at' = "asleep"
  /\ UNCHANGED <<linkVars, serverVars, running, flash, boot, wifi, fetched,
                 served>>

\* A downlink lands in the window, whichever wake it was meant for.  Without
\* bit 0 there is nothing to do; with it, the WiFi radio comes on.
HearDownlink ==
  /\ at = "window"
  /\ downlink # None
  /\ downlink' = None
  /\ \/ downlink = 0 /\ GiveUp
     \/ downlink = 1 /\ wifi' = "on" /\ at' = "joining" /\ UNCHANGED <<fetched, served>>
  /\ UNCHANGED <<uplink, daemon, serverVars, running, flash, boot>>

JoinWifi ==
  /\ at = "joining"
  /\ at' = "joined"
  /\ UNCHANGED <<linkVars, serverVars, running, flash, boot, wifi, fetched,
                 served>>

FetchManifest ==
  /\ at = "joined"
  /\ manifest # None
  /\ fetched' = manifest
  /\ at' = "checking"
  /\ UNCHANGED <<linkVars, serverVars, running, flash, boot, wifi, served>>

\* Mutants: the version is not compared; the signature is not verified.
AcceptedAgain(m) == m.key = FleetKey
AcceptedUnsigned(m) == m.version # Version[running]
\* verifyManifest(), then the version: before anything of the image crosses the
\* link.
Accepted(m) == m.key = FleetKey /\ m.version # Version[running]

AcceptManifest ==
  /\ at = "checking"
  /\ Accepted(fetched)
  /\ at' = "accepted"
  /\ UNCHANGED <<linkVars, serverVars, running, flash, boot, wifi, fetched,
                 served>>

RefuseManifest ==
  /\ at = "checking"
  /\ ~Accepted(fetched)
  /\ GiveUp
  /\ UNCHANGED <<linkVars, serverVars, running, flash, boot>>

\* The GET: no file, or a body whose length is not the manifest's, is refused
\* before Update.begin() touches a slot.
Offered(m) == dir[m.file] # None /\ Size[dir[m.file]] = m.size

OpenImage ==
  /\ at = "accepted"
  /\ Offered(fetched)
  /\ served' = dir[fetched.file]
  /\ flash' = [flash EXCEPT ![Spare] = Garbled]
  /\ at' = "streaming"
  /\ UNCHANGED <<linkVars, serverVars, running, boot, wifi, fetched>>

RefuseImage ==
  /\ at = "accepted"
  /\ ~Offered(fetched)
  /\ GiveUp
  /\ UNCHANGED <<linkVars, serverVars, running, flash, boot>>

\* Written and hashed as it arrives: what was served, or something else.
StreamImage ==
  /\ at = "streaming"
  /\ \E arrived \in {served, Garbled} :
       flash' = [flash EXCEPT ![Spare] = arrived]
  /\ at' = "hashing"
  /\ UNCHANGED <<linkVars, serverVars, running, boot, wifi, fetched, served>>

\* The hash matches, and Update.end() makes the slot the boot target: the old
\* image still executes, with the radio on.
Commit ==
  /\ at = "hashing"
  /\ flash[Spare] = fetched.sha
  /\ boot' = Spare
  /\ at' = "restarting"
  /\ UNCHANGED <<linkVars, serverVars, running, flash, wifi, fetched, served>>

\* WiFi is dropped and the node restarts.
Restart ==
  /\ at = "restarting"
  /\ running' = flash[boot]
  /\ GiveUp
  /\ UNCHANGED <<linkVars, serverVars, flash, boot>>

Discard ==
  /\ at = "hashing"
  /\ flash[Spare] # fetched.sha
  /\ GiveUp
  /\ UNCHANGED <<linkVars, serverVars, running, flash, boot>>

\* Association, an HTTP request, the stream or Update fails or runs into its
\* deadline: the update is over until the next flag.
StepFails ==
  /\ at \in {"joining", "joined", "accepted", "streaming", "hashing"}
  /\ GiveUp
  /\ UNCHANGED <<linkVars, serverVars, running, flash, boot>>

\* The pack sags under the WiFi load, or someone pulls the cell.
PowerLoss ==
  /\ at # "asleep"
  /\ running' = flash[boot]
  /\ GiveUp
  /\ UNCHANGED <<linkVars, serverVars, flash, boot>>

-----------------------------------------------------------------------------
Publisher == PublishImage \/ PublishManifest \/ PublishDies
Daemon == DaemonReads \/ DaemonReplies
Update ==
  \/ JoinWifi \/ FetchManifest \/ AcceptManifest \/ RefuseManifest
  \/ OpenImage \/ RefuseImage \/ StreamImage \/ Commit \/ Restart \/ Discard
Node ==
  \/ WakeAndSend \/ QuietWindow \/ HearDownlink \/ Update
  \/ StepFails \/ PowerLoss

Next == Publisher \/ Daemon \/ Node \/ LosePacket \/ LoseDownlink

Spec == Init /\ [][Next]_vars

\* The node keeps waking.  The link and the server are poor, not dead: over and
\* over, a packet gets through, its reply is made and lands while the window is
\* open, and each step of an update goes through.  Nothing is assumed of the
\* publisher.
InWindow(A) == at = "window" /\ A
GoodStream == StreamImage /\ flash'[Spare] = served
FairSpec ==
  /\ Spec
  /\ WF_vars(WakeAndSend) /\ WF_vars(QuietWindow \/ HearDownlink)
  /\ SF_vars(InWindow(DaemonReads)) /\ SF_vars(InWindow(DaemonReplies))
  /\ WF_vars(Daemon)
  /\ SF_vars(HearDownlink)
  /\ SF_vars(JoinWifi) /\ SF_vars(FetchManifest) /\ SF_vars(OpenImage)
  /\ SF_vars(GoodStream) /\ SF_vars(Commit)
  /\ SF_vars(AcceptManifest)
  /\ WF_vars(Update)

-----------------------------------------------------------------------------
(* Properties *)

Manifests ==
  [version : Versions, sha : Images, size : {Size[b] : b \in Images},
   file : Files, key : Keys]

\* Everything served, sent, fetched or written is of the shape its reader checks.
TypeOK ==
  /\ \/ pub = NoPublish
     \/ pub \in [at : {"copied"}, rel : Releases]
  /\ published \in 0 .. MaxPublish
  /\ dir \in [Files -> Images \cup {None}]
  /\ manifest \in Manifests \cup {None}
  /\ uplink \in Versions \cup {None}
  /\ daemon \in [reports : Versions \cup {None}, read : Manifests \cup {None}]
  /\ downlink \in {0, 1, None}
  /\ at \in {"asleep", "window", "joining", "joined", "checking", "accepted",
             "streaming", "hashing", "restarting"}
  /\ running \in Images
  /\ flash \in [AppSlots -> Images \cup {Garbled}]
  /\ boot \in AppSlots
  /\ wifi \in {"off", "on"}
  /\ fetched \in Manifests \cup {None}
  /\ served \in Images \cup {None}
  /\ released \subseteq Images

\* Whatever the publisher, the daemon, the link and the power do, and however
\* their steps fall between each other: the image a node boots, now or after a
\* power loss, is the one it left the bench with or one whose digest a manifest
\* signed with the fleet key has carried (DEC-013; ota_client.cpp:202-214).
OnlyReleasedImagesBoot == {flash[boot], running} \subseteq {Factory} \cup released

\* The WiFi radio is never left on across a sleep, on any path out of an update
\* (ota_client.cpp:103-107).
WifiOffAsleep == at = "asleep" => wifi = "off"

\* An update in progress never costs the node a whole image to boot: a power loss
\* brings back the running image until Update.end() has moved the boot target, and
\* between there and the restart it starts the new one, the very image whose digest
\* the accepted manifest carried (ota_client.cpp:197-224).
SurvivesPowerLoss ==
  \/ at # "restarting" /\ flash[boot] = running
  \/ at = "restarting" /\ flash[boot] = fetched.sha /\ flash[boot] \in released

\* An update is one step as far as what a reset starts goes: interleaved with
\* publishes, cut short, refused or garbled, it either makes a released image the
\* boot target, and then the wake ends in that image and in no other, or leaves what
\* runs and what a reset starts as they were (DEC-013; ota_client.cpp:141-226).
Atomic == INSTANCE AtomicUpdate WITH onReset <- flash[boot], awake <- at # "asleep"
UpdateSpec == Atomic!Spec

\* A manifest the documented workflow writes: its version is the one compiled
\* into the image, its file the one named for that version.
Documented(m) == m.version = Version[m.sha] /\ m.file = m.version

\* What is served under the manifest's name is what the manifest describes, at
\* every instant of every publish: "a node that polls during the copy sees the
\* previous release" (publish_firmware.py:17-19).
ReleaseIsWhole == manifest # None => ImageIsGood(manifest)

\* The same for a release whose name no other build is published under: neither
\* a publish cut short nor one that overlaps a poll ever unmakes it.
DocumentedIsWhole ==
  manifest # None => (Documented(manifest) => ImageIsGood(manifest))

\* A flag can arrive after the update it stood for: a late or repeated downlink
\* never makes a node flash the version it is already running, so a mismatch that
\* has cleared stays cleared (downlink-v1.md:99-115, ota_client.cpp:270-280).
\* An image released under a version it was not built with is the exception.
NeverReflashed ==
  [][boot' # boot /\ fetched.version = Version[fetched.sha]
       => Version[flash'[boot']] # Version[running]]_vars

\* Convergence: once what is served stays a release made as documented, every node
\* ends up running it, however many flags, fetches and wakes were lost on the way
\* and whatever was published before it, and stays on it.
Serves(b) == /\ manifest # None
             /\ manifest.sha = b /\ manifest.version = Version[b]
             /\ manifest.key = FleetKey
             /\ ImageIsGood(manifest)
Converges ==
  <>[](\E b \in Images : Serves(b)) => <>[](\A b \in Images : Serves(b) => running = b)
=============================================================================
