# Soundings, in TLA+

Soundings is a farm sensor network. A battery node wakes, samples its sensors,
sends one LoRa packet, listens briefly for an answer and sleeps. A gateway radio
board bridges LoRa to USB serial and knows nothing of what it carries. A daemon
behind it decodes readings, publishes them over MQTT and answers packets with a
downlink, whose one flag tells a node that a new firmware image waits on an HTTP
server. A consumer ingests the documents into a time-series database.

Beside it the repository keeps its own memory: decisions, one to a file, that retire one
another over the years; documents that cite them; a dictionary; and a set of scripts that
generate some of that, and refuse a commit that breaks the rest.

This directory holds TLA+ modules translated from that code, the TLC
configurations that check them on small instances, and TLAPS proofs of what
matters most for every value of the constants. Paths below are relative to the
repository's root; `PROJECT.json` gives, for every definition, the lines it models.

To check a run: `tlc -config Ota.cfg MCOta`. To check proofs: `tlapm OtaProofs.tla`.

- [The system](#the-system)
- [The modules and the code](#the-modules-and-the-code)
- [The runs](#the-runs)
- [Fairness](#fairness)
- [The proofs](#the-proofs)
- [What the checks found](#what-the-checks-found)
- [Not modelled](#not-modelled)
- [What could come next](#what-could-come-next)

## The system

| Component | Code | State it keeps | Operations | What makes it correct |
|---|---|---|---|---|
| Wake cycle | `firmware/src/core/runcycle.cpp` | `seq` in RTC memory; everything else dies at each sleep | assemble, transmit with retries, listen, handler, retire, sleep | always sleeps, within a bound; a hole in the numbers is a lost packet; listens often enough; says what it could not read |
| Sensor binding | `sensor_registry.cpp`, `tank_preset.cpp` | slots, built at boot | bindManifest, tankPreset | every declared channel has a sampler that answers or faults |
| Headspace probe | `core/ds18b20.cpp` | one RTC flag; the probe's RAM and EEPROM | read, heal | a published temperature is this read's own; the EEPROM outlives the node |
| Distance sensor | `core/a02yyuw.cpp` | parser's bytes, samples | read, feed | a published distance is one the sensor measured off the water |
| Sensor rail | `esp32/vext_rail.cpp`, `ipowerrail.h` | one GPIO level | on, off | up for exactly a read |
| LoRa radio | `esp32/sx1262_radio.cpp` | the chip's mode and its single receive buffer | send, startReceive, poll, receive | never deaf; every packet read out |
| Radio board | `gateway/main.cpp`, `gateway_bridge.cpp` | nothing but its phase and half a frame | pump, poll, await, relay | answers in the node's window; loses no reply |
| Serial envelope | `serial_framing.cpp`, `framing.py` | a partial frame | encode, feed | two readers agree; a damaged frame costs a bounded number of others |
| Packet codec | `codec.cpp`, `packet.py` | none | serialize, deserialize, encode, parse | inverse of one another; damage refused |
| Gateway daemon | `gateway.py`, `downlink.py` | counters, reply in hand | run, respond | one reply for a packet that needs one, soon enough |
| Update policy | `ota.py` | none: reads the served directory each time | flags_for, validate_image | flags a node only when the image is whole, signed and different |
| Publishing tool | `tools/publish_firmware.py` | the served directory | copy, sign, rename | never serves half a release |
| OTA client | `esp32/ota_client.cpp`, `fw_manifest.cpp` | two app slots, the boot pointer, WiFi | join, fetch, verify, stream, commit | only a signed image whose digest matches ever boots; a power loss anywhere leaves a bootable node |
| Publish and derive | `publish.py`, `derive.py`, `tank.py`, `tension.py`, `vpd.py` | none | envelope, derive | a fault never becomes a number |
| Spine and ingest | `spine.py`, `ingest.py` | two MQTT clients, counters, the database | run, handle, drain | what is stored is what a sensor said; the pipeline itself loses nothing; it ends |
| Decision record tools | `scripts/split-decisions.mjs`, `gen-decisions-baseline.mjs`, `gen-decisions-index.mjs`, `check-decisions.mjs`, `lib/records.mjs` | `docs/decisions/`, its archive, the frozen baseline, the index, blocks in the specification | split, freeze, generate, check; and by hand: write, retire, convert, archive, delete, merge | a retired decision leads to the live one; a frozen one never changes; generating loses nothing and heals a run that was killed |
| Document gates | `scripts/check-context.mjs`, `check-docs.mjs`, `check-denied.mjs` | none: the documents, `.claude/doc-check.json`, the permission policy | check | what a document points at is there; a declared rule is enforced; no verdict depends on whose checkout it is |
| Dictionary gate | `scripts/check-dictionary.mjs`, `gen-dictionary.mjs`, `gen-dictionary-baseline.mjs` | `docs/dictionary.yml`, its page, the first day's vocabulary | adopt, generate, check | new vocabulary is registered; forbidden words only get rarer; nobody is asked to edit what he may not |

How they meet:

- **Node and gateway** share a radio channel and a deadline: the node's receive
  window opens when its packet leaves and shuts 250 ms later whatever happens.
- **Board and daemon** share a cable on which frames have no boundary but their
  header, and the board waits only so long before it serves its radio again.
- **Publisher, daemon and node** share the served directory and nothing else; each
  reads it at moments the others do not choose.
- **The two sensor drivers** share one switched rail, one after the other on one thread; each powers it as if it were its own,
  and must leave it down, whatever failed, for the other and for the sleep.
- **Publisher client, broker, ingest client and database** form a pipeline of four
  queues, each of which may drop what it holds.
- **Record, generator and gate** read the same frontmatter with three parsers of different
  strictness; the generator writes back what it read, and the gate compares the disk with
  what the generator would write now. **Branches** change records apart and meet in a merge nobody checks.
- **The three document gates and the dictionary gate** each read their own subset of one set of
  documents, in checkouts that hold different untracked files and ignore different ones.

What is hard here is what those meetings make possible: a publish between two reads
of a manifest, a power loss between two flash writes, a reply that straddles two
windows, a packet landing while the board transmits, a probe that is lying about
being finished, a parser locked one byte late, a SUBSCRIBE not yet acknowledged when
the first document goes out, counters that wrap or restart; two branches that retire one
decision, a generator killed between two files, an archive that moves what is frozen, a
build directory that makes a dead path live on one machine. `PROJECT.json` lists
the hazards one by one, each at its line, with the properties that would catch it.

## The modules and the code

Common abstractions. Payloads, images and names are members of small sets. A blocking
call is a step that takes any time up to a named bound. Configuration is a CONSTANT
with a named ASSUME no stronger than the code justifies. Definitions whose comment begins
`Mutant:` are defects a change to that line could introduce; nothing uses them except
`PROJECT.json`'s mutants, which show that each property notices one.

**`RunCycle`** is `RunCycle::runOnce()` whole. Its actions are the code's phases in
order: `Wake` (the packet takes its number), `PassOver`/`SampleSlot` (one turn of
`assemble()`'s loop), `Assembled` (the codec accepts or refuses), `SendOk`/`SendFailed`/
`SendBusy` (one turn of `transmit()`'s loop), `SkipListen`/`Listen`, `HandlerReturns`,
`Retire`, `Sleep`. There is no loop in the program: deep sleep resets the processor, so
`Wake` resets every variable but those in RTC memory. `Restart` is any other reset, the
OTA client's included. `heard`, `spent` and `deaf` are history: what the gateway knows.
The arithmetic of `seq` and of the sleep is done in words of `SeqMod` and `Word` values.

**`WakeLedger`** is what the node promises about numbers and nothing else: at most one
packet per number, retired heard or not, none spent when none was built. `RunCycle`
implements it (`LedgerSpec`, checked and proved).

**`Ota`** puts the publishing tool, the daemon's policy, the link and the node's OTA
client side by side. An image is a model value standing for its bytes and their SHA-256;
a signature is the key that made it. Each read and write of the served directory is its
own step, so `PublishImage` and `PublishManifest` may fall anywhere among
`DaemonReads`/`DaemonReplies` and the node's `FetchManifest`/`OpenImage`/`StreamImage`.
`PublishDies`, `LosePacket`, `LoseDownlink`, `StepFails` and `PowerLoss` may happen at any
point of it. `flash`, `boot` and `running` are the two app slots, the pointer in otadata, and the
image executing: `Commit` is `Update.end()`, which moves the pointer while the old image runs, and `Restart`
what executes the new one. `Releases` includes the documented workflow and operators who break it:
a version reused, a file name reused, another key.

**`AtomicUpdate`** is what an update promises about images and nothing else: what a reset
would start changes in one step, at most once in a wake, to a released image, and that wake ends by starting it;
nothing else that happens in a wake, the power going included, changes what runs or what a reset would start.
`Ota` implements it (`UpdateSpec`, checked and proved). That a power loss in mid-update starts the running image until the
pointer has moved, and the verified one from there to the restart (`SurvivesPowerLoss`), is proved beside it.

**`SerialFraming`** puts the board's byte-at-a-time reader and the daemon's chunked reader
on one stream. `BoardScan` and `DaemonScan` are recursive functions over the bytes held,
one per implementation, each following its own code's order of tests. The writer frames payloads
(including ones that contain headers), writes noise between frames, and may be reset once
in the middle of one. Every stream is read in every chunking.

**`GatewayBridge`** composes radio, board, cable, daemon and nodes. The chip has one buffer
(`rxBuf`) and a mode (`chip`); the board a phase (`pc`) and the half frame its reader holds
(`half`); a frame on the cable is two halves so that it can straddle windows.
`Tick` passes time only when nothing is ready, so the board's own execution takes none.
`due` and `reached` are history: which packets were answered within the budget, and which
answers the node heard whole.

**`Ds18b20`** is `Ds18b20Temp::read()` one bus transaction at a time, against a probe that may
be absent, slow, lying about being done, at another resolution, or deaf to a write.
**`A02yyuw`** is the parser and the read, against a sensor that talks whether or not
anyone listens. **`RailedRead`** is what both promise about the rail. **`TankSensors`**
INSTANCEs both drivers over ONE rail variable and samples them in `tankPreset()`'s order;
the composition implements `RailedRead` too.

**`Telemetry`** follows a reading from the air to the database: `TakeFrame` (every check of
`packet.parse()`, on frames damaged in any field), `Publish` (`envelope()`, `derive_reading()`,
and the two kinds of MQTT message), `BrokerTakes`, `BrokerAcks`, `Handle` (`reading_to_line()` and a write that
may fail), and the drain. A document carries the simulated `ts` and no time of receipt (`publish.py:76-87`), so
`ingest.py:47-49` writes its points without a time and the database gives them that of their arrival (`clock`): two
wakes may share an instant, and a document sent again after a reconnect, its acknowledgement having been late, is a further set of points. `writes`
is history: when each document was written. A derived value is represented by its metric and the channels it
was computed from with their values; the gates (role, fault, range, band, curve domain) are the code's, the curves'
numbers are not. `truth` is history: what each frame's node had measured.

**`DecisionText`** is one record's text and who reads it. A file is the sequence of its frontmatter's lines,
each of one of the shapes the generator's patterns tell apart, whether it was saved with CRLF, and the ids
its body cites. `parseYaml` is what the gate reads (js-yaml behind `lib/records.mjs`),
`parseFrontmatter` what the generator reads; `renderDecision` is what it writes, and `renderSpec` and
`stripSpecBlocks` the blocks it keeps in the specification.
**`Succession`** is `supersessionProblems()`: the four findings on the two halves of a retirement, and in `OneStepToLive` what they are for.
**`DecisionGate`** is the whole corpus under both programs: `load` and `generate`, and `check()` as the union
of its findings (`ContentProblems`, and `Stale` for what the generator would write differently).

**`DecisionRecord`** is the life of that corpus. `Split` and `GenBaseline` adopt it, from a monolith; `Gen` plans
what the generator will write, and `Write` writes one file of it, so that `Killed` may fall between any
two. `NewRecord`, `Mark`, `Retire`, `Reword`, `Withdraw`, `Convert`, `Archive`, `Delete` and `CutSection` are
people, in any order, typing slips included: a record without a schema key or a title, a misspelt key, an amendment without a scope, a comment
behind a value, a list written as a scalar, CRLF.
`Commit` asks the gate to be green; `Park` leaves a green branch aside, and `Merge` is git's three-way
merge, after which nothing has been run: the baseline and the index line by line, records and the specification as whole files, so
that two branches that changed different lines of one of these conflict here where git might merge them.
A merge that conflicts is resolved in some way; what makes it a *clean* one is `merged`.

**`References`** is `sectionMatches` and `resolves`, with the ignore rules that decide what of a path counts.
**`Vocabulary`** is the dictionary gate: the dictionary's own rules, excluded words, the two baselines.
**`DocGates`** is every check of the three gates and of the dictionary over a repository `c` and a checkout
`k`: a document is the set of what the gates' patterns find in it, and `.claude/doc-check.json` says which
documents are rosters, runbooks, historical, or quote other repositories' decisions.
**`Documents`** is the life of that: `Adopt`, and then whatever people write, add, remove, move, register, deny,
declare and undeclare, and `Commit` of what `npm run verify` passes. `firstDay` is history.

## The runs

| Run | Instance and bounds | Why that is enough | What it shows |
|---|---|---|---|
| `run_cycle` | 4 numbers, listen every 3rd, 2 retries, two bindings (one with an unserved channel and an empty slot, one the codec refuses), 16-value words | the counter wraps many times, 3 does not divide 4, a retry can meet either bound, the jitter (6) is wider than the interval (4) | wakes are bounded; holes are losses across the wrap; the listen schedule survives the wrap; faults are declared; the ledger is implemented; a wake ends |
| `ota` | 3 images, 5 releases (2 documented, 3 that break the rules), 2 publishes | two publishes are the least that overlap an update and each other; the tool can die in either | only released images boot; a power loss is survived everywhere; documented releases stay whole; no version is flashed twice; an update moves the boot target once, to the image the wake then ends in, or not at all (`AtomicUpdate`); nodes converge |
| `ota_republish` | the same | | expected violation, see below |
| `serial_framing` | payload lengths 1..3, 11 bytes, four payloads of which two hold sync bytes | room for a cut frame and the frames it swallows; as with 6..46, the longest payload is no multiple of the shortest frame | at any chunking the two readers agree, account for every byte and never fill their buffers; losses are bounded |
| `gateway` | 1 node, 6 packets, ticks of 50 ms, a daemon that takes up to 11 where the board waits 8 | an answer can be late into the next window, and the ones after it; packets come while the board transmits or awaits | the gateway is never deaf; replies keep their order; an answer within the budget is heard; the poll never wedges; replies leave |
| `headspace_probe` | 4 configuration bytes, 5 temperatures at the edges, 6 conversion times, 2 power-ups | the instants are both sides of every wait in the driver | a reading is this conversion's; faults have causes; EEPROM wear is bounded |
| `distance_sensor` | 3 levels with awkward bytes, 1 echo in range, 1 damaged byte, 3 samples | fewer echoes than half the samples, a lock at any of the four offsets | the median lies between two distances off the water; that it is the middle of the sorted samples, and `SumsTell`, are evaluated first |
| `tank_sensors` | both drivers, small | every end of one read meets every end of the other | the shared rail is up for exactly a read; a wake ends |
| `telemetry` | 2 frames of any of 5 wakes or damaged ones, 2 dropped connections, a database clock that moves at a write or does not | a document resent, one lost and one in order, at one instant or two, with either end of the numbers | every stored point is of a wake whose document was written at its instant, and every one shown or on its way is what was measured; holes have causes; the spine ends |
| `decision_record` | a monolith of two decisions still to be split, or the same adopted with a v1 record beside it; five ids, one under two file names; 2 edits, 1 of them left to the unsplit one | two retirements of one decision on two branches take one edit each; the split and the generator die between any two writes | retirements resolve; frozen records are as adopted; the split loses nothing; the generator heals what a kill left, and moves, adds or drops no entry of a list; a clean merge needs no regeneration; every live record can be retired |
| `decision_flow` | the same, with one record in flow style | | expected violation, see below |
| `documents` | 13 documents in ten kinds of place, with and without a dictionary, a roster, a runbook; 18 things to write and two dozen kinds of edit; 12 checkouts; adoption and then 2 edits | most findings relate two places, and two edits reach any pair; the properties try a further edit themselves | a finding nobody may edit away is one quoted out of a frozen record, and archiving that record clears it; new jargon is registered; forbidden words get rarer; archiving breaks no citation; what is declared is enforced; no checkout passes what a fresh one refuses |

Deadlock is checked everywhere except in `serial_framing`, whose stream has an end, and
in `telemetry`, whose program has one. In `documents` the action `Done` stands for the end of
the story, when the bound on edits is reached.

In `gateway` the times are rounded against the code: 165 ms of packet airtime to 4 ticks, 110 ms of
downlink to 3. `DaemonMax > ReplyWindow` so that late answers happen, and `Budget = 1` is what is left of the
node's window once the downlink's airtime and the board's turn are taken from it. The run has one node
because `AnsweredInTime` is a promise to a node alone on the air (`OneInTime` is the hypothesis of its theorem): while the board awaits one node's reply
(`main.cpp:121-131`) another's packet waits in the chip, a cost DEC-011 accepts. The other theorems of
`GatewayBridgeProofs` hold for any number of nodes.

What the two runs of the tooling assume:

- `decision_record`: the record is adopted in the documented order, split, generate, freeze, and the baseline is
  never generated again; the commit the story starts from is green (`GrownAssumption`); ids stand without quotes;
  lists are in block style or, by a slip, a scalar (flow style is `decision_flow`). `GenBaseline` is guarded by that order, which the script
  itself does not check. A record's date and note are abstracted. A kill falls between two writes, never inside one.
- `documents`: `gen:decisions` has been run, so the index and the specification hold what the records say
  (`DecisionRecord` is about when it has not). No document holds a glob that could match ignored files (`ItemsAssumption`), and a
  checkout holds, beyond the repository, only what the repository ignores (`CheckoutsAssumption`). Git's precedence of nested ignore
  files and of untracked ones is not modelled. No roster quotes, in the instance, a record by its scope. One frozen record of the instance is quoted by its title into the index and by its scope into the specification.

## Fairness

- `RunCycle`: weak fairness of the node's own steps. The program has no loop and every call it
  makes returns within its bound; the RTC timer is armed before the sleep. Nothing is asked of radio, link, gateway or power.
- `Ota`: weak fairness of waking and of the daemon, strong fairness of each thing that may fail:
  a packet heard in the window, its reply, the join, each fetch. This is a poor link, not a dead
  one: each is tried over and over at every wake (that is the code's only retry) and
  succeeds in the end. `GoodStream` asks that a whole image arrives sometimes. Nothing is asked of
  the publisher, so it may stop for ever between copy and rename.
- `GatewayBridge`: the board's `loop()`, time, and the daemon's begun writes. A daemon that dies is allowed.
- `TankSensors`: the drivers never block and their clock moves.
- `Telemetry`: the main thread and its clock, nothing of the broker, connections or database.
- `DecisionRecord`, `Documents`: none. Nobody has to run a tool or to commit; `AlwaysRetirable` and `Actionable` say
  instead that what must be possible is, in every state, by showing the edit.

## The proofs

| Module | Argument |
|---|---|
| `RunCycleProofs` | `IInv` is inductive: `TypeOK`; the clock's bound phase by phase (`ClockInv`: what each phase can still add); what a send leaves behind (`SendInv`); that `seq` is `heard + spent` modulo the width (`NumberInv`); the declared set at each slot (`PacketInv`); that a refused binding never sends (`RefuseInv`); the nap. `WakeBounded` alone is not inductive: it says nothing of how much of the budget later phases need. The cadence (`CadenceInv`) is that the wakes since the last one due to listen are what is left of the number by the cadence; number zero listens, so the wrap only ever shortens a turn. |
| `OtaProofs` | `Safe` is inductive: what may be served (`ServerSafe`), what is in flight (`LinkSafe`), and, in each phase of an update, which slot is being written and that it is not the one that boots (`NodeSafe`). `NeverReflashed` needs `Mismatched` besides: from the check of the manifest to the commit a node holds a manifest of a version it does not run. `DocumentedIsWhole` needs `Described`, that the served manifest is some release's and, if that one is documented, its file holds its image. The refinement of `AtomicUpdate` follows action by action: no write goes to the slot that boots, only a commit moves what a reset starts, and only a reset what runs. |
| `GatewayBridgeProofs` | `TypeOK` with `CountedWhenSent`; `InStep` relates the frames written to those relayed, the half held and the cable, so that order follows; `NeverDeaf` is inductive as it stands. `AnsweredInTime` follows one packet (`Prompt`): at most one is between the chip and the cable (`OnePacket`), an answer on its way still fits the window (`WindowOpen`), and the clocks of node, daemon and board never let the next packet find the board busy (`Paced`). |
| `SensorProofs` | For the probe, `Inductive`: types, what the driver holds between two transactions (`InHand`), wear, power, and the two reading properties; the rail's refinement follows step by step. For the two drivers together, `OneTurn`: whose turn it is says which may be in a read, and the rail is up exactly while one is, so each action of one driver is a step of the rail's specification because the other is idle. For a distance reading, `MedianInv`: no byte is parsed before the sensor has settled and four go into a discard (`Paced`), so by the time the sensor is warm the discards are over; the bytes in hand are the last ones heard, as many of them wrong as were damaged (`Heard`), so a group with a right sum is the frame just heard or off the water (`Trusted`, from `SumsTell`); and a false echo about to be delivered has been counted or will be discarded (`Pending`). Hence fewer than half the samples are false, and a median of such a list lies between two true ones (`MedianOffTheWater`). The property says nothing of the bytes in hand, so it is not inductive. |
| `SerialFramingProofs` | The readers are recursive functions, so first what recursion gives: that every non-empty set of sizes has a least (`LeastNatural`), from it induction and recursion on the length of the bytes held (`LengthInduction`, `LengthRecursion`), from these the two readers' defining equations. Then what one reader's `feed()` leaves and gives does not depend on where the stream was cut (`ChunkByChunk`), nor on which reader it is when the bytes come one by one (`ByteByByte`, `BoardConserves`). `Agreement` is inductive: had the daemon now read what is in its port, it would be where the board is (`Behindhand`), and every byte is somewhere (`Accounted`). For losses, `Recovery`: after a cut a reader of plain payloads holds half a header (`Stub`), waits for bytes it will take from whatever follows (`Absorbing`), has stopped taking inside a frame (`OutOfStep`) or is in step; while it absorbs, the whole frames lost so far, the bytes it still waits for and what it has taken of the current frame fit together in the one payload that was cut. `LossBounded` says nothing of bytes, so it is not inductive. |
| `TelemetryProofs` | `Inductive` follows a reading: an ideal checksum makes a frame that parses one some wake encoded (`EncodedFields` and what follows it), so what the daemon holds is true of that wake, and each queue after it only copies. What the broker has taken but not acknowledged is in two places at once, so it is accounted for without the publishing client (`TakenHasPassed`): the acknowledgement may then forget it. A hole is accounted for because each place a document can leave has its counter or its history. |
| `DecisionRecordProofs` | Only `Commit` changes `base`, and what it commits is green. From a green gate: each of `Succession`'s findings is empty, so both halves of every retirement agree (`Paired`) and one step leads to a live record (`EveryCommitResolves`). For the frozen records `FrozenInv` is needed: no tree, neither the working one, the branch set aside, nor what a tool is about to write, has a baseline line that was not adopted; it has one lemma for writes, one for edits, one for merges. For the split, `SplitInv`: until adoption a tree has all its records, or has no preamble and still the monolith (`Held`), the preamble being what the generator will not start without. For merges, `LandedInv`: both branches and their base are fresh, each row of an index belongs to the record of its id, so a line kept by git is the row of the file kept by git. The specification needs more: that every text is a list of lines, through every edit, write and merge (`CorporaInv`); that a rendered specification tells its edges (`EdgesFromBlocks`), since a block ends at the first closing line and what follows a heading without a block cannot start one; and that an edge names the record it comes from, so that edges merge as files do (`MergedEdges`). Then the merged specification is the one rendered from the merged records (`MergeOfLanded`). Induction and recursion on a length are derived from the least of a set of sizes. |
| `DocumentsProofs` | `VocabularyInv`: the baseline holds only what the first day's prose said, and a green commit says only what is registered, exempt or there (`RegisteredOrOld`). `NoAmnesty`: what a baseline allows is the first day's count (`AllowedIsFirstCount`), so the gate is `Ratchet` (`NoLooser`). `FreshIsStrictest`: the repository's own last matching pattern decides (`TrackedDecides`), a checkout's own patterns only ever hide more (`OwnPatternsOnlyHide`), so a path dead in a fresh worktree is dead everywhere (`DeadEverywhere`); `ItemsInv` keeps every document's items among those the assumptions speak of. `ArchivingIsFree`, `DeclaredIsEnforced` and `Actionable` are about one more edit of a clean tree: the clause lemmas (`DocsClean`, `ContextClean`, `DeniedClean`) say what each gate's silence means, and what the edit leaves is shown to keep it; for `Actionable`, that in a tree that declares nothing a finding is in a page with text (`FindingsHaveText`), and that such a page, once what may be edited is gone, says only what is quoted from frozen records (`ClearedQuotes`), which, once these are archived, is nothing (`ClearedIsBare`); `IndexInv` is that nobody writes in the index by hand. |

The theorems are listed in `PROJECT.json`. They hold for every value of the constants that satisfies the
named assumptions: `SeqModAssumption`, `BindingsAssumption`, `TimesAssumption`, `WordAssumption` (the sleep
fits the word), `NoneAssumption` in `RunCycle`; that the factory image and whatever is released are images in `Ota`;
that payloads are byte strings, and that the sync bytes differ, are no legal length, and the first of them is no noise, in `SerialFraming`; natural times, and that no packet and no half frame is `None`, in `GatewayBridge`; wakes with 16-bit numbers whose channels either answered or failed, and a `None` that is none of them, in `Telemetry`; that a 12-bit conversion and a turn of the loop fit under the deadline, and that
the power-up value reads the same at every resolution, in `Ds18b20`; that the levels are in range, an echo fits in sixteen bits and a damaged byte in eight (`Configured`), in `A02yyuw`; that the committed start is green, there are finitely many file names and each maps to an id, each decision of the monolith has a file name, prose is
a sequence of headings with their text and a typed list is finite (`TextAssumption`) in `DecisionRecord`; and in `Documents` those on vocabulary, items and checkouts above, that there are finitely many documents and things to say, that the index is all generated and that the policy denies some prefix. TLC evaluates each on the runs.
The type invariants, the sleep's jitter (`NapWithinJitter`), that a refused binding is silent (`UnservableIsSilent`), that WiFi is off
asleep (`WifiOffAsleep`), that a healthy probe is not written (`HealthyProbeNotWritten`) and the rail kept by the probe's driver alone are
theorems and no longer run: the proofs say more.

Seven theorems have a hypothesis of their own, stated at the theorem and true of the instance its run checks:

- `DocumentedStaysWhole`: no other build is published under a documented release's file name (`NamesAreOwn`); without it the
  property fails, and `ota_republish` shows how.
- `AnswersReachTheWindow`: one node, a downlink that fits in what `Budget` leaves of the window, and a daemon and a reply window
  shorter than the node's cycle (`OneInTime`). With several nodes the promise is not made.
- `ReadingOffTheWater`: a frame is discarded after the settling time, and an eight-bit sum tells what the wire may do to a frame
  (`Trustworthy`): what passes it, wherever the parser locks and whichever bytes are damaged, is off the water or the frame's own distance.
  The code discards three (`a02yyuw.h:71`). With none the property fails: a frame the sensor began before it had settled
  is collected. What the sum is trusted with is `SumsTell`, a statement of the levels, echoes and damage alone, which no levels, echoes and
  damage in general satisfy; TLC evaluates it on the instance.
- `NoDecisionIsLost`: `Absent` is no file, which of a model value goes without saying (`AbsentIsNoFile`).
- `CleanMergeIsWritten`: an id keeps its file name (`OneNamePerId`). Were one branch to rename a record and the other to delete it, the
  file would be kept and its row dropped.
- `ArchivedStaysCitable`: what the generator writes holds no headings and the specification is no roster (`QuotesAreNoHeadings`, `RostersAreWritten`).
- `DeclarationsHold`: nobody's skill or agent is called by the name retired ones go by (`RetiredIsGone`).

Model-checked only: of the record, `GenHeals`, `EntriesStay` and `AlwaysRetirable`; and liveness, the provers having
no `ENABLED`. The provers instantiate no theorem that takes an operator, so the library's induction is of no use to them;
`SerialFramingProofs` and `DecisionRecordProofs` derive induction and recursion on a length from the least of a set of sizes instead.
Of `GenHeals`, that the gate is then content is not true of all constants: a draft in flow style breaks it, which is the second finding below;
the stronger `RoundTrips` is broken in either style. `AlwaysRetirable` is about a gate's verdict on a
corpus edited once more, and would need each of its clauses followed through that edit.

## What the checks found

Two runs expect a violation. The first is a statement of the documentation that the code does not keep; the
second is a defect against the code's own comments.

1. `ota_republish`. `publish_firmware.py` says a node that polls during a publish sees the
   previous release. When a build goes out again under a file name already served, `os.replace` of
   the image comes before the manifest's, and in between the served manifest describes bytes that
   are gone. Nodes refuse such an image, so nothing unsafe boots; a tool that dies there leaves
   the release broken. `DocumentedIsWhole` shows that the documented workflow is free of it. That
   property takes for granted that undisciplined releases use file names of their own.
2. `decision_flow`. A v1 record that spells a list in flow style, `supersedes: [DEC-…]`, as `check-decisions.mjs:385-386`
   itself spells it to its author, is read whole by the gate and as having no list by the generator, which then writes the record back
   without the key (`gen-decisions-index.mjs:167-186`), and the gate, stale until then, asks for that. In block style the generator still does not write back all it was given: a missing title becomes
   `title: "undefined"` (`:394`) and a list written as a scalar, `supersedes: DEC-…` without its dash, is dropped, each taking the gate's finding about it away; a comment behind
   a value is quoted into the value; a missing scope is written as an empty one (`:417`). So `RoundTrips` fails with each of these slips too. What `decision_record` shows
   of the generator, with those slips among the drafts, is `EntriesStay`: it never drops, adds or moves an entry of a list it can read.

Also met while modelling, without a run of their own:

- `ihealattemptflag.h:5-6,17-18` describes a flag for an attempt that failed, success being confirmed by a rail cycle;
  `ds18b20.cpp:170-186` sets it before the attempt and confirms nothing. `WearBounded` holds because of that;
  a write that was lost is not tried again until the next power-up.
- `main.cpp:92-94` and `tank-level-sensor.md:202-204` say the distance sensor is unpowered while the probe converts; both
  hang off one rail (`HARDWARE_BUILD_PLAN.md:803`), as `TankSensors` has it, so it is powered then too, and nobody listens to it.
- `publish-v1.md` calls (node, seq) unique over any window shorter than 65535 wakes. The number starts
  at zero after a power loss and after every OTA restart, which is why `GapsAreLosses` begins again there.
- `spine.py:14-16` says points are stored under the simulation's receipt time. What it publishes has no `received_at` (`publish.py:76-87`), which is the only time
  `ingest.py:47-49` reads, so the database stamps their arrival. A document sent twice is two points, and the newest point of a node need not be of its newest wake.
  `StoreIsTrue` and `HolesHaveCauses` are stated of the instants a document was written at, which is what the store can keep.
- `spine.py`'s `authenticate` promises to fail the connect loudly; `on_connect` sets the event whatever the reason code.
- An image published under a version it was not built with is flashed again on every flag (`ota.py:280`): nothing compares the two, and `NeverReflashed` excludes it by hypothesis.
- `soundings.toml` maps node 1 as the tank and `main.cpp` builds node 7: an unmapped node's readings are stored raw and derive nothing.
- A manifest the registry refuses to bind leaves a packet with no channels and no faults, where the comment at `main.cpp:208-211` says the worst case is a packet full of fault bits.
- The spine's exit status counts writes, so a document handled twice can hide one never handled.
- The contract and its test bound what a cut frame costs by the frames that *fit* in the bytes it absorbs. The frame after them is
  absorbed in part and lost as well: the bound is a ceiling, and `LossBounded` states the one that holds.
- The distance parser, after a bad sum, drops all four bytes (`a02yyuw.cpp:51-57`). For distances whose checksum is 0xFF it can
  lock again one byte late for as long as the level stays; the read then faults, and reports no false distance in the bounds checked.
- `check-context.mjs:195-196` says a fresh worktree and a working checkout agree. They may still disagree in three ways, which
  `NothingPassesOnlyHere` excludes by its hypotheses or allows in its direction: a directory at the top that exists
  only in some (`check-context.mjs:74-86` takes a path under any other for no claim), a glob, which is looked for on the disk and so matches
  ignored files, and an owner who ignores a parent of a tracked directory.
- A frozen record's title and its amendments are generated into the index and the specification (`gen-decisions-index.mjs:310-313`, `448`), which the
  dictionary gate and `check-denied.mjs` read like any page. A word or a command forbidden later turns up there, and no edit anybody may make
  to a page or a record takes it away; `check-dictionary.mjs:139-140` says a gate never asks that, and leaves out the records themselves for that reason.
  DEC-006, DEC-009 and DEC-012 are quoted so. `Actionable` therefore does not say that every finding can be edited away. It says where those that
  cannot are, in the index and in the specification's blocks and nowhere else, and that archiving the frozen records quoted there, which moves them and changes no byte, clears the tree. `MCDocuments` has
  such a record, with a word and a command that the dictionary and the policy come to forbid.

`MedianSurvives` rests on `SumsTell`: bytes of two neighbouring frames can have a right sum if the distance changes by more than a
metre between them, which the levels checked do not. Nor does it say more than it can of a damaged frame whose sum still fits: such a
distance lies between two true ones in the instance, and a sum of eight bits promises no such thing of every wire.

## Not modelled

- `bindManifest`, `tankPreset` and `configFromManifest`: sequential table lookups; `RunCycle` starts from any slots they could return.
- The node's and the daemon's byte layouts, and the firmware manifest's text: the modules take messages as decoded. Both
  sides are pinned by golden vectors in `contracts/`, and a layout has no state for a model checker to reach.
- CRC-16 and the sensors' CRC-8: a checksum is ideal, or the bytes it covers. What they detect is arithmetic with tests of its own.
- Ed25519 and SHA-512: 256-bit arithmetic, tested against published vectors.
- UART buffering, 1-Wire microseconds, the pad hold on the rail's gate: below the level where the properties live.
- The numbers of the tank, tension and vapour-pressure curves: which inputs may be used is modelled, the floating point is not.
- The regular expressions by which the document gates find a path, a citation or an acronym in prose, brace expansion in paths,
  slugs, the wording of findings and advice: a document is already the set of what they find.
- Bench sketches, the synthetic fleet, the generators of golden vectors and build identifiers, deployment files.

## What could come next

1. The first half of `GenHeals` for every constant: that the generator reads back through its own parsers what it has written.
2. A specification of the store ("a set of true readings that only grows"), implemented by `Telemetry` as `AtomicUpdate` is by `Ota`.
3. `AnsweredInTime` for several nodes, with what a node on the air costs the others as part of the statement.
4. The daemon's command line and serial source, with the arguments each refuses.
