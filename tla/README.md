# Verification of the Fujisan device tree

Fujisan is a folding phone with two panels, A and B, driven by one framebuffer
(fb0).  This project models the parts of its device tree that keep state and
meet other processes, checks them with TLC on small instances and proves their
central facts with TLAPS for all values of the constants.

## 1. Inventory

| Component | State | Operations | Meets |
|---|---|---|---|
| HWC power and brightness (`dualscreen/hwcomposer/hwc2_fujisan.cpp`) | power flag and cached brightness per endpoint, generation counter, run flag, thread handle | `SetPowerMode`, `SetDisplayBrightness`, deferred power-off thread, `HwcClose` | SurfaceFlinger's thread against the deferred thread, over atomics without a lock |
| HWC frame path (same file) | client target and acquire fence per endpoint, fb0 descriptor, route flag, drain fence | `SetClientTarget`, `SetActiveConfig`, `PresentDisplay`, `DrainWideRoute`, `HwcClose` | the kernel's fb0 timeline; failing commits, fences and drains |
| HWC callbacks (same file) | registered functions, announced flag, panel watcher | `RegisterCallback`, hotplug trampoline, watcher thread | CAF's event thread, SurfaceFlinger restarts, property changes |
| HWC layers (same file) | layer table, composition types, layer fences, active configurations, vsync flags | `CreateLayer`, `SetLayer*`, `ValidateDisplay`, `AcceptDisplayChanges`, `SetVsyncEnabled`, queries | SurfaceFlinger's call order on two endpoints |
| Hall daemon (`dualscreen/hall/fujisan_halld.cpp`, `rootdir/init.fujisan.hall.rc`) | published and persisted properties, event descriptor, control socket | `publish_topology`, hinge wait, `handle_primary_request` | hinge driver, socket clients, init triggers and restarts, screen power |
| Camera panel bridge (`CameraPanelService.java`) | camera set, session snapshot, pending runnables | availability callbacks, delayed switch, restore and session end | camera apps, hinge, daemon, property callback thread |
| Audio HAL (`audio/qcom/hal`) | use-case list, device reference counts, streams, compress-offload queue and thread, voice sessions | stream start, write, standby, routing, offload commands, voice call start and stop | AudioFlinger threads, offload callback thread, ADSP |
| Platform XML (`platform_info.c`) | open section, the device of the last `snd_dev`, parse mode | `platform_info_init`, start and end of elements, a function per section | the platform tables it fills |
| Mixer paths (`audio/audioroute_probe/audio_route.c`) | paths, staged and written values, use count per control | init, apply, reset, forced reset, update | the kernel's mixer |
| USB audio (`audio_extn/usb.c`, not built here) | cards and their altsets, rate masks, capture flag | add and remove a card, choice of a configuration, sidetone, service interval | cards plugged and pulled, late announcements |
| Sound-card monitor (`audio_extn/sndmonitor.c` and its callbacks in `audio_hw.c`, not built here) | known states, listeners, `card_status` of device and streams | poll thread, register, unregister, callbacks, init, deinit | kernel state files, opening and closing threads |
| Bluetooth vendor library (`bluetooth/libbt-vendor`, `rootdir/init.fujisan.bluetooth.rc`) | chip power, controller and host speed, firmware progress, `soc_initialized`, filter, UART descriptor | power, open, close, firmware download of ROME and AR3K, epilog, cleanup | controller events, `wcnss_filter`, init triggers, HAL crashes |
| Peripheral manager client (`peripheral-manager/peripheral_client.cpp`) | client objects, manager handle, lock per client | register, connect, disconnect, acknowledge, unregister | binder threads, manager death and restart |
| Small parts (`lights`, `livedisplay`, `recovery`, tiles, `radio-compat`) | one or two sysfs nodes or flags each | set, toggle | none, or a tile's socket request |

Not to be modelled: build files, overlays, SELinux policy, prebuilts and the
window-info probe (data or display only), the HWC functions that only forward
to CAF or answer from a constant, the small parts of the last row (a write
behind a lock, or a symbol shim), and the remaining audio extensions this
device's `Android.bp` does not compile (a2dp, hfp, sound trigger, speaker
protection).  `usb.c` and `sndmonitor.c` are not compiled either, but their
callers are in the HAL that is built and the two meet other threads and
devices, so they are modelled.

What is hard in this code: the lock-free handoff of power between two
endpoints; a daemon that reads a posture and waits for the next event on a
descriptor it opens afterwards; selections written as two properties; delayed
runnables that act on a state read a second earlier; fences that change owner
on every path of a frame; a callback thread that blocks with the stream lock
released; a router in which every start, stop and switch of one stream moves
others; a firmware download whose waits depend on version, segment and a global
flag; a filter process that outlives the HAL; mixer controls and a vsync shared
by several users; callbacks called with a lock held.  `PROJECT.json` lists these as hazards, each at its line.

## 2. Modules

| Module | Models | State and steps |
|---|---|---|
| `HwcPower` (`MCHwcPower`, `MCHwc`) | `SetPowerMode`, `SetDisplayBrightness`, `SharedPowerOffThreadMain`, `ScheduleSharedPowerOff`, `HwcClose` | one variable per atomic; `caller.pc` is the point of the HWC2 call in progress, `threads` the deferred threads; every access the other side can see is a step |
| `HwcPowerProofs` | proofs about `HwcPower` | |
| `HwcRoute` | the frame path | a call is a step (SurfaceFlinger issues one at a time), the kernel's completions interleave; `fds` is the set of descriptors the process holds |
| `Fb0Transactions` | what the wrapper promises about fb0 | abstract specification of `HwcRoute` |
| `HwcRouteProofs` | proofs about `HwcRoute`, the refinement included | |
| `HwcCallbacks` (`MCHwc`) | registration, hotplug, watcher | one step per access under `cb_lock`, per atomic and per call out |
| `Halld` (`MCHalld`) | the daemon and init's triggers | `halld.pc` is the point of the daemon; each property, sysfs or socket access is a step |
| `HalldProofs` | proofs about `Halld` | |
| `CameraPanel` | `CameraPanelService` | the service's fields in `svc`; a handler is a step, split where the display mode is read twice |
| `CameraPanelProofs` | proofs about `CameraPanel` | |
| `OffloadStream` | a compress-offload stream of `audio_hw.c` and its callback thread | the fields of `struct stream_out` shared under `out->lock`; `thread` and `client` are the points of the two threads, split where the lock is given up or a field is touched without it |
| `AudioRouting` (`MCAudioRouting`) | `audio_hw.c`'s use-case list and `select_devices`, `voice.c`, `voice_extn.c`, the device tables of `platform.c` | `adev` is `struct audio_device`; the functions of the code are operators from one `adev` to the next, and a call of the framework, which holds `adev->lock` throughout, is a step |
| `BtUart` | `hci_uart.c` and the wire | `soc` and `baud` are the two ends of the line with their speeds, `rx` the events not yet read, `vnd_fd` the descriptor |
| `RomeInit` | `hw_rome.c` | `step` is the function of the download to run next, `waits` the events the last command still reads; a command is a step and so is every event read |
| `Ar3kInit` | `hw_ar3k.c` | as above, from flow control to the last speed change |
| `BtVendor` | `bt_vendor_qcom.c`, `hardware.c`, `hci_smd.c`, the init triggers | the op table, power, the filter, crashes; extends the three modules above and runs their loaders to their end or their failure |
| `BtVendorProofs` | proofs about the four modules above | |
| `AudioRoute` | `audio_route.c` | mixer, staged (`new_value`), written (`old_value`) and reset values, counts; a tag of the document is a step while parsing, a library call afterwards |
| `HwcLayers` | layers, configurations and vsync of `hwc2_fujisan.cpp` | a call is a step; `fence_fds` are the descriptors open |
| `HwcDisplayProofs` | proofs about `HwcCallbacks` and `HwcLayers` | |
| `PlatformInfo` | `platform_info.c` | the start or end of an element is a step; `pi_stored` is the entry the step stored and where |
| `UsbAudio` | `usb.c` and the connect parameters of `audio_hw.c` | the known cards beside the cards really plugged in; the capability parser and the choice of a configuration are operators |
| `PeripheralClient` | `peripheral_client.cpp` | the user's thread, a binder thread and the manager; a step per stretch with `mLock` held or released |
| `SndMonitor` | `sndmonitor.c`, its callbacks, opening and closing of streams | the monitor thread, the device's and the streams' threads, split at every lock |
| `RoutingProofs` | proofs about `AudioRouting` | |
| `PartsProofs` | proofs about `OffloadStream`, `PeripheralClient`, `SndMonitor`, `PlatformInfo`, `AudioRoute` and `UsbAudio` | |
| `MCParts` | the run of `HwcRoute`, `AudioRoute`, `HwcLayers`, `PlatformInfo`, `UsbAudio`, `PeripheralClient` and `SndMonitor` | one part moves, the others stand still |

Abstractions.  A brightness is an integer in thousandths and is rounded to the
node's 8 bits the way the code does; the backlight the daemon remembers is lit
or dark; an image buffer is its geometry; a fence is the number of the
transaction it ends with; a delayed runnable may run at any time until it is
removed; `postDelayed`, `usleep` and `sync_wait` have no clock, only an order.
In `AudioRouting` a mixer path is the pair of a use case and a backend suffix;
of the codec's port settings only the bit width is kept, because the platform
file gives the speaker a width of its own and a change of width reroutes every
other stream.  A call started without `current_call_output` (a session made
active after the mode left the call by way of communication) dereferences a
null pointer in `voice_start_usecase`, and the model restarts the process.
In the Bluetooth modules a packet is the command or event it stands for, and a
read without an answer blocks, as the code has no timeout; that goes for the UART
and for the filter's socket, over which an open asks for the add-on features and
sets the controller's log.  A TLV file is a number of full segments, a rest and an
event handling: "NONE", "VSE_CC", or "OTHER" for those `rome_tlv_dnld_req` calls
unsupported, after which the controller may answer anything.  A version stands
for the class the code compares it with.  `emb_wp_mode`, a read-only property
this tree does not set, is chosen at the start.  A write to a filter that has
gone fails; that it may also raise a signal is covered by `HalDies`.  A mixer value is a sequence of small
numbers, an enum string its index or unknown, an XML entry the set of its
attributes and whether its values can be looked up; a USB stream file is a list
of altsets with the lines each has; a `Parcel` is the call it carries.
External behaviour (the composer underneath, the kernel, init, SurfaceFlinger,
camera apps) is modelled from how the code uses it and marked external in the
map.

## 3. Runs

| Run | Module, config | Properties | Shows |
|---|---|---|---|
| `hwc` | `MCHwc`, `MCHwc.cfg` | `TypeOK`, `AtMostOneThread`, `OffWindow`, `NoThreadOutlivesDevice`, `NeverLeftDark`, `ScheduledOffHappens`, `CloseReturns`, `LifecyclesSymmetric`, `PanelShown`, `WatcherJoined` | Power and callbacks, one or the other. All interleavings of power calls, brightness calls, failures and the grace thread: one thread at a time, none after HwcClose, a physical OFF only where the thread saw both endpoints off in the generation it slept on, no handoff that leaves the panel dark or at a foreign level, and a scheduled power-off the running thread can see, and HwcClose, that end. With CAF events, a SurfaceFlinger restart and A/B switches at any time: the two displays come and go together, a switch the watcher can see reaches the glass, and HwcClose's join of the watcher returns. |
| `power_race` (violation) | `MCHwcPower`, `MCHwcPowerRace.cfg` | `OffOnlyWhenUnpowered` | An endpoint powered on between the thread's two reads and its call is switched off physically. |
| `power_dropped` (violation) | `MCHwcPower`, `MCHwcPowerDropped.cfg` | `ScreenOffHappens` | A screen-off whose compare_exchange meets the run flag of a thread that has already left its loop is carried out by nobody: both endpoints stay off and fb0 stays on. |
| `halld` | `MCHalld`, `MCHalld.cfg` | `BootOnA`, `BIsSelected`, `EventPublished`, `ClientServed` | With a hinge move, a client, restarts and screen power at any point: boot stays on A and single, B is published only for a complete, folded selection, and a hinge event that was delivered is published. Of two clients, one accepted while the other queues, each is answered or closed whether the other speaks, is silent or hangs up, and over the restarts of the daemon. |
| `halld_missed` (violation) | `MCHalld`, `MCHalldMissed.cfg` | `BlocksInSync` | A hinge move between the posture read and the reopening of the event node is never published. |
| `camera` | `CameraPanel`, `MCCameraPanel.cfg` | `RestoreOutsideSession`, `SessionEnds`, `FoldNoticed` | Opens, closes, folds, toggles and a service restart in any order: a delayed restore takes effect only outside a session, a session whose cameras stay free ends, and one begun unfolded notices the fold. |
| `camera_original` (violation) | `CameraPanel`, `MCCameraPanelOriginal.cfg` | `OriginalIsUsers` | A session begun while the previous one's restore is pending takes the camera's panel for the user's. |
| `offload` | `OffloadStream`, `MCOffloadStream.cfg` | `HandleAlive`, `StateAgrees`, `MetadataSent`, `StopReturns`, `RequestsAnswered` | All interleavings of writes, pause, drain, flush, standby and close with the callback thread, on a device that may refuse any start, pause, resume or stop: the compress handle is never closed under a blocking call, stream and device drift apart only by an ignored refusal or a late reset and how far is known, a device that plays has this session's metadata, and every stop returns and every request is answered unless the device does not play. |
| `routing` | `MCAudioRouting`, `MCAudioRouting.cfg` | `Consistent`, `InputsShareDevice`, `CallsInPlace` | Any order of stream starts, failures, standbys, routings, sources, call states and modes: every device reference has its owner, the mixer paths that are on are those of the use cases listed, inputs of a backend share a device, calls stay where the primary output is and end with the mode. |
| `routing_shared` (violation) | `MCAudioRouting`, `MCAudioRoutingShared.cfg` | `OutputsShareDevice` | An output routed to SCO that followed a call onto the codec stays there when the call ends, and the next stream puts a second device on the codec's backend. |
| `bluetooth` | `BtVendor`, `MCBtVendor.cfg` | `EventsConsumed`, `FlagTruthful`, `ReadAnswered`, `OpenIsUsable`, `OpenReturns` | Two sessions of the HAL on each kind of controller, with one crash, refusal, stray event, missing file, I/O error or unsupported event handling anywhere and a filter that is late, goes away or comes up after the last look: as long as nothing befalls the download that the loaders cannot cope with, soc_initialized never lies, no loader and no read on the filter's socket waits for an event that does not come, none is left behind, and every open returns; a transport reported open is the right one. |
| `parts` | `MCParts`, `MCParts.cfg` | `RouteIsDrainable`, `FdsAccounted`, `ImplementsFb0`, `PathsAccounted`, `SharedCtlSurvives`, `EndpointsIndependent`, `EntriesInPlace`, `UsbViewTrue`, `ClientsSound`, `MonitorSound` | Seven parts that share no state, one moving at a time. Frames: no Small frame is committed while a Wide transaction the wrapper holds a fence of is in flight, and no path of a frame loses a descriptor. Mixer paths: counts are those of the paths applied, and a control another path uses keeps its value. Layers, configurations and vsync of one endpoint survive the other's calls. Platform XML: entries go where their tags belong. USB: the cards known are those plugged in, and what is chosen is what they offer. Peripheral clients and sound-monitor listeners: no lock cycle, no callback to a freed stream, no leaked registration. |

Bounds.  `MaxCalls`, `MaxMoves`, `MaxOpens` and the like only bound how often
the environment acts; each is large enough for every action and every failure
to happen and for a complete handoff with a second one racing it.  `MaxCmds`
bounds the offload command list: three commands are one that blocks, one the
stop leaves behind and one of the next session.  `AudioRouting` needs no
counter: its states are finite.  `MCAudioRouting` gives it three setups, one
rich in outputs, one in inputs and one in voice sessions, since a reroute
involves two use cases and a combination at most.  `BtVendor` runs two sessions
(the second meets what the first left), two full segments a file (first, last
and between differ), two NVM tags and one fault, which may be a crash, a
refusal, a stray event, a missing file, an I/O error or an unsupported event
handling at any point; an open that is blocked for good may be killed on top.
`Halld` has one client where the hinge and the screen move, and two, one in the
backlog while the other is accepted, where they stand still (`MCNext`).  `MCHwc`
puts the power and the callbacks of the HWC in one run, as `MCParts` does with its
parts.
`MCParts` gives `HwcRoute` six calls with every failure; `AudioRoute` two
documents and at most one application of each path and one uncounted call;
`HwcLayers` two layers and two descriptors; `PlatformInfo` two parses, since the
second starts with what the first left in `in_snd_device`; `UsbAudio` two cards
with two plugs, so that a card is replaced under its number, and four stream
files; `PeripheralClient` three clients in turn, two lives of the manager and
two notifications in flight; `SndMonitor` four sources, two streams and two
changes.  Deadlock is checked for the offload stream, the router and the
Bluetooth library; the environments of the others may fall silent after their
bounded number of calls, and a closed device stays closed.
`TypeOK` of each module says what its variables hold; the runs of `HwcPower`
and `AudioRouting` check it with the rest.

Fairness.  Weak fairness is asked of what the scheduler runs: the deferred
power-off thread, the steps of a call that has begun, the daemon, init's queue,
the watcher, `HwcClose`'s join.  A posted message of the camera service gets
strong fairness, because handlers of other messages may run in between but
Android's queue delivers each in the end.  Nothing is asked of users,
SurfaceFlinger's next call, the hinge, or boot completion; of `HwcCallbacks`, `MCHwc` asks
that SurfaceFlinger answers a refresh with a frame.  In `OffloadStream` the
callback thread gets the lock in the end however often the client comes back
(`out->pre_lock` makes a client queue behind it), and a blocking call on a
device that is neither paused nor waiting for its start returns; `compr` is
"prepared" when the device refused to start, and nothing then plays the data a
blocked call waits for.  `BtVendor` asks that the library's own steps
and the answers of init, the filter and the controller come (`Library`,
`External`), not that a caller calls; a read that no event answers stays
blocked.  Its properties say what they leave out: `clean` excludes a download that
met what the loaders cannot cope with (an unsupported event handling, a stray
event, an unreadable NVM file, an I/O error, a vendor-event flag left off by an
earlier download), and `fresh` a controller this session has not switched on,
which may still run at the speed of a session that crashed.  `OpenReturns` needs
`fresh` for the download only, not for the filter and its socket.

What the violation runs show, each against a sentence of the repository:

- `power_race`: the deferred thread tests both power flags and calls OFF
  afterwards; an ON in between is overtaken and a powered endpoint is left on a
  dark framebuffer (comment at `hwc2_fujisan.cpp:1824`).
- `power_dropped`: a screen-off that meets the run flag of a thread which has left
  its loop but not yet stored false is carried out by nobody (comment at
  `hwc2_fujisan.cpp:1783`).
- `halld_missed`: a hinge move between reading the posture and reopening the
  event node is lost (`init.fujisan.hall.rc:40`).
- `camera_original`: a camera opened while the last session's restore is
  pending takes the flipped panel for the user's (`CameraPanelService.java:28`).
- `routing_shared`: a stream the framework routed to SCO follows a call onto the
  codec and is passed over afterwards, so that two codec devices are on at once
  (comment at `audio_hw.c:1160`).

Other windows the models contain, which the passing properties are stated around: the power-off that skips its
grace because the flag is stored before the generation is bumped; the Wide transaction whose fence cannot be kept (`orphans`); the acquire
fence of a failed `SetClientTarget` (`refused`); the Wide display a restarted
SurfaceFlinger is not told of; init's late A trigger; the relight after sleep;
the panel switch dropped while unfolded; voice sessions and
their sidetone that outlive a call mode left by way of `IN_COMMUNICATION`
(`strayed`; the comment at `voice_extn.c:437` has them end with the normal mode);
`send_new_metadata`, set without the lock and lost to a write under way; a
callback thread whose first section runs after playback began; the drain of a
stream in standby, which is accepted and dropped.

Of the parts modelled since: in the Bluetooth library `vnd_userial.fd` keeps its
number after a failed open closed it; a stray event hides a refusal, and a
missing NVM file counts as success; a download torn off between segments leaves
`wait_vsc_evt` false; an AR3K left at 3 Mbaud by a crash is not switched off
before it is spoken to; the filter may still run when the controller is
switched off.  `SetLayerBuffer` on an unknown layer and `HwcClose` leave fences
open (`stray_fences`).  The delay sections of the platform XML stay selected, an
entry outside its section reaches another table or a null function, a gain
level of zero aborts, and `num_frequency_responses` may be read uninitialized.
In `usb.c` an altset without known rates answers rate 0; only the last matching
altset's rates count; a missing line is taken from the following altset or
section; a last altset that fails loses the card; removing one card clears the
rates and the microphone of the other; "continuous" rates are never recognised,
because `strtok_r` has cut the line before the search.  A notification in flight
reaches a freed peripheral client.  The sound monitor takes a card that is
offline at its start for online, loses a change before registration, and calls
the device's listener after `adev_close`, because it is registered under NULL
and unregistered under the device.  A power-on that CAF rejects leaves the
endpoint's flag set, and only the last grace thread is ever joined.

The audio policy file of this commit is a bring-up stub that declares only the
primary output and input.  The offload stream is in the HAL that is built, and
its model assumes a policy that opens one; `AudioRouting` likewise assumes one
that opens the streams and routes to the devices of its setups.

## 4. Proofs

The theorems hold for every value of the constants that the modules' named
ASSUMEs allow; nothing else is assumed.  They say: bounds are naturals
(`TAGS`, `MaxSegments`, `MAX_TAGS`, `MaxCmds` and `MaxSf` positive), failure switches
are Booleans, brightness arguments are integers, cameras are strings, clients
of the daemon are finitely many, controllers are of the four kinds the library
knows, monitored files have a kind and a number, no stream is the device, mixer
controls have one of tinyalsa's types and at least one element, documents are
lists of tags, path names and USB card numbers are finitely many, the lines of a
stream file carry numbers, and the framework uses streams, modes and devices the
audio HAL has.
Since the bounds on calls are arbitrary, the theorems are about histories of any
length.

Each module proves that its inductive invariant holds initially and is kept by
every action, one lemma per action or group of actions, and reads the theorems
off it.  What the invariant adds to the property is the argument:

**`HwcPowerProofs`.**  `TypeCorrect` needs that a write carries a real level
(`IndTypes`).  `OneThread`, `DeviceOutlivesThread` and `OffWindowIsNarrow`
(`AtMostOneThread`, `NoThreadOutlivesDevice`, `OffWindow`) share an invariant: a
live thread keeps the run flag set unless the device is closing
(`FlagCoversThread`); between the exchange and `pthread_create` the flag alone
holds the claim (`ClaimIsExclusive`); the handle `HwcClose` joins is the live
thread's (`HandleIsNewest`); a thread never slept on a future generation
(`SleptOnPast`); half-way through its two reads Small is still off
(`SmallStillOff`).  `NeverDark` (`NeverLeftDark`) follows every step of a
handoff: the panel is lit, at the level of the endpoint that claimed it last (`shown`), unless a
call that has yet to write the level is under way (`LitUnlessLighting`), and the
level on its way is that endpoint's (`WritesShown`).

**`HwcRouteProofs`.**  `RouteDrainable` (`RouteIsDrainable`) is inductive with
the types.  `NoFdLost` (`FdsAccounted`) is not: closing one endpoint's fence must
not close the other's, so no two places hold the same descriptor
(`FencesDistinct`).  `Refinement` (`Spec => ImplementsFb0`) maps each step to a
step of `Fb0Transactions` or a stutter; the one that matters is a Small frame
after a drain, which waits for a single merged fence, so the invariant says that
this fence covers every transaction in flight that is no orphan (`FenceCovers`).

**`HwcDisplayProofs`.**  `EndpointsStayIndependent` (`EndpointsIndependent`):
handles come from a counter that never returns to one in use (`LayersTyped`), a
fence is open exactly if one layer or one refused call has it
(`FencesByMember`), the layers marked changed are those nobody accepted
(`ChangedUnaccepted`), and fb0 was told of vsync exactly when an endpoint wants
it (`VsyncTold`).  `LifecyclesStaySymmetric` (`LifecyclesSymmetric`): CAF's
events alternate, so how far a trampoline has come with its news determines what
SurfaceFlinger knows (`FirstKnows`), in each of the phases before, during and
after registration.

**`HalldProofs`.**  `BootStaysOnA` (`BootOnA`) needs that the daemon never
believes boot completed before it did (`BootNotAhead`); `BIsTheSelection`
(`BIsSelected`) that the copy it publishes from is the persisted selection
(`CopyIsCurrent`), which a restart between two property writes would break if the
daemon did not read again, and that what it published still holds when it comes
to block (`PublishedB`).

**`CameraPanelProofs`.**  `RestoreStaysOutside` is an action property
(`RestoreOutsideSession`).  The restoring runnable only tests that no camera is
in use, and a session outlives its last camera by the stop debounce; the
invariant (`RestoreKnown`) is that a restore pending inside a session has a
camera in use and no session end beside it, since the release of the last
camera cancels the runnable.

**`BtVendorProofs`.**  `AllEventsRead`, `FlagStaysTruthful`, `ReadsAreAnswered`
and `OpenStaysUsable` (`EventsConsumed`, `FlagTruthful`, `ReadAnswered`,
`OpenIsUsable`) rest on one invariant in three groups.  `Calls` says which
controllers a call is for, what a power switch under way has done and what
`soc_initialized` and the transport then stand for.  `Rome` and `Ar3k` follow
the line: the reads outstanding are matched by the events not yet read
(`RomeLine`, `Ar3kLine`), the two wait flags are what the file being sent asks
for, by a version that loader and controller agree on (`RomeFlags`, `FileFlags`,
`VersionKnown`), the controller has its firmware once the last answer is read
(`RomeFirmware`, `Ar3kFirmware`), and on a controller switched on in this
session both ends run at one speed (`RomeSpeed`, `Ar3kSpeed`).  A second
invariant, `SInv`, is for the filter's socket: reads are outstanding on it only
while its two commands are answered (`SocketKnown`), and they are matched by the
events on it or by the end of the connection (`SocketLine`).

**`PartsProofs`.**  `ClientsStaySound` (`ClientsSound`): a lock is held by
exactly the thread that is in a section of its client (`LocksKnown`), whoever
acknowledges has the user's handle or a client that was deleted, which lost its
service first (`AckKnown`), a registration belongs to the running manager and to a live client (`TableKnown`),
and the user's thread knows at each point of a call what `UserKnows` lists.
`MonitorStaysSound` (`MonitorSound`): the monitor holds the map's lock exactly
while it calls listeners, whom it has still to call is a listener
(`MonitorKnown`, `ListenersKnown`), and streams agree with the device but for
those a callback in progress has not reached (`Agreed`).
`EntriesStayInPlace` (`EntriesInPlace`): a top section is the outermost element
and a `snd_dev` the innermost (`Nesting`), so the device the global names is the
one around the microphone being read, or none after an error
(`DeviceIsEnclosing`); and a section that an element leaves selected when it ends
is one that stores nothing but delays (`OutsideIsQuiet`).
`HandleNeverFreed`, `DeviceAgrees` and
`MetadataFirst` (`HandleAlive`, `StateAgrees`, `MetadataSent`) hold for command
lists of any length.  `OffloadIInv` adds who holds `out->lock` (`LockHeld`), that
`offload_thread_blocked` is set exactly while the callback thread is out of the
lock in a call (`MarkIsTrue`), how the fields of a session go together
(`SessionFields`), and that metadata not yet sent are still asked for
(`MetadataPending`).

`PathsStayAccounted` (`PathsAccounted`) and the action property `SharedCtlStays`
(`SharedCtlSurvives`) rest on one invariant.  Lemmas about `path_add_value` and
`path_add_path` show that a list of settings without a repeated control stays
one, whatever is nested and wherever a clash cuts it; so the update of a path
treats a control once.  Applying a path adds one holder to each of its controls
and a reset takes one away (`HoldersApply`, `HoldersReset`, with the library's
theorems on cardinality), so the count, which moves with them (`CountsUsers`),
is positive exactly if a control is still held.  Since nothing is staged while
callers pair their calls (`NothingStaged`) and the cache agrees with the hardware
from the moment the mixer was read (`MirrorsMixer`), the control that drops to
zero is back at its start-up value and the others are not written.

`UsbViewStaysTrue` (`UsbViewTrue`) has two halves.  That the table of cards is
true rests on `UsbInv`: for each direction of each card number the announcements
not yet handled alternate, from what the HAL was last told to what is plugged in
(`Told`); a device it was told is gone has no entry; and once no announcement of
it is pending its entry is what the card under its number says now
(`QueueTrue`).  So a card that replaces another is read when the last of the
three announcements arrives, however late, and the entry the first one may have
made of the new card by then is taken out in between.  That what is chosen
exists is about the loops of `usb.c`: each is a recursive function over `0..n`,
shown to have a value after every round and to keep its invariant by looking at
the least round where it would not (`LoopRuns`, `RoundByRound`): the running
maximum is the widest (`WidestChosen`), the running comparison of two rate
families is an order and its winner the best (`AsGoodOrder`, `BestRateChosen`),
a parsed altset has a width, channels and known rates (`CapabilityTyped`).  The
assumption on stream files (`UsbAssumption`) is that the fields that are there
are numbers, channels not zero, as the kernel prints them.

**`RoutingProofs`.**  `RoutingStaysConsistent` (`Consistent`),
`InputsStayOnOneDevice` (`InputsShareDevice`) and `CallsStayInPlace`
(`CallsInPlace`).  The first two say of every state that it is
`Sound`: the use cases of the streams out of standby and of the sessions with a
call are listed, each once, and *placed*: on their mixer path, on devices that
fit their type, with every reference accounted for.  A step is a chain of loops
over the list, and between its stages nothing of this holds: some use cases are
off their path, off one device, or hold a device their entry does not name.  So
the lemmas carry a function `r` that says which device each use case holds on
each side and a set `P` of the use cases whose path is on (`Held`): the counts
are those of `r` plus one for each part of a combination that is on
(`Counted`), and `enable_snd_device` and `disable_snd_device` change one place of
`r` (`Enabled`, `Disabled`).  Each loop is a recursive function over the list;
`LoopEnds` gives it a value after every round and leads it through the sets of
states its rounds go through.  On top of this, one lemma for each function of
the code: making room on a device (`RerouteKeeps`, `RoomMade`), `select_devices` (`Selected`),
starting and stopping a call (`CallStarted`, `CallStopped`), `update_calls`
(`CallsUpdated`), the streams (`OutputStarted`, `OutputStopped`, ...) and the
entry points.  `InputsShareDevice` rides along: an input is placed only after the
others on its backend were moved to its device (`Sharing`).  The counting at the
end is two bijections, one from the holders in `r` to the use cases on a device
and one from the places of the list to what it lists.  The assumption on
`Setups` (`SetupsAssumption`) names the streams, the devices and the sets of
output devices `platform_get_output_snd_device` has a device for.
`CallsStayInPlace` asks more: not what the loops take and give back, but which
device they choose.  `select_devices` has two effects on calls (`Effect`).  A
stream leaves calls that are where the primary output is there
(`StreamPlaced`), since a stream that meets one on its backend follows it, so no
call of the framework on a stream moves them (`Steady`).  A call goes to the
primary output's device with its sidetone (`CallPlaced`).  When that device
changes, the loop takes the calls along one by one, some on the old device and some
on the new one in between: `Moving` is its invariant, with the set of the calls
that are there.  What holds between the entry points is `Tidy`: in the call mode
every call is at home, and, unless the call mode was left for communication with
a call on (`strayed`), which the code neither ends nor moves, calls are only in
it and the sidetone is their device's.

Only model-checked:

- every liveness property (`ScheduledOffHappens`, `CloseReturns`, `PanelShown`, `WatcherJoined`,
  `EventPublished`, `ClientServed`, `SessionEnds`, `FoldNoticed`, `StopReturns`,
  `RequestsAnswered`, `OpenReturns`): fairness and `ENABLED` are outside this
  prover;
- the runs that expect a violation, which are about a trace.


## 5. Plan

1. Done: the models and their runs; proofs of every safety property the passing
   runs check: the HWC, the hall daemon, the camera bridge, the offload stream,
   the Bluetooth library, the peripheral client, the sound-card monitor, the
   platform info parser, the mixer paths, the USB cards and the routing.
2. Left to model: input effects, gains and mute and MMAP streams of the audio
   HAL; the flashlight tile and the lights.
