---------------------------- MODULE AudioRouting ----------------------------
(***************************************************************************)
(* How the audio HAL routes its streams and calls: audio_hw.c, voice.c,    *)
(* voice_extn.c and the device tables of platform.c.                       *)
(*                                                                         *)
(* Everything here happens under adev->lock, so a call of the framework is *)
(* one step.  adev is the whole state: its fields keep the names of struct *)
(* audio_device, and the functions of the code are operators that take an  *)
(* adev and return the next one.  What makes the code hard is the sequence *)
(* of calls: the list of use cases, the reference counts of the devices    *)
(* and the mixer paths that are on must still fit after any number of      *)
(* starts, switches, failures, calls and mode changes, each of which       *)
(* reroutes other use cases as it goes.                                    *)
(*                                                                         *)
(* Left out: A2DP, USB, HDMI, hands-free profile and in-call recording,    *)
(* which this build or its policy has not; TTY, HAC, wide-band SCO, camera *)
(* and voice-recognition sources and input effects, which pick other names *)
(* for a device on the same backend.                                       *)
(***************************************************************************)
EXTENDS Naturals, FiniteSets, Sequences, SequencesExt, Functions

CONSTANT Setups     \* what the framework uses of the HAL; see SetupsAssumption

primary_output == "LOW_LATENCY"

\* The sets of output devices platform_get_output_snd_device has a device for,
\* of those in the model.
OutputSets == {{"EARPIECE"}, {"SPEAKER"}, {"WIRED_HEADSET"}, {"SCO"},
               {"SPEAKER", "WIRED_HEADSET"}, {"SPEAKER", "SCO"}}

ASSUME SetupsAssumption == \A p \in Setups :
    /\ primary_output \in p.outputs       \* output streams, by their use case
    /\ p.outputs \subseteq {"LOW_LATENCY", "DEEP_BUFFER", "VOIP"}
    /\ p.inputs \subseteq {"RECORD", "RECORD_VOIP"}
    /\ p.sessions \in Seq({"VOICE_CALL", "VOICE2_CALL"})     \* in their order
    /\ p.modes \subseteq {"NORMAL", "RINGTONE", "IN_CALL", "IN_COMMUNICATION"}
    /\ p.out_devices \subseteq OutputSets
    /\ p.in_devices \subseteq {"MIC", "HEADSET_MIC", "SCO_MIC"}
    /\ p.sources \subseteq {"MIC", "VOICE_COMMUNICATION"}
    /\ p.call_states \subseteq {"INACTIVE", "ACTIVE", "HOLD", "LOCAL_HOLD"}

VARIABLES
    setup,      \* the one of Setups in force
    adev,
    strayed     \* history: the HAL left the call mode with calls going on

vars == <<setup, adev, strayed>>
-----------------------------------------------------------------------------
(* The sound devices of platform.c. *)

OutSndDevices ==
    {"HANDSET", "SPEAKER", "HEADPHONES", "BT_SCO", "SPEAKER_AND_HEADPHONES",
     "SPEAKER_AND_BT_SCO", "VOICE_HANDSET", "VOICE_SPEAKER", "VOICE_HEADSET"}
InSndDevices ==
    {"HANDSET_MIC", "SPEAKER_MIC", "HEADSET_MIC", "BT_SCO_MIC",
     "VOICE_SPEAKER_MIC", "VOICE_HEADSET_MIC"}
SndDevices == OutSndDevices \cup InSndDevices

\* The ports of hw_interface_table.
hw_interface_table ==
    [d \in SndDevices |->
        CASE d = "BT_SCO" -> {"SEC_AUX_PCM_RX"}
          [] d = "BT_SCO_MIC" -> {"SEC_AUX_PCM_TX"}
          [] d = "SPEAKER_AND_BT_SCO" -> {"SLIMBUS_0_RX", "SEC_AUX_PCM_RX"}
          [] d \in InSndDevices \ {"BT_SCO_MIC"} -> {"SLIMBUS_0_TX"}
          [] OTHER -> {"SLIMBUS_0_RX"}]

\* The suffix of a mixer path.
backend_tag(d) == IF d \in {"BT_SCO", "BT_SCO_MIC"} THEN "bt-sco" ELSE ""

\* audio_platform_info.xml gives the speaker a width of its own.
backend_bit_width(d) == IF d = "SPEAKER" THEN 24 ELSE 16

\* One device's ports are within the other's.
platform_check_backends_match(d, e) ==
    /\ d # "NONE" /\ e # "NONE"
    /\ \/ hw_interface_table[d] \subseteq hw_interface_table[e]
       \/ hw_interface_table[e] \subseteq hw_interface_table[d]

\* The devices a combination is made of, when their backends differ.
platform_can_split_snd_device(d) ==
    IF d = "SPEAKER_AND_BT_SCO" THEN {"SPEAKER", "BT_SCO"} ELSE {}

CodecBackend == {"EARPIECE", "SPEAKER", "WIRED_HEADSET"}

\* In a call a single device has its voice variant.
platform_get_output_snd_device(a, devices) ==
    CASE devices = {"SPEAKER", "WIRED_HEADSET"} -> "SPEAKER_AND_HEADPHONES"
      [] devices = {"SPEAKER", "SCO"} -> "SPEAKER_AND_BT_SCO"
      [] devices = {"SCO"} -> "BT_SCO"
      [] devices = {"SPEAKER"} -> IF a.in_call THEN "VOICE_SPEAKER" ELSE "SPEAKER"
      [] devices = {"EARPIECE"} -> IF a.in_call THEN "VOICE_HANDSET" ELSE "HANDSET"
      [] devices = {"WIRED_HEADSET"} ->
            IF a.in_call THEN "VOICE_HEADSET" ELSE "HEADPHONES"
      [] OTHER -> "NONE"
-----------------------------------------------------------------------------
(* The use-case list: usecase_list has the identifiers in their order,       *)
(* usecase the structures.                                                   *)

Listed(a, id) == id \in DOMAIN a.usecase

\* A loop over the list that calls Do for some of the use cases.
list_for_each(a, ids, Do(_, _)) ==
    LET list == a.usecase_list
        after[n \in 0..Len(list)] ==
            IF n = 0 THEN a
            ELSE IF list[n] \in ids THEN Do(after[n - 1], list[n]) ELSE after[n - 1]
    IN  after[Len(list)]

list_add_tail(a, id, type, devices) ==
    [a EXCEPT !.usecase_list = Append(@, id),
              !.usecase = [i \in DOMAIN @ \cup {id} |-> IF i # id THEN @[i] ELSE
                  [id |-> id, type |-> type, devices |-> devices,
                   out_snd_device |-> "NONE", in_snd_device |-> "NONE"]]]

list_remove(a, id) ==
    [a EXCEPT !.usecase_list = RemoveAt(@, CHOOSE n \in DOMAIN @ : @[n] = id),
              !.usecase = Restrict(@, DOMAIN @ \ {id})]

\* The devices of u->stream.out; a call's stream is current_call_output, which
\* is the primary output whenever it is set.
out_devices(a, u) ==
    a.out[IF u.type = "VOICE_CALL" THEN primary_output ELSE u.id].devices

IsCapture(u) == u.type = "PCM_CAPTURE"
IsCall(u) == u.type = "VOICE_CALL"

\* The first and the last of some use cases, in the order of the list.
Places(a, ids) == {n \in DOMAIN a.usecase_list : a.usecase_list[n] \in ids}
FirstOf(a, ids) ==
    IF Places(a, ids) = {} THEN "NONE" ELSE a.usecase_list[Min(Places(a, ids))]
LastOf(a, ids) ==
    IF Places(a, ids) = {} THEN "NONE" ELSE a.usecase_list[Max(Places(a, ids))]

ActiveCalls(a) == {i \in DOMAIN a.usecase : IsCall(a.usecase[i])}
ActiveInputs(a) == {i \in DOMAIN a.usecase : IsCapture(a.usecase[i])}
VoipInputs(a) == {i \in ActiveInputs(a) : a.in[i].source = "VOICE_COMMUNICATION"}

adev_get_active_input(a) == LastOf(a, ActiveInputs(a))

\* In communication mode any input will do.
get_voice_communication_input(a) ==
    IF VoipInputs(a) # {} THEN FirstOf(a, VoipInputs(a))
    ELSE IF a.mode = "IN_COMMUNICATION" THEN adev_get_active_input(a)
    ELSE "NONE"

\* The first active input of the highest source priority.
get_priority_input(a) ==
    FirstOf(a, IF VoipInputs(a) # {} THEN VoipInputs(a) ELSE ActiveInputs(a))

\* The microphone that goes with an output, in a call or without an input device.
MicOf(out_device, headset, other) ==
    CASE "EARPIECE" \in out_device -> "HANDSET_MIC"
      [] "EARPIECE" \notin out_device /\ "WIRED_HEADSET" \in out_device -> headset
      [] out_device \cap {"EARPIECE", "WIRED_HEADSET"} = {} /\ "SCO" \in out_device ->
            "BT_SCO_MIC"
      [] OTHER -> other

\* The microphone of an input device; a voice-over-IP call on the speaker takes
\* the one on the back.
InputMic(in_device, voice_comm, out_device) ==
    IF voice_comm /\ "SPEAKER" \in out_device THEN "SPEAKER_MIC"
    ELSE CASE in_device = "MIC" -> "HANDSET_MIC"
           [] in_device = "HEADSET_MIC" -> "HEADSET_MIC"
           [] in_device = "SCO_MIC" -> "BT_SCO_MIC"
           [] OTHER -> IF voice_comm THEN MicOf(out_device, "HEADSET_MIC", "HANDSET_MIC")
                       ELSE "NONE"

InputSndDevice(a, in, out_device) ==
    IF out_device # {} /\ a.in_call
    THEN MicOf(out_device, "VOICE_HEADSET_MIC", "VOICE_SPEAKER_MIC")
    ELSE InputMic(IF in = "NONE" THEN "NONE" ELSE a.in[in].device,
                  \/ a.mode = "IN_COMMUNICATION"
                  \/ in # "NONE" /\ a.in[in].source = "VOICE_COMMUNICATION",
                  out_device)

\* Without a stream the last active input decides; with a call on, the output.
platform_get_input_snd_device(a, stream, out_device) ==
    InputSndDevice(a, IF stream = "NONE" THEN adev_get_active_input(a) ELSE stream,
                   out_device)
-----------------------------------------------------------------------------
(* Mixer paths and reference counts. *)

route_path(u) ==
    <<u.id, backend_tag(IF IsCapture(u) THEN u.in_snd_device ELSE u.out_snd_device)>>

enable_audio_route(a, id) == [a EXCEPT !.paths = @ \cup {route_path(a.usecase[id])}]
disable_audio_route(a, id) == [a EXCEPT !.paths = @ \ {route_path(a.usecase[id])}]

\* A device that comes on takes a reference on each of its parts.
enable_snd_device(a, d) ==
    LET parts == platform_can_split_snd_device(d)
        taken == IF a.snd_dev_ref_cnt[d] = 0 THEN parts \cup {d} ELSE {d}
    IN  IF d = "NONE" THEN a
        ELSE [a EXCEPT !.snd_dev_ref_cnt =
                 [e \in SndDevices |-> IF e \in taken THEN @[e] + 1 ELSE @[e]]]

\* Mutant: a combination that goes off keeps its parts.
disable_snd_device_keeps_parts(a, d) ==
    IF d = "NONE" \/ a.snd_dev_ref_cnt[d] = 0 THEN a
    ELSE [a EXCEPT !.snd_dev_ref_cnt[d] = @ - 1]

\* A device that goes off gives them back; a count never goes below 0.
disable_snd_device(a, d) ==
    LET parts == platform_can_split_snd_device(d)
        given == IF a.snd_dev_ref_cnt[d] = 1 THEN parts \cup {d} ELSE {d}
    IN  IF d = "NONE" \/ a.snd_dev_ref_cnt[d] = 0 THEN a
        ELSE [a EXCEPT !.snd_dev_ref_cnt =
                 [e \in SndDevices |->
                     IF e \in given /\ @[e] > 0 THEN @[e] - 1 ELSE @[e]]]

\* voice_set_sidetone: some devices of a call have a path of their own for it.
sidetone_path(d) == CASE d = "VOICE_HANDSET" -> {"sidetone-handset"}
                      [] d = "VOICE_HEADSET" -> {"sidetone-headphones"}
                      [] OTHER -> {}
voice_set_sidetone(a, d, enable) ==
    [a EXCEPT !.sidetone = IF enable THEN @ \cup sidetone_path(d)
                           ELSE @ \ sidetone_path(d)]

\* The width of the codec's port is set; a change restarts what plays there.
platform_check_and_set_playback_backend_cfg(a, d) ==
    LET codec == (platform_can_split_snd_device(d) \cup {d}) \ {"BT_SCO", "SPEAKER_AND_BT_SCO"}
    IN  IF codec = {} THEN a
        ELSE [a EXCEPT !.bit_width = backend_bit_width(CHOOSE e \in codec : TRUE)]
-----------------------------------------------------------------------------
(* Routing. *)

\* The loops of check_and_route_*_usecases: all routes of the targets off, all
\* their devices off, then each target on its new device.  side says which of
\* the two devices of a use case is meant.
Move(a, id, side, d) ==
    enable_audio_route([enable_snd_device(a, d) EXCEPT !.usecase[id][side] = d], id)

RoutesOff(a, targets) == list_for_each(a, targets, disable_audio_route)
DevicesOff(a, targets, side) ==
    list_for_each(a, targets, LAMBDA b, id : disable_snd_device(b, b.usecase[id][side]))
Moved(a, targets, side, new) ==
    list_for_each(a, targets, LAMBDA b, id : Move(b, id, side, new[id]))

Reroute(a, targets, side, new) ==
    Moved(DevicesOff(RoutesOff(a, targets), targets, side), targets, side, new)

\* Where a use case on d1 goes that has to make room for a stream on d2: one
\* that shares a device with it may keep its own combination.
SharedSndDevice(d1, d2, devices1, devices2) ==
    IF devices1 # devices2 /\ devices1 \cap devices2 # {}
    THEN IF platform_can_split_snd_device(IF Cardinality(devices1) > 1 THEN d1 ELSE d2) = {}
         THEN d2 ELSE d1
    ELSE IF platform_check_backends_match(d1, d2) THEN d2 ELSE d1

derive_playback_snd_device(a, uc, new_uc, d2) ==
    SharedSndDevice(uc.out_snd_device, d2, out_devices(a, uc), out_devices(a, new_uc))

PlaybackTargets(a, id, d, force_routing) ==
    {i \in DOMAIN a.usecase \ {id} :
        /\ ~IsCapture(a.usecase[i])
        /\ \/ force_routing
           \/ /\ a.usecase[i].out_snd_device # d
              /\ a.usecase[i].devices \cap CodecBackend # {}
              /\ platform_check_backends_match(d, a.usecase[i].out_snd_device)}

MakeRoomOut(a, id, d, force_routing) ==
    LET targets == PlaybackTargets(a, id, d, force_routing)
    IN  Reroute(a, targets, "out_snd_device",
                [i \in targets |->
                    derive_playback_snd_device(a, a.usecase[i], a.usecase[id], d)])

check_and_route_playback_usecases(a, id, d) ==
    LET set == platform_check_and_set_playback_backend_cfg(a, d)
    IN  MakeRoomOut(set, id, d, set.bit_width # a.bit_width)

\* Mutant: other inputs stay where they are.
check_and_route_capture_nothing(a, id, d) == a

CaptureTargets(a, id, d) ==
    {i \in DOMAIN a.usecase \ {id} :
        /\ a.usecase[i].type # "PCM_PLAYBACK"
        /\ a.usecase[i].in_snd_device # d
        /\ platform_check_backends_match(d, a.usecase[i].in_snd_device)}

check_and_route_capture_usecases(a, id, d) ==
    LET targets == CaptureTargets(a, id, d)
    IN  Reroute(a, targets, "in_snd_device", [i \in targets |-> d])

voice_is_call_state_active(a) == \E s \in DOMAIN a.session : a.session[s].current # "INACTIVE"

\* While a call is on the codec, other streams go where the first call is.
FollowedCall(a) ==
    LET first == FirstOf(a, ActiveCalls(a))
    IN  IF a.in_call /\ first # "NONE" /\ a.usecase[first].devices \cap CodecBackend # {}
        THEN a.usecase[first]
        ELSE [out_snd_device |-> "NONE", in_snd_device |-> "NONE"]

\* The sound devices select_devices wants for a use case; call is the call it
\* follows.
WantedOut(a, u, call) ==
    IF IsCapture(u) THEN "NONE"
    ELSE IF ~IsCall(u) /\ call.out_snd_device # "NONE" THEN call.out_snd_device
    ELSE platform_get_output_snd_device(a, out_devices(a, u))

VoipOutDevices(a) ==
    IF Listed(a, "VOIP") THEN a.out["VOIP"].devices
    ELSE IF a.out[primary_output].standby THEN {"SPEAKER"}
    ELSE a.out[primary_output].devices

CaptureIn(a, voip_in) ==
    IF voip_in # "NONE"
    THEN platform_get_input_snd_device(a, voip_in, VoipOutDevices(a))
    ELSE platform_get_input_snd_device(a, get_priority_input(a), {})

WantedIn(a, u, call) ==
    CASE IsCall(u) -> platform_get_input_snd_device(a, "NONE", out_devices(a, u))
      [] u.type = "PCM_PLAYBACK" -> "NONE"
      [] IsCapture(u) -> IF call.in_snd_device # "NONE" THEN call.in_snd_device
                         ELSE CaptureIn(a, get_voice_communication_input(a))

\* The rest of select_devices: leave the old devices, make room on the new ones
\* and take them.  A call that is on takes its sidetone along.
on_call(a, u) == IsCall(u) /\ voice_is_call_state_active(a)

QuietCall(a, u) ==
    IF on_call(a, u) /\ u.out_snd_device # "NONE" /\ u.in_snd_device # "NONE"
    THEN voice_set_sidetone(a, u.out_snd_device, FALSE) ELSE a

RouteOff(a, u) ==
    IF u.out_snd_device = "NONE" /\ u.in_snd_device = "NONE" THEN a
    ELSE disable_audio_route(a, u.id)

Leave(a, u) ==
    disable_snd_device(disable_snd_device(RouteOff(QuietCall(a, u), u),
                           u.out_snd_device), u.in_snd_device)

TakeOut(a, u, out) ==
    enable_snd_device(IF out = "NONE" \/ u.devices \cap CodecBackend = {} THEN a
                      ELSE check_and_route_playback_usecases(a, u.id, out), out)

TakeIn(a, u, in) ==
    IF in = "NONE" THEN a
    ELSE enable_snd_device(check_and_route_capture_usecases(a, u.id, in), in)

Arrive(a, u, out, in) ==
    LET routed == enable_audio_route([a EXCEPT !.usecase[u.id].out_snd_device = out,
                                               !.usecase[u.id].in_snd_device = in], u.id)
    IN  IF on_call(a, u) THEN voice_set_sidetone(routed, out, TRUE) ELSE routed

SwitchDevices(a, u, out, in, force_switch) ==
    IF out = u.out_snd_device /\ in = u.in_snd_device /\ ~force_switch THEN a
    ELSE Arrive(TakeIn(TakeOut(Leave(a, u), u, out), u, in), u, out, in)

\* SwitchDevices for the devices the framework gave u's stream.
SelectOne(a, u, force_switch) ==
    SwitchDevices([a EXCEPT !.usecase[u.id] = u], u,
                  WantedOut(a, u, FollowedCall(a)), WantedIn(a, u, FollowedCall(a)),
                  force_switch)

Refreshed(a, id) ==
    [a.usecase[id] EXCEPT !.devices =
        IF IsCapture(a.usecase[id]) THEN {a.in[id].device}
        ELSE out_devices(a, a.usecase[id])]

\* An output of a voice-over-IP call takes the call's input along before it is
\* switched itself.
WithVoipInput(a, u, voip_in) ==
    IF /\ u.type = "PCM_PLAYBACK" /\ FollowedCall(a).out_snd_device = "NONE"
       /\ u.id = IF Listed(a, "VOIP") THEN "VOIP" ELSE primary_output
       /\ voip_in # "NONE"
    THEN SelectOne(a, Refreshed(a, voip_in), FALSE) ELSE a

select_devices_with_force_switch(a, id, force_switch) ==
    SelectOne(WithVoipInput(a, a.usecase[id], get_voice_communication_input(a)),
              Refreshed(a, id), force_switch)

select_devices(a, id) == select_devices_with_force_switch(a, id, FALSE)
select_with_force(a, id) == select_devices_with_force_switch(a, id, TRUE)
-----------------------------------------------------------------------------
(* Voice sessions. *)

\* A use case gives up its route and its devices and leaves the list.
Withdraw(a, u) ==
    list_remove(disable_snd_device(disable_snd_device(disable_audio_route(a, u.id),
                    u.out_snd_device), u.in_snd_device), u.id)

\* The last call to end turns its sidetone off.
SidetoneOff(a, u) ==
    IF voice_is_call_state_active(a) THEN a
    ELSE voice_set_sidetone(a, u.out_snd_device, FALSE)

voice_stop_usecase(a, s) ==
    Withdraw(SidetoneOff([a EXCEPT !.session[s].current = "INACTIVE"], a.usecase[s]),
             a.usecase[s])

SidetoneOn(a, u) ==
    IF voice_is_call_state_active(a) THEN a
    ELSE voice_set_sidetone(a, u.out_snd_device, TRUE)

\* The session's PCM devices are opened and started once it is routed.
OpenCall(a, s, fails) ==
    IF s \in fails THEN voice_stop_usecase(a, s)
    ELSE [SidetoneOn(a, a.usecase[s]) EXCEPT !.session[s].current = "ACTIVE"]

voice_start_usecase(a, s, fails) ==
    OpenCall(select_devices(
        list_add_tail(a, s, "VOICE_CALL", a.out[a.current_call_output].devices), s),
        s, fails)

\* One session of update_calls.  The driver may refuse to take a call on or off
\* local hold.
Session(a, s, current, new, fails) ==
    CASE current = "INACTIVE" ->
            IF new = "ACTIVE" THEN voice_start_usecase(a, s, fails) ELSE a
      [] current # "INACTIVE" /\ new = "INACTIVE" -> voice_stop_usecase(a, s)
      [] "INACTIVE" \notin {current, new} ->
            IF "LOCAL_HOLD" \in {current, new} /\ s \in fails THEN a
            ELSE [a EXCEPT !.session[s].current = new]

UpdateCall(a, s, fails) == Session(a, s, a.session[s].current, a.session[s].new, fails)

update_calls(a, fails) ==
    LET list == setup.sessions
        after[n \in 0..Len(list)] ==
            IF n = 0 THEN a ELSE UpdateCall(after[n - 1], list[n], fails)
    IN  after[Len(list)]

\* Mutant: the calls are told of no new device.
voice_update_no_devices(a) == a

voice_update_devices_for_all_voice_usecases(a) ==
    list_for_each(a, ActiveCalls(a), select_devices)
-----------------------------------------------------------------------------
(* Streams. *)

\* When a voice-over-IP output stops, the others are placed anew.
stop_output_stream(a, o) ==
    LET b == Withdraw(a, a.usecase[o])
    IN  IF o # "VOIP" THEN b
        ELSE list_for_each(b, DOMAIN b.usecase \ (ActiveInputs(b) \ {"RECORD_VOIP"}),
                           select_devices)

\* opened: the PCM device could be opened and started.
OpenOutput(a, o, opened) == IF opened THEN a ELSE stop_output_stream(a, o)

start_output_stream(a, o, opened) ==
    OpenOutput(select_devices(list_add_tail(a, o, "PCM_PLAYBACK", a.out[o].devices), o),
               o, opened)

\* When the input that decided for all stops, the next one decides.
SelectNext(a, decided) ==
    IF decided /\ get_priority_input(a) # "NONE"
    THEN select_devices(a, get_priority_input(a)) ELSE a

stop_input_stream(a, i) ==
    SelectNext(Withdraw(a, a.usecase[i]), get_priority_input(a) = i)

OpenInput(a, i, opened) == IF opened THEN a ELSE stop_input_stream(a, i)

start_input_stream(a, i, opened) ==
    OpenInput(select_devices(list_add_tail(a, i, "PCM_CAPTURE", {a.in[i].device}), i),
              i, opened)
-----------------------------------------------------------------------------
(* The calls of the framework. *)

\* The HAL after it was opened, its output streams opened for these devices.
Opened(devices) ==
    [usecase_list |-> <<>>, usecase |-> <<>>,
     snd_dev_ref_cnt |-> [d \in SndDevices |-> 0],
     paths |-> {}, sidetone |-> {}, bit_width |-> 16,
     out |-> [o \in setup.outputs |-> [devices |-> devices[o], standby |-> TRUE]],
     in |-> [i \in setup.inputs |-> [device |-> "MIC", standby |-> TRUE,
                source |-> IF i = "RECORD_VOIP" THEN "VOICE_COMMUNICATION" ELSE "MIC"]],
     mode |-> "NORMAL", in_call |-> FALSE, current_call_output |-> "NULL",
     session |-> [s \in ToSet(setup.sessions) |->
                     [current |-> "INACTIVE", new |-> "INACTIVE"]]]

Init ==
    /\ setup \in Setups
    /\ \E devices \in [setup.outputs -> setup.out_devices] : adev = Opened(devices)
    /\ strayed = FALSE

\* A write to a stream in standby; standby is cleared before the start.
out_write(o, opened) ==
    LET a == [adev EXCEPT !.out[o].standby = FALSE]
    IN  /\ adev.out[o].standby
        /\ adev' = [start_output_stream(a, o, opened) EXCEPT !.out[o].standby = ~opened]

out_standby(o) ==
    /\ ~adev.out[o].standby
    /\ adev' = stop_output_stream([adev EXCEPT !.out[o].standby = TRUE], o)

output_drives_call(o) == o = primary_output

\* Routing of an output; the primary output takes the calls along, and starts
\* them in call mode.
out_set_parameters(o, devices, fails) ==
    LET a == [adev EXCEPT !.out[o].devices = devices]
        b == [a EXCEPT !.current_call_output = o]
        called == IF ~output_drives_call(o) THEN a
                  ELSE IF voice_is_call_state_active(a)
                       THEN voice_update_devices_for_all_voice_usecases(b)
                  ELSE IF a.mode = "IN_CALL"
                       THEN update_calls([b EXCEPT !.in_call = TRUE], fails)
                  ELSE a
    IN  adev' = IF a.out[o].standby THEN called ELSE select_devices(called, o)

in_read(i, opened) ==
    /\ adev.in[i].standby
    /\ adev' = [start_input_stream(adev, i, opened) EXCEPT !.in[i].standby = ~opened]

in_standby(i) ==
    /\ ~adev.in[i].standby
    /\ adev' = stop_input_stream([adev EXCEPT !.in[i].standby = TRUE], i)

\* A new source alone moves nothing.
in_set_parameters(i, source, device) ==
    LET a == [adev EXCEPT !.in[i].source = source, !.in[i].device = device]
    IN  adev' = IF device # adev.in[i].device /\ ~a.in[i].standby
                THEN select_devices(a, i) ELSE a

\* voice_stop_call: only the normal mode ends the calls.
voice_stop_call(a) ==
    LET b == [a EXCEPT !.in_call = FALSE]
        ended == [s \in DOMAIN a.session |-> [a.session[s] EXCEPT !.new = "INACTIVE"]]
    IN  IF a.mode = "NORMAL" THEN update_calls([b EXCEPT !.session = ended], {}) ELSE b

adev_set_mode(mode) ==
    LET a == [adev EXCEPT !.mode = mode]
        stopped == [voice_stop_call(a) EXCEPT !.current_call_output = "NULL"]
    IN  /\ mode # adev.mode
        /\ adev' = IF mode \in {"NORMAL", "IN_COMMUNICATION"} /\ adev.in_call
                   THEN list_for_each(stopped, ActiveInputs(stopped), select_with_force)
                   ELSE a

\* update_call_states: telephony announces the state of a session.  A start
\* without current_call_output dereferences a null pointer; the process starts
\* anew.
update_call_states(s, state, fails) ==
    LET a == [adev EXCEPT !.session[s].new = state]
        acts == voice_is_call_state_active(a) \/ (a.in_call /\ a.mode = "IN_CALL")
        crashes == /\ a.current_call_output = "NULL"
                   /\ \E t \in DOMAIN a.session : a.session[t].new = "ACTIVE"
                                                  /\ a.session[t].current = "INACTIVE"
    IN  adev' = CASE ~acts -> a
                  [] acts /\ crashes -> Opened([o \in setup.outputs |-> a.out[o].devices])
                  [] acts /\ ~crashes -> update_calls(a, fails)

Failing == SUBSET ToSet(setup.sessions)

Output ==
    \E o \in setup.outputs :
        \/ \E opened \in BOOLEAN : out_write(o, opened)
        \/ out_standby(o)
        \/ \E devices \in setup.out_devices, fails \in Failing :
              out_set_parameters(o, devices, fails)

Input ==
    \E i \in setup.inputs :
        \/ \E opened \in BOOLEAN : in_read(i, opened)
        \/ in_standby(i)
        \/ \E source \in setup.sources, device \in setup.in_devices :
              in_set_parameters(i, source, device)

Device ==
    \/ \E mode \in setup.modes : adev_set_mode(mode)
    \/ \E s \in ToSet(setup.sessions), state \in setup.call_states, fails \in Failing :
          update_call_states(s, state, fails)

Next ==
    /\ Output \/ Input \/ Device
    /\ strayed' = (strayed \/ (adev.in_call /\ adev'.mode = "IN_COMMUNICATION"
                               /\ voice_is_call_state_active(adev')))
    /\ UNCHANGED setup

Spec == Init /\ [][Next]_vars
-----------------------------------------------------------------------------
(* Properties. *)

TypeOK ==
    /\ DOMAIN adev.usecase = ToSet(adev.usecase_list)
    /\ \A i \in DOMAIN adev.usecase :
          LET u == adev.usecase[i]
          IN  /\ u.out_snd_device \in OutSndDevices \cup {"NONE"}
              /\ u.in_snd_device \in InSndDevices \cup {"NONE"}
              /\ u.id = i /\ u.type \in {"PCM_PLAYBACK", "PCM_CAPTURE", "VOICE_CALL"}
    /\ adev.snd_dev_ref_cnt \in [SndDevices -> Nat]
    /\ adev.bit_width \in {16, 24} /\ adev.in_call \in BOOLEAN
    /\ adev.current_call_output \in {"NULL", primary_output}

UseCases == Range(adev.usecase)

\* Every reference of a sound device is owed to a listed use case on it or to
\* a combination that is on, so that a device goes off with its last user and
\* not before, whatever was switched, forced or failed in between.
RefCounts ==
    \A d \in SndDevices : adev.snd_dev_ref_cnt[d] =
        Cardinality({u \in UseCases : d \in {u.out_snd_device, u.in_snd_device}})
        + Cardinality({c \in SndDevices : d \in platform_can_split_snd_device(c)
                                          /\ adev.snd_dev_ref_cnt[c] > 0})

\* The mixer paths that are on are those of the listed use cases on the
\* devices they are on: a stream that moved leaves no path of its old backend.
PathsMatch == adev.paths = {route_path(u) : u \in UseCases}

\* A stream is listed once while it is out of standby, a call while its session
\* is not inactive; nothing else is listed.
ListMatches ==
    LET ids == {o \in DOMAIN adev.out : ~adev.out[o].standby}
               \cup {i \in DOMAIN adev.in : ~adev.in[i].standby}
               \cup {s \in DOMAIN adev.session : adev.session[s].current # "INACTIVE"}
    IN  DOMAIN adev.usecase = ids /\ Len(adev.usecase_list) = Cardinality(ids)

\* Two use cases that capture over one backend are on one device.
InputsShareDevice ==
    \A u, v \in UseCases :
        platform_check_backends_match(u.in_snd_device, v.in_snd_device)
            => u.in_snd_device = v.in_snd_device

\* While the HAL is in a call every call is where the framework routed the
\* primary output, whatever other streams start, stop and switch.
CallsFollowPrimary ==
    \A u \in UseCases : IsCall(u) /\ adev.in_call =>
        u.out_snd_device = platform_get_output_snd_device(adev, out_devices(adev, u))

\* Sidetone is on only during a call and only on a device the calls are on.
SidetoneMatches == ~strayed =>
    adev.sidetone = UNION {sidetone_path(u.out_snd_device) : u \in {v \in UseCases : IsCall(v)}}

\* "all the usecases that are active on the hardware codec backend are always
\* routed to any one device": two use cases that play over one backend, neither
\* on a combination of two, are on one device.
OutputsShareDevice ==
    \A u, v \in UseCases :
        platform_check_backends_match(u.out_snd_device, v.out_snd_device)
            /\ platform_can_split_snd_device(u.out_snd_device) = {}
            /\ platform_can_split_snd_device(v.out_snd_device) = {}
            => u.out_snd_device = v.out_snd_device

\* voice_stop_call: in normal mode no session has a call, unless the mode went
\* over to communication first, which takes the HAL out of the call but ends no
\* session.
NormalModeHasNoCall ==
    adev.mode = "NORMAL" /\ ~strayed => ~voice_is_call_state_active(adev)

\* References, mixer paths and the use-case list agree with each other and with
\* the streams and sessions, whatever started, stopped, switched or failed.
Consistent == TypeOK /\ RefCounts /\ PathsMatch /\ ListMatches

\* Calls are where the primary output is, with their sidetone, and end with the
\* call mode.
CallsInPlace == CallsFollowPrimary /\ SidetoneMatches /\ NormalModeHasNoCall
=============================================================================
