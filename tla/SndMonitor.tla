----------------------------- MODULE SndMonitor -----------------------------
(***************************************************************************)
(* The sound card monitor (audio/qcom/hal/audio_extn/sndmonitor.c) and the *)
(* listeners the audio HAL gives it (audio_hw.c).  A thread polls the      *)
(* state files of the ADSP sound cards, the codec processors, the SLPI and *)
(* the audio switches, and calls every listener under the listener map's   *)
(* lock when one changes.  The device and each stream keep a card_status   *)
(* of their own, and a stream opened meanwhile takes the device's.         *)
(*                                                                         *)
(* hashmapForEach calls the listeners in an order of its own, so the model *)
(* takes any order.  The device's lock is a variable only where something  *)
(* else is waited for under it.                                            *)
(***************************************************************************)
EXTENDS Integers, Sequences, FiniteSets

CONSTANTS
  SmSources,   \* files monitored, by kind and number: [kind, num]
  SmStreams,   \* streams, inputs and outputs alike
  MaxChanges   \* bound: changes of a state file

\* adev->snd_card
SndCard == [kind |-> "card", num |-> 0]
Adev == "adev"

ASSUME SmSourcesAssumption ==
  SmSources \subseteq [kind : {"card", "cpe", "slpi", "dev"}, num : Nat]
ASSUME SmStreamsAssumption == Adev \notin SmStreams

VARIABLES
  sm_actual,     \* of each source: what its file says
  sm_pending,    \* sources that poll would report
  sm_changes,
  sm_initcheck,
  sm_status,     \* of each monitored source: the status last seen
  sm_listeners,
  sm_maplock,    \* hashmapLock: "free", "monitor" or the stream or device that has it
  sm_monitor,    \* [pc, ready, msg, todo, cur]: the monitor thread
  sm_quit,       \* the byte in intpipe
  sm_adev,       \* [pc, status, lock, platform]
  sm_stream      \* of each stream: [pc, status, lock, active]

smVars == <<sm_actual, sm_pending, sm_changes, sm_initcheck, sm_status, sm_listeners,
            sm_maplock, sm_monitor, sm_quit, sm_adev, sm_stream>>

\* Neither "ONLINE" nor "OFFLINE"
Unknown == "UNKNOWN"

NoMsg == [key |-> "none", num |-> 0, status |-> Unknown]
AtPoll == [pc |-> "poll", ready |-> {}, msg |-> NoMsg, todo |-> {}, cur |-> Adev]

---------------------------------------------------------------------------
(* The files.                                                              *)

Change(s, st) ==
  /\ sm_changes < MaxChanges /\ st # sm_actual[s]
  /\ sm_changes' = sm_changes + 1
  /\ sm_actual' = [sm_actual EXCEPT ![s] = st]
  /\ sm_pending' = sm_pending \cup {s}
  /\ UNCHANGED <<sm_initcheck, sm_status, sm_listeners, sm_maplock, sm_monitor, sm_quit,
                 sm_adev, sm_stream>>

---------------------------------------------------------------------------
(* The monitor thread.                                                     *)

\* Cards, then switches, each in the order they were found.
Before(s, t) ==
  LET rank == [card |-> 0, cpe |-> 1, slpi |-> 2, dev |-> 3]
  IN rank[s.kind] < rank[t.kind] \/ (s.kind = t.kind /\ s.num < t.num)

\* A quit byte ends the thread before anything else that is ready is looked at.
PollReturns ==
  /\ sm_monitor.pc = "poll"
  /\ \/ /\ sm_quit /\ sm_monitor' = [sm_monitor EXCEPT !.pc = "exited"]
     \/ /\ ~sm_quit /\ sm_pending \cap DOMAIN sm_status # {}
        /\ sm_monitor' = [sm_monitor EXCEPT !.pc = "ready",
                                            !.ready = sm_pending \cap DOMAIN sm_status]
  /\ UNCHANGED <<sm_actual, sm_pending, sm_changes, sm_initcheck, sm_status, sm_listeners,
                 sm_maplock, sm_quit, sm_adev, sm_stream>>

\* The parameter a source is reported under; the number is the one within its kind.
KeyOf(s) ==
  CASE s.kind = "card" -> "SND_CARD_STATUS" [] s.kind = "cpe" -> "CPE_STATUS"
    [] s.kind = "slpi" -> "SLPI_STATUS" [] s.kind = "dev" -> "ext_audio_device"

\* The next source of the batch says st: only a change is stored and reported.
Report(s, st) ==
  LET new == st # Unknown /\ st # sm_status[s]
  IN /\ sm_monitor.pc = "ready" /\ s \in sm_monitor.ready
     /\ \A t \in sm_monitor.ready : t # s => Before(s, t)
     /\ sm_pending' = sm_pending \ {s}
     /\ sm_status' = IF new THEN [sm_status EXCEPT ![s] = st] ELSE sm_status
     /\ sm_monitor' =
          [sm_monitor EXCEPT
             !.ready = @ \ {s},
             !.pc = IF new THEN "notify" ELSE "ready",
             !.msg = IF new THEN [key |-> KeyOf(s), num |-> s.num, status |-> st] ELSE NoMsg]
     /\ UNCHANGED <<sm_actual, sm_changes, sm_initcheck, sm_listeners, sm_maplock, sm_quit,
                    sm_adev, sm_stream>>

\* The file is read now, not when poll returned.
on_sndcard_state_update(s) == s.kind # "dev" /\ Report(s, sm_actual[s])

\* A switch is on or off: anything but a nonzero digit is off.
on_dev_event(s) ==
  s.kind = "dev" /\ Report(s, IF sm_actual[s] = "ONLINE" THEN "ONLINE" ELSE "OFFLINE")

BatchDone ==
  /\ sm_monitor.pc = "ready" /\ sm_monitor.ready = {}
  /\ sm_monitor' = AtPoll
  /\ UNCHANGED <<sm_actual, sm_pending, sm_changes, sm_initcheck, sm_status, sm_listeners,
                 sm_maplock, sm_quit, sm_adev, sm_stream>>

\* snd_mon_update: the map stays locked until every listener has returned.
ForEachBegin ==
  /\ sm_monitor.pc = "notify" /\ sm_maplock = "free"
  /\ sm_maplock' = "monitor"
  /\ sm_monitor' = [sm_monitor EXCEPT !.pc = "each", !.todo = sm_listeners]
  /\ UNCHANGED <<sm_actual, sm_pending, sm_changes, sm_initcheck, sm_status, sm_listeners,
                 sm_quit, sm_adev, sm_stream>>

ForEachEnd ==
  /\ sm_monitor.pc = "each" /\ sm_monitor.todo = {}
  /\ sm_maplock' = "free"
  /\ sm_monitor' = [sm_monitor EXCEPT !.pc = "ready", !.msg = NoMsg]
  /\ UNCHANGED <<sm_actual, sm_pending, sm_changes, sm_initcheck, sm_status, sm_listeners,
                 sm_quit, sm_adev, sm_stream>>

\* parse_snd_card_status and the comparison with adev->snd_card.
ForThisCard(msg) == msg.key = "SND_CARD_STATUS" /\ msg.num = SndCard.num

\* adev_snd_mon_cb.  platform_snd_card_update is given a platform that
\* platform_deinit may have freed.
adev_snd_mon_cb ==
  /\ sm_monitor.pc = "each" /\ Adev \in sm_monitor.todo /\ sm_adev.lock = "free"
  /\ sm_adev' = IF ForThisCard(sm_monitor.msg)
                THEN [sm_adev EXCEPT !.status = sm_monitor.msg.status] ELSE sm_adev
  /\ sm_monitor' = [sm_monitor EXCEPT !.todo = @ \ {Adev}]
  /\ UNCHANGED <<sm_actual, sm_pending, sm_changes, sm_initcheck, sm_status, sm_listeners,
                 sm_maplock, sm_quit, sm_stream>>

\* out_snd_mon_cb and in_snd_mon_cb, up to the stream's lock.
StreamCbBegin(x) ==
  /\ sm_monitor.pc = "each" /\ x \in sm_monitor.todo /\ sm_adev.lock = "free"
  /\ sm_monitor' =
       IF ForThisCard(sm_monitor.msg)
       THEN [sm_monitor EXCEPT !.pc = "stream", !.cur = x, !.todo = @ \ {x}]
       ELSE [sm_monitor EXCEPT !.todo = @ \ {x}]
  /\ UNCHANGED <<sm_actual, sm_pending, sm_changes, sm_initcheck, sm_status, sm_listeners,
                 sm_maplock, sm_quit, sm_adev, sm_stream>>

StreamCbStatus ==
  /\ sm_monitor.pc = "stream" /\ sm_stream[sm_monitor.cur].lock = "free"
  /\ sm_stream' = [sm_stream EXCEPT ![sm_monitor.cur].status = sm_monitor.msg.status]
  /\ sm_monitor' = [sm_monitor EXCEPT
                      !.pc = IF sm_monitor.msg.status = "OFFLINE" THEN "standby" ELSE "each"]
  /\ UNCHANGED <<sm_actual, sm_pending, sm_changes, sm_initcheck, sm_status, sm_listeners,
                 sm_maplock, sm_quit, sm_adev>>

\* out_on_error and in_standby take the stream's lock again; an offload stream is
\* stopped and sent an error command instead of being put in standby.
StreamCbStandby ==
  /\ sm_monitor.pc = "standby" /\ sm_stream[sm_monitor.cur].lock = "free"
  /\ sm_stream' = [sm_stream EXCEPT ![sm_monitor.cur].active = FALSE]
  /\ sm_monitor' = [sm_monitor EXCEPT !.pc = "each"]
  /\ UNCHANGED <<sm_actual, sm_pending, sm_changes, sm_initcheck, sm_status, sm_listeners,
                 sm_maplock, sm_quit, sm_adev>>

Monitor ==
  \/ PollReturns \/ (\E s \in SmSources : on_sndcard_state_update(s) \/ on_dev_event(s))
  \/ BatchDone \/ ForEachBegin \/ ForEachEnd
  \/ adev_snd_mon_cb \/ (\E x \in SmStreams : StreamCbBegin(x))
  \/ StreamCbStatus \/ StreamCbStandby

---------------------------------------------------------------------------
(* The device.                                                             *)

\* What enum_sndcards may find: the state files that can be opened.  A codec
\* processor is looked for with a card.
enum_sndcards ==
  {f \in SUBSET {s \in SmSources : s.kind # "dev"} :
     (\E s \in f : s.kind = "cpe") => \E s \in f : s.kind = "card"}

\* The switches whose name has "qc_" in it.
enum_dev_events == {s \in SmSources : s.kind = "dev"}

\* add_new_sndcard: what the file says when it is opened; a switch is not read.
add_new_sndcard(s) ==
  IF s.kind # "dev" /\ sm_actual[s] = "ONLINE" THEN "ONLINE" ELSE "OFFLINE"

\* With no card it fails and every later call is refused.
audio_extn_snd_mon_init(cards) ==
  /\ sm_adev.pc = "closed"
  /\ sm_adev' = [sm_adev EXCEPT !.pc = "opening", !.platform = TRUE]
  /\ IF cards = {}
     THEN UNCHANGED <<sm_initcheck, sm_status, sm_listeners, sm_monitor, sm_pending>>
     ELSE /\ sm_initcheck' = TRUE /\ sm_listeners' = {} /\ sm_monitor' = AtPoll
          /\ sm_status' = [s \in cards \cup enum_dev_events |-> add_new_sndcard(s)]
          /\ sm_pending' = sm_pending \cap enum_dev_events
  /\ UNCHANGED <<sm_actual, sm_changes, sm_maplock, sm_quit, sm_stream>>

\* adev_open registers under the device's lock, and takes the card to be online.
AdevLock ==
  /\ sm_adev.pc = "opening" /\ sm_adev.lock = "free"
  /\ sm_adev' = [sm_adev EXCEPT !.pc = "registering", !.lock = "opener"]
  /\ UNCHANGED <<sm_actual, sm_pending, sm_changes, sm_initcheck, sm_status, sm_listeners,
                 sm_maplock, sm_monitor, sm_quit, sm_stream>>

AdevRegister ==
  /\ sm_adev.pc = "registering" /\ (sm_initcheck => sm_maplock = "free")
  /\ sm_listeners' = IF sm_initcheck THEN sm_listeners \cup {Adev} ELSE sm_listeners
  /\ sm_adev' = [sm_adev EXCEPT !.pc = "open", !.lock = "free", !.status = "ONLINE"]
  /\ UNCHANGED <<sm_actual, sm_pending, sm_changes, sm_initcheck, sm_status, sm_maplock,
                 sm_monitor, sm_quit, sm_stream>>

\* adev_close, with every stream closed: the listener was registered under NULL
\* and is looked for under adev, so it stays; platform_deinit frees the platform.
AdevClose ==
  /\ sm_adev.pc = "open" /\ \A x \in SmStreams : sm_stream[x].pc = "closed"
  /\ sm_initcheck => sm_maplock = "free"
  /\ sm_adev' = [sm_adev EXCEPT !.pc = "closing", !.platform = FALSE]
  /\ UNCHANGED <<sm_actual, sm_pending, sm_changes, sm_initcheck, sm_status, sm_listeners,
                 sm_maplock, sm_monitor, sm_quit, sm_stream>>

\* audio_extn_snd_mon_deinit: the quit byte, then the join.
DeinitQuit ==
  /\ sm_adev.pc = "closing"
  /\ sm_quit' = sm_initcheck
  /\ sm_adev' = [sm_adev EXCEPT !.pc = IF sm_initcheck THEN "joining" ELSE "gone"]
  /\ UNCHANGED <<sm_actual, sm_pending, sm_changes, sm_initcheck, sm_status, sm_listeners,
                 sm_maplock, sm_monitor, sm_stream>>

DeinitJoin ==
  /\ sm_adev.pc = "joining" /\ sm_monitor.pc = "exited"
  /\ sm_adev' = [sm_adev EXCEPT !.pc = "gone"]
  /\ sm_initcheck' = FALSE /\ sm_status' = << >> /\ sm_quit' = FALSE
  /\ UNCHANGED <<sm_actual, sm_pending, sm_changes, sm_listeners, sm_maplock, sm_monitor,
                 sm_stream>>

---------------------------------------------------------------------------
(* Streams.                                                                *)

\* Mutant: the stream registers without holding its own lock.
OpenLock_unlocked(x) ==
  /\ sm_adev.pc = "open" /\ sm_stream[x].pc = "closed"
  /\ sm_stream' = [sm_stream EXCEPT ![x] = [pc |-> "registering", status |-> "ONLINE",
                                            lock |-> "free", active |-> FALSE]]
  /\ UNCHANGED <<sm_actual, sm_pending, sm_changes, sm_initcheck, sm_status, sm_listeners,
                 sm_maplock, sm_monitor, sm_quit, sm_adev>>

\* The end of adev_open_output_stream and adev_open_input_stream: the stream is
\* locked before it registers, and copies the device's status before it unlocks.
OpenLock(x) ==
  /\ sm_adev.pc = "open" /\ sm_stream[x].pc = "closed"
  /\ sm_stream' = [sm_stream EXCEPT ![x] = [pc |-> "registering", status |-> "ONLINE",
                                            lock |-> "opener", active |-> FALSE]]
  /\ UNCHANGED <<sm_actual, sm_pending, sm_changes, sm_initcheck, sm_status, sm_listeners,
                 sm_maplock, sm_monitor, sm_quit, sm_adev>>

OpenRegister(x) ==
  /\ sm_stream[x].pc = "registering" /\ (sm_initcheck => sm_maplock = "free")
  /\ sm_listeners' = IF sm_initcheck THEN sm_listeners \cup {x} ELSE sm_listeners
  /\ sm_stream' = [sm_stream EXCEPT ![x].pc = "copying"]
  /\ UNCHANGED <<sm_actual, sm_pending, sm_changes, sm_initcheck, sm_status, sm_maplock,
                 sm_monitor, sm_quit, sm_adev>>

OpenCopy(x) ==
  /\ sm_stream[x].pc = "copying" /\ sm_adev.lock = "free"
  /\ sm_stream' = [sm_stream EXCEPT ![x].pc = "open", ![x].lock = "free",
                                    ![x].status = sm_adev.status]
  /\ UNCHANGED <<sm_actual, sm_pending, sm_changes, sm_initcheck, sm_status, sm_listeners,
                 sm_maplock, sm_monitor, sm_quit, sm_adev>>

\* start_output_stream and start_input_stream refuse an offline card.
Start(x) ==
  /\ sm_stream[x].pc = "open" /\ ~sm_stream[x].active /\ sm_stream[x].lock = "free"
  /\ sm_stream[x].status = "ONLINE" /\ sm_adev.status = "ONLINE"
  /\ sm_stream' = [sm_stream EXCEPT ![x].active = TRUE]
  /\ UNCHANGED <<sm_actual, sm_pending, sm_changes, sm_initcheck, sm_status, sm_listeners,
                 sm_maplock, sm_monitor, sm_quit, sm_adev>>

\* adev_close_output_stream deregisters first, waiting for a callback under way.
CloseUnregister(x) ==
  /\ sm_stream[x].pc = "open" /\ (sm_initcheck => sm_maplock = "free")
  /\ sm_listeners' = sm_listeners \ {x}
  /\ sm_stream' = [sm_stream EXCEPT ![x].pc = "closing"]
  /\ UNCHANGED <<sm_actual, sm_pending, sm_changes, sm_initcheck, sm_status, sm_maplock,
                 sm_monitor, sm_quit, sm_adev>>

CloseFree(x) ==
  /\ sm_stream[x].pc = "closing" /\ sm_stream[x].lock = "free"
  /\ sm_stream' = [sm_stream EXCEPT ![x].pc = "closed", ![x].active = FALSE]
  /\ UNCHANGED <<sm_actual, sm_pending, sm_changes, sm_initcheck, sm_status, sm_listeners,
                 sm_maplock, sm_monitor, sm_quit, sm_adev>>

SmInit ==
  /\ sm_actual \in [SmSources -> {"ONLINE", "OFFLINE"}]
  /\ \A s \in SmSources : s # SndCard => sm_actual[s] = "OFFLINE"
  /\ sm_pending = {} /\ sm_changes = 0 /\ sm_initcheck = FALSE /\ sm_status = << >>
  /\ sm_listeners = {} /\ sm_maplock = "free"
  /\ sm_monitor = [AtPoll EXCEPT !.pc = "none"] /\ sm_quit = FALSE
  /\ sm_adev = [pc |-> "closed", status |-> "ONLINE", lock |-> "free", platform |-> FALSE]
  /\ sm_stream = [x \in SmStreams |-> [pc |-> "closed", status |-> "ONLINE",
                                       lock |-> "free", active |-> FALSE]]

SmNext ==
  \/ \E s \in SmSources : \E st \in {"ONLINE", "OFFLINE", Unknown} : Change(s, st)
  \/ Monitor
  \/ \E cards \in enum_sndcards : audio_extn_snd_mon_init(cards)
  \/ AdevLock \/ AdevRegister \/ AdevClose \/ DeinitQuit \/ DeinitJoin
  \/ \E x \in SmStreams : \/ OpenLock(x) \/ OpenRegister(x) \/ OpenCopy(x) \/ Start(x)
                          \/ CloseUnregister(x) \/ CloseFree(x)

SmSpec == SmInit /\ [][SmNext]_smVars

---------------------------------------------------------------------------
(* Properties.                                                             *)

\* While no status is being handed out, every open stream has the device's, in
\* whatever order the listeners were called and however the opening of the
\* stream fell among them: a stream locks itself before it registers so that a
\* callback writes after the copy.
StreamsFollowDevice ==
  sm_monitor.pc \in {"none", "poll", "ready", "notify"} =>
    \A x \in SmStreams : sm_stream[x].pc = "open" => sm_stream[x].status = sm_adev.status

\* A callback never reaches a stream that has been freed, because closing
\* deregisters first, nor the device once it is gone.
CallbacksReachLiving ==
  /\ \A x \in SmStreams :
       x \in sm_monitor.todo \/ (sm_monitor.pc \in {"stream", "standby"} /\ sm_monitor.cur = x)
         => sm_stream[x].pc \in {"copying", "open"}
  /\ sm_adev.pc = "gone" => sm_monitor.pc \in {"none", "exited"}

\* An offline card leaves no stream running: once the status has been handed out,
\* a stream that was told is in standby and cannot be started.
OfflineIsIdle ==
  \A x \in SmStreams :
    sm_stream[x].active /\ sm_stream[x].status = "OFFLINE" =>
      sm_monitor.pc = "standby" /\ sm_monitor.cur = x

\* The four kinds of lock wait form no cycle: whoever holds a stream's or the
\* device's lock and waits for the map finds the map free, or held by a monitor
\* that waits for neither.
NoLockCycle ==
  /\ sm_adev.pc = "registering" /\ sm_maplock = "monitor" => sm_monitor.todo = {}
  /\ \A x \in SmStreams :
       sm_stream[x].pc = "registering" /\ sm_maplock = "monitor" =>
         sm_monitor.cur # x \/ sm_monitor.pc = "each"

\* Streams and device agree about the card, safely and without deadlock.
MonitorSound ==
  StreamsFollowDevice /\ CallbacksReachLiving /\ OfflineIsIdle /\ NoLockCycle

=============================================================================
