---------------------------- MODULE PartsProofs ----------------------------
(***************************************************************************)
(* Proofs about three parts that meet other threads under locks, the       *)
(* Peripheral Manager client, the sound-card monitor and the offload       *)
(* stream, and about what the audio HAL reads from outside: the platform   *)
(* information file, the mixer paths and the USB sound cards.              *)
(*                                                                         *)
(* For any number of registrations, deaths of the manager and              *)
(* notifications, no registration outlives its client, a handle names a    *)
(* registration, and a lock is held by the thread that is in its section.  *)
(*                                                                         *)
(* For any set of monitored files, any number of streams and any order of  *)
(* the callbacks, streams follow the device's card status, callbacks reach *)
(* living listeners only, and the locks form no cycle.                     *)
(*                                                                         *)
(* For any document and any number of parses, entries end up in the table  *)
(* their place and attributes say, microphones at their device.            *)
(*                                                                         *)
(* For command lists of every length, the offload stream's handle outlives *)
(* its uses, its state agrees with the driver's, and metadata come first.  *)
(*                                                                         *)
(* For any document, controls and paths, while callers pair their calls, a *)
(* control's count is the number of applications that hold it, the library *)
(* knows what the hardware holds, and a shared control survives a reset.   *)
(*                                                                         *)
(* For any cards, any stream files and any delay of the announcements, the *)
(* table is what is plugged in once they are handled, and what is chosen   *)
(* from it is offered by a card.                                           *)
(***************************************************************************)
EXTENDS PeripheralClient, SndMonitor, PlatformInfo, OffloadStream, AudioRoute, UsbAudio,
        SequenceTheorems, FiniteSetTheorems, WellFoundedInduction, TLAPS

-----------------------------------------------------------------------------
(* The Peripheral Manager client. *)

UserAt ==
  [pc : {"idle", "registering", "accepted", "storing", "transact", "clearing", "cleared",
         "deleting"},
   op : Ops \cup {"none", "register"}, client : Clients \cup {0}, service : Nat]

BinderAt ==
  [pc : {"idle", "notify", "copying", "notifier", "ack", "acking", "transact"},
   client : Clients \cup {0}]

PmTypes ==
  /\ pm_started \in Nat /\ pm_manager \in {0, pm_started}
  /\ pm_table \subseteq Clients /\ pm_votes \subseteq pm_table
  /\ pm_inflight \in Seq(Clients)
  /\ pm_object \in [Clients -> {"none", "live", "freed"}]
  /\ mService \in [Clients -> Nat] /\ \A c \in Clients : mService[c] <= pm_started
  /\ mLock \in [Clients -> {"free", "user", "binder"}]
  /\ pm_handle \in Clients \cup {0}
  /\ pm_user \in UserAt /\ pm_binder \in BinderAt

\* Where the user's thread is, and what it then knows.
UserKnows ==
  /\ pm_user.pc = "idle" => pm_user = Idle
  /\ pm_user.pc \in {"registering", "accepted", "storing"} =>
       /\ pm_user.client \in Clients /\ pm_user.op = "register" /\ pm_handle = 0
       /\ pm_object[pm_user.client] = "live" /\ mService[pm_user.client] = 0
       /\ pm_user.service \in 1..pm_started
  /\ pm_user.pc = "registering" => pm_user.client \notin pm_table
  /\ pm_user.pc \in {"accepted", "storing"} /\ pm_user.service = pm_manager =>
       pm_user.client \in pm_table
  /\ pm_user.pc \in {"transact", "clearing", "cleared", "deleting"} =>
       pm_user.client = pm_handle /\ pm_handle # 0 /\ pm_user.op \in Ops
  /\ pm_user.pc \in {"clearing", "cleared", "deleting"} =>
       pm_user.op = "unregister" /\ pm_user.client \notin pm_table
  /\ pm_user.pc = "deleting" => mService[pm_handle] = 0

\* A lock is held by exactly the thread that is in a section of its client; the
\* binder thread serves a client.
LocksKnown ==
  /\ \A c \in Clients :
       /\ mLock[c] = "user" <=>
            pm_user.client = c /\ pm_user.pc \in {"storing", "transact", "cleared"}
       /\ mLock[c] = "binder" <=>
            pm_binder.client = c /\ pm_binder.pc \in {"copying", "acking", "transact"}
  /\ pm_binder.pc # "idle" => pm_binder.client \in Clients

\* The notifier acknowledges for the user's handle, which unregister may delete
\* under it, but not before it dropped the service; a transaction keeps both.
AckKnown ==
  /\ \A c \in Clients : pm_object[c] # "live" => mService[c] = 0
  /\ pm_binder.pc \in {"ack", "acking"} =>
       pm_binder.client = pm_handle \/ pm_object[pm_binder.client] = "freed"
  /\ pm_binder.pc = "transact" =>
       pm_binder.client = pm_handle /\ mService[pm_handle] # 0

\* A registration belongs to the running manager and to a live client that
\* refers to it, or is about to.
TableKnown ==
  \A c \in pm_table :
    /\ pm_object[c] = "live" /\ pm_manager # 0
    /\ IF pm_user.pc \in {"accepted", "storing"} /\ pm_user.client = c THEN pm_user.service = pm_manager
       ELSE mService[c] = pm_manager

\* A handle names a live client; until unregister has told the manager, the
\* client's manager has it registered if it is the one that runs.
HandleKnown ==
  pm_handle # 0 =>
    /\ pm_object[pm_handle] = "live"
    /\ pm_user.pc \notin {"clearing", "cleared", "deleting"} =>
         mService[pm_handle] # 0 /\ (mService[pm_handle] = pm_manager => pm_handle \in pm_table)

PmIInv == PmTypes /\ UserKnows /\ LocksKnown /\ AckKnown /\ TableKnown /\ HandleKnown
---------------------------------------------------------------------------
(* Initially, and after every step.                                        *)

\* Zero is nobody's handle.
LEMMA NoClientZero == 0 \notin Clients
  BY DEF Clients

\* The head and the tail of the notifications in flight.
LEMMA HeadTail ==
    ASSUME NEW S, NEW s \in Seq(S), s # << >>
    PROVE  Head(s) \in S /\ Tail(s) \in Seq(S)
  OBVIOUS

\* The library starts without a client and without a manager.
LEMMA InitIInv == PmInit => PmIInv
  <1> SUFFICES ASSUME PmInit PROVE PmIInv
    OBVIOUS
  <1> USE NoClientZero DEF PmInit, Idle
  <1>1. PmTypes
    BY DEF PmTypes, UserAt, BinderAt, Ops
  <1> QED
    BY <1>1 DEF PmIInv, UserKnows, LocksKnown, AckKnown, TableKnown, HandleKnown

\* Every step of the user, the binder thread and the manager keeps the invariant.
LEMMA NextIInv == PmIInv /\ [PmNext]_pmVars => PmIInv'
  <1> SUFFICES ASSUME PmIInv, [PmNext]_pmVars PROVE PmIInv'
    OBVIOUS
  <1> USE NoClientZero DEF PmIInv, Idle, PmTypes, UserAt, BinderAt, UserKnows, LocksKnown,
                           AckKnown, TableKnown, HandleKnown, Ops
  <1>1. CASE ManagerStarts
    BY <1>1 DEF ManagerStarts
  <1>2. CASE ManagerDies
    BY <1>2 DEF ManagerDies
  <1>3. CASE RegisterAccepted
    <2>1. PmTypes'
      BY <1>3, ZenonT(60) DEF RegisterAccepted
    <2>2. UserKnows' /\ LocksKnown' /\ AckKnown'
      BY <1>3 DEF RegisterAccepted
    <2>3. TableKnown' /\ HandleKnown'
      BY <1>3 DEF RegisterAccepted
    <2> QED
      BY <2>1, <2>2, <2>3
  <1>4. CASE RegisterFailed
    BY <1>4 DEF RegisterFailed
  <1>5. CASE RegisterStore
    BY <1>5 DEF RegisterStore
  <1>6. CASE CallEnd
    <2>1. PmTypes'
      BY <1>6, ZenonT(60) DEF CallEnd, Transact
    <2>2. LocksKnown' /\ AckKnown'
      BY <1>6 DEF CallEnd
    <2>3. pm_table' \subseteq pm_table /\ (pm_user.op # "unregister" => pm_table' = pm_table)
      BY <1>6 DEF CallEnd, Transact
    <2>4. pm_user.op = "unregister" => pm_user.client \notin pm_table'
      BY <1>6 DEF CallEnd, Transact
    <2>5. UserKnows' /\ HandleKnown'
      BY <1>6, <2>3, <2>4 DEF CallEnd
    <2>6. TableKnown'
      BY <1>6, <2>3 DEF CallEnd
    <2> QED
      BY <2>1, <2>2, <2>5, <2>6
  <1>7. CASE UnregisterClear
    <2>1. PmTypes'
      <3>1. pm_user' \in UserAt
        BY <1>7 DEF UnregisterClear
      <3>2. mService' \in [Clients -> Nat] /\ \A c \in Clients : mService'[c] <= pm_started
        BY <1>7 DEF UnregisterClear
      <3>3. mLock' \in [Clients -> {"free", "user", "binder"}]
        BY <1>7 DEF UnregisterClear
      <3> QED
        BY <1>7, <3>1, <3>2, <3>3 DEF UnregisterClear
    <2>2. UserKnows'
      BY <1>7 DEF UnregisterClear
    <2>3. LocksKnown' /\ AckKnown'
      BY <1>7 DEF UnregisterClear
    <2>4. TableKnown' /\ HandleKnown'
      BY <1>7 DEF UnregisterClear
    <2> QED
      BY <2>1, <2>2, <2>3, <2>4
  <1>8. CASE UnregisterDelete
    BY <1>8 DEF UnregisterDelete
  <1>9. CASE onTransact
    BY <1>9, HeadTail DEF onTransact
  <1>10. CASE NotifyCopy
    <2>1. PmTypes'
      BY <1>10 DEF NotifyCopy, BinderUnlocks, UnchangedByNotify
    <2>2. UserKnows'
      BY <1>10 DEF NotifyCopy, BinderUnlocks, UnchangedByNotify
    <2>3. LocksKnown'
      BY <1>10 DEF NotifyCopy, BinderUnlocks, UnchangedByNotify
    <2>4. AckKnown'
      BY <1>10 DEF NotifyCopy, BinderUnlocks, UnchangedByNotify
    <2>5. TableKnown' /\ HandleKnown'
      BY <1>10 DEF NotifyCopy, BinderUnlocks, UnchangedByNotify
    <2> QED
      BY <2>1, <2>2, <2>3, <2>4, <2>5
  <1>11. CASE UseFreed
    BY <1>11 DEF UseFreed, BinderUnlocks, BinderIdle, UnchangedByNotify
  <1>12. CASE NotifierReturns
    BY <1>12 DEF NotifierReturns, BinderIdle, UnchangedByNotify
  <1>13. CASE AckBegin
    BY <1>13 DEF AckBegin, UnchangedByNotify
  <1>14. CASE AckEnd
    BY <1>14 DEF AckEnd, BinderUnlocks, BinderIdle, Transact
  <1>15. ASSUME NEW c \in Clients, Notify(c) PROVE PmIInv'
    BY <1>15 DEF Notify
  <1>16. ASSUME NEW c \in Clients, RegisterBegin(c) PROVE PmIInv'
    <2>1. PmTypes'
      <3>1. pm_user' \in UserAt
        BY <1>16 DEF RegisterBegin
      <3>2. pm_object' \in [Clients -> {"none", "live", "freed"}]
        BY <1>16, ZenonT(60) DEF RegisterBegin
      <3> QED
        BY <1>16, <3>1, <3>2 DEF RegisterBegin
    <2>2. UserKnows'
      <3>1. CASE pm_manager = 0
        BY <1>16, <3>1 DEF RegisterBegin
      <3>2. CASE pm_manager # 0
        <4>1. c \notin pm_table /\ mService[c] = 0 /\ pm_manager \in 1..pm_started
          BY <1>16, <3>2 DEF RegisterBegin
        <4>2. pm_user' = [pc |-> "registering", op |-> "register", client |-> c,
                          service |-> pm_manager] /\ pm_object'[c] = "live"
          BY <1>16, <3>2 DEF RegisterBegin
        <4> QED
          BY <1>16, <4>1, <4>2 DEF RegisterBegin
      <3> QED
        BY <3>1, <3>2
    <2>3. LocksKnown'
      <3>1. pm_user'.pc \in {"idle", "registering"}
        BY <1>16 DEF RegisterBegin
      <3> QED
        BY <1>16, <3>1 DEF RegisterBegin
    <2>4. AckKnown'
      <3>1. \A d \in Clients : d # c => pm_object'[d] = pm_object[d]
        BY <1>16 DEF RegisterBegin
      <3>2. mService[c] = 0 /\ pm_binder.pc # "transact"
        BY <1>16 DEF RegisterBegin
      <3>3. pm_binder.pc \in {"ack", "acking"} =>
              pm_binder.client # c /\ pm_object[pm_binder.client] = "freed"
        BY <1>16 DEF RegisterBegin
      <3>4. \A d \in Clients : pm_object'[d] # "live" => mService[d] = 0
        BY <3>1, <3>2
      <3>5. /\ pm_binder' = pm_binder /\ mService' = mService /\ pm_handle' = pm_handle
            /\ pm_binder.pc # "idle" => pm_binder.client \in Clients
        BY <1>16 DEF RegisterBegin
      <3> QED
        BY <3>1, <3>2, <3>3, <3>4, <3>5
    <2>5. TableKnown' /\ HandleKnown'
      BY <1>16 DEF RegisterBegin
    <2> QED
      BY <2>1, <2>2, <2>3, <2>4, <2>5
  <1>17. ASSUME NEW op \in Ops, CallBegin(op) PROVE PmIInv'
    BY <1>17 DEF CallBegin
  <1>18. CASE RegisterLock
    <2>1. PmTypes'
      BY <1>18 DEF RegisterLock, UserLocks
    <2>2. UserKnows'
      BY <1>18 DEF RegisterLock, UserLocks
    <2>3. LocksKnown'
      BY <1>18 DEF RegisterLock, UserLocks
    <2>4. AckKnown'
      BY <1>18 DEF RegisterLock, UserLocks
    <2>5. TableKnown' /\ HandleKnown'
      BY <1>18 DEF RegisterLock, UserLocks
    <2> QED
      BY <2>1, <2>2, <2>3, <2>4, <2>5
  <1>19. CASE UnregisterLock
    <2>1. PmTypes'
      BY <1>19 DEF UnregisterLock, UserLocks
    <2>2. UserKnows'
      BY <1>19 DEF UnregisterLock, UserLocks
    <2>3. LocksKnown'
      BY <1>19 DEF UnregisterLock, UserLocks
    <2>4. AckKnown'
      BY <1>19 DEF UnregisterLock, UserLocks
    <2>5. TableKnown' /\ HandleKnown'
      BY <1>19 DEF UnregisterLock, UserLocks
    <2> QED
      BY <2>1, <2>2, <2>3, <2>4, <2>5
  <1>20. CASE NotifyLock
    <2>1. PmTypes'
      BY <1>20 DEF NotifyLock, BinderLocks, UnchangedByNotify
    <2>2. UserKnows'
      BY <1>20 DEF NotifyLock, BinderLocks, UnchangedByNotify
    <2>3. LocksKnown'
      BY <1>20 DEF NotifyLock, BinderLocks, UnchangedByNotify
    <2>4. AckKnown'
      BY <1>20 DEF NotifyLock, BinderLocks, UnchangedByNotify
    <2>5. TableKnown' /\ HandleKnown'
      BY <1>20 DEF NotifyLock, BinderLocks, UnchangedByNotify
    <2> QED
      BY <2>1, <2>2, <2>3, <2>4, <2>5
  <1>21. CASE AckCall
    <2>1. PmTypes'
      BY <1>21 DEF AckCall, UnchangedByNotify
    <2>2. UserKnows'
      BY <1>21 DEF AckCall, UnchangedByNotify
    <2>3. LocksKnown'
      BY <1>21 DEF AckCall, UnchangedByNotify
    <2>4. AckKnown'
      BY <1>21 DEF AckCall, UnchangedByNotify
    <2>5. TableKnown' /\ HandleKnown'
      BY <1>21 DEF AckCall, UnchangedByNotify
    <2> QED
      BY <2>1, <2>2, <2>3, <2>4, <2>5
  <1>22. CASE AckLock
    <2>1. PmTypes'
      BY <1>22 DEF AckLock, BinderLocks, UnchangedByNotify
    <2>2. UserKnows'
      BY <1>22 DEF AckLock, BinderLocks, UnchangedByNotify
    <2>3. LocksKnown'
      BY <1>22 DEF AckLock, BinderLocks, UnchangedByNotify
    <2>4. AckKnown'
      BY <1>22 DEF AckLock, BinderLocks, UnchangedByNotify
    <2>5. TableKnown' /\ HandleKnown'
      BY <1>22 DEF AckLock, BinderLocks, UnchangedByNotify
    <2> QED
      BY <2>1, <2>2, <2>3, <2>4, <2>5
  <1>23. CASE AckRefused
    BY <1>23 DEF AckRefused, BinderUnlocks, BinderIdle, UnchangedByNotify
  <1>24. CASE UNCHANGED pmVars
    BY <1>24 DEF pmVars
  <1> QED
    BY <1>1, <1>2, <1>3, <1>4, <1>5, <1>6, <1>7, <1>8, <1>9, <1>10, <1>11, <1>12, <1>13,
       <1>14, <1>15, <1>16, <1>17, <1>18, <1>19, <1>20, <1>21, <1>22, <1>23, <1>24, ZenonT(60)
    DEF PmNext

\* The inductive invariant holds in every state the library reaches.
LEMMA PmInvariant == PmSpec => []PmIInv
  BY InitIInv, NextIInv, PTL DEF PmSpec

\* No registration outlives its client, a handle outside unregister names a live
\* registered client, a client's lock is held by the thread that is in its section,
\* and no client is deleted or loses its service under an acknowledgement, whenever
\* the manager dies and however late its notifications come.
THEOREM ClientsStaySound == PmSpec => []ClientsSound
  <1>1. PmIInv => NoLeakedRegistration
    BY DEF PmIInv, PmTypes, TableKnown, NoLeakedRegistration
  <1>2. PmIInv => HandleNamesRegistration
    BY DEF PmIInv, PmTypes, UserAt, UserKnows, HandleKnown, HandleNamesRegistration
  <1>3. PmIInv => LockDiscipline
    BY NoClientZero
    DEF PmIInv, PmTypes, UserAt, BinderAt, UserKnows, LocksKnown, AckKnown, HandleKnown,
        LockDiscipline
  <1> QED
    BY <1>1, <1>2, <1>3, PmInvariant, PTL DEF ClientsSound
-----------------------------------------------------------------------------
(* The sound-card monitor. *)

Statuses == {"ONLINE", "OFFLINE", Unknown}

Messages ==
  [key : {"none", "SND_CARD_STATUS", "CPE_STATUS", "SLPI_STATUS", "ext_audio_device"},
   num : Nat, status : Statuses]

MonitorAt ==
  [pc : {"none", "poll", "ready", "notify", "each", "stream", "standby", "exited"},
   ready : SUBSET SmSources, msg : Messages, todo : SUBSET (SmStreams \cup {Adev}),
   cur : SmStreams \cup {Adev}]

AdevAt ==
  [pc : {"closed", "opening", "registering", "open", "closing", "joining", "gone"},
   status : Statuses, lock : {"free", "opener"}, platform : BOOLEAN]

StreamAt ==
  [pc : {"closed", "registering", "copying", "open", "closing"}, status : Statuses,
   lock : {"free", "opener"}, active : BOOLEAN]

SmTypes ==
  /\ sm_actual \in [SmSources -> Statuses] /\ sm_pending \subseteq SmSources
  /\ sm_initcheck \in BOOLEAN /\ sm_listeners \subseteq SmStreams \cup {Adev}
  /\ sm_maplock \in {"free", "monitor"}
  /\ sm_monitor \in MonitorAt /\ sm_adev \in AdevAt
  /\ sm_stream \in [SmStreams -> StreamAt]
  /\ sm_monitor.pc \in {"stream", "standby"} => sm_monitor.cur \in SmStreams

\* The monitor is calling listeners, under the map's lock.
Calling == sm_monitor.pc \in {"each", "stream", "standby"}

\* The thread runs between init and deinit, and holds the map's lock exactly while
\* it calls; whom it has still to call, or is calling, is a listener.
MonitorKnown ==
  /\ sm_monitor.pc \notin {"none", "exited"} => sm_initcheck
  /\ sm_maplock = "monitor" <=> Calling
  /\ ~Calling => sm_monitor.todo = {}
  /\ sm_monitor.todo \subseteq sm_listeners
  /\ sm_monitor.pc \in {"stream", "standby"} =>
       /\ sm_monitor.cur \in sm_listeners
       /\ sm_monitor.cur \notin sm_monitor.todo /\ ForThisCard(sm_monitor.msg)
  /\ sm_monitor.pc = "standby" => sm_monitor.msg.status = "OFFLINE"

\* The phases of the device: listeners and streams exist only while it is open.
DevicePhases ==
  /\ sm_adev.pc = "closed" => ~sm_initcheck /\ sm_monitor.pc = "none"
  /\ sm_adev.pc \in {"closed", "opening", "registering"} => sm_listeners = {}
  /\ sm_adev.pc = "gone" => sm_monitor.pc \in {"none", "exited"}
  /\ \A x \in SmStreams : sm_stream[x].pc # "closed" => sm_adev.pc = "open"

\* While the monitor runs, the open device and the registered streams are its
\* listeners; a stream that is being opened has its own lock.
ListenersKnown ==
  /\ sm_initcheck /\ sm_adev.pc = "open" => Adev \in sm_listeners
  /\ \A x \in SmStreams :
       /\ x \in sm_listeners => sm_stream[x].pc \in {"copying", "open"}
       /\ sm_initcheck /\ sm_stream[x].pc \in {"copying", "open"} => x \in sm_listeners
       /\ sm_stream[x].pc \in {"registering", "copying"} =>
            sm_stream[x].lock = "opener" /\ ~sm_stream[x].active

\* x has not been told the status that is being handed out.
Untold(x) == x \in sm_monitor.todo \/ (sm_monitor.pc = "stream" /\ sm_monitor.cur = x)

\* While a status of this card is handed out, whoever was told has it; a stream
\* that is still copying the device's status has yet to be told.
HandingOut ==
  Calling /\ ForThisCard(sm_monitor.msg) =>
    /\ sm_adev.pc = "open" => Adev \in sm_monitor.todo \/ sm_adev.status = sm_monitor.msg.status
    /\ \A x \in SmStreams :
         /\ sm_stream[x].pc = "open" => Untold(x) \/ sm_stream[x].status = sm_monitor.msg.status
         /\ sm_stream[x].pc = "copying" => Untold(x)

\* Otherwise every open stream has the device's status.
Agreed ==
  ~(Calling /\ ForThisCard(sm_monitor.msg)) =>
    \A x \in SmStreams : sm_stream[x].pc = "open" => sm_stream[x].status = sm_adev.status

SmIInv ==
  /\ SmTypes /\ MonitorKnown /\ DevicePhases /\ ListenersKnown
  /\ HandingOut /\ Agreed /\ OfflineIsIdle
---------------------------------------------------------------------------
(* Types.                                                                  *)

\* A source is reported under a key of its kind.
LEMMA KeyOfRange ==
    ASSUME NEW s \in SmSources
    PROVE  KeyOf(s) \in {"SND_CARD_STATUS", "CPE_STATUS", "SLPI_STATUS", "ext_audio_device"}
           /\ s.num \in Nat
  BY SmSourcesAssumption DEF KeyOf

\* The monitor, the device and every stream start in their types.
LEMMA InitTypes == SmInit => SmTypes
  <1> SUFFICES ASSUME SmInit PROVE SmTypes
    OBVIOUS
  <1>1. AtPoll \in MonitorAt
    BY DEF AtPoll, NoMsg, MonitorAt, Messages, Statuses, Unknown
  <1>2. sm_monitor \in MonitorAt /\ sm_monitor.pc = "none"
    BY <1>1 DEF SmInit, MonitorAt
  <1>3. sm_adev \in AdevAt /\ sm_stream \in [SmStreams -> StreamAt]
    BY DEF SmInit, AdevAt, StreamAt, Statuses
  <1>4. sm_actual \in [SmSources -> Statuses]
    BY DEF SmInit, Statuses
  <1> QED
    BY <1>2, <1>3, <1>4 DEF SmInit, SmTypes

\* Every step keeps the types.
LEMMA TypesKept == SmTypes /\ [SmNext]_smVars => SmTypes'
  <1> SUFFICES ASSUME SmTypes, [SmNext]_smVars PROVE SmTypes'
    OBVIOUS
  <1> USE DEF SmTypes
  <1>1. ASSUME NEW s \in SmSources, NEW st \in {"ONLINE", "OFFLINE", Unknown}, Change(s, st)
        PROVE  SmTypes'
    BY <1>1 DEF Change, Statuses
  <1>2. CASE PollReturns
    BY <1>2, ZenonT(60) DEF PollReturns, MonitorAt
  <1>3. ASSUME NEW s \in SmSources, NEW st \in Statuses, Report(s, st) PROVE SmTypes'
    <2>1. NoMsg \in Messages
      BY DEF NoMsg, Messages, Statuses, Unknown
    <2>2. [key |-> KeyOf(s), num |-> s.num, status |-> st] \in Messages
      BY KeyOfRange DEF Messages
    <2>3. sm_monitor' \in MonitorAt /\ sm_monitor'.pc \in {"notify", "ready"}
      BY <1>3, <2>1, <2>2 DEF Report, MonitorAt
    <2> QED
      BY <1>3, <2>3 DEF Report
  <1>4. ASSUME NEW s \in SmSources, on_sndcard_state_update(s) \/ on_dev_event(s)
        PROVE  SmTypes'
    BY <1>3, <1>4 DEF on_sndcard_state_update, on_dev_event, Statuses
  <1>5. AtPoll \in MonitorAt /\ AtPoll.pc = "poll"
    BY DEF AtPoll, NoMsg, MonitorAt, Messages, Statuses, Unknown
  <1>6. CASE BatchDone
    BY <1>5, <1>6 DEF BatchDone
  <1>7. CASE ForEachBegin
    BY <1>7 DEF ForEachBegin, MonitorAt
  <1>8. CASE ForEachEnd
    <2>1. NoMsg \in Messages
      BY DEF NoMsg, Messages, Statuses, Unknown
    <2> QED
      BY <1>8, <2>1 DEF ForEachEnd, MonitorAt
  <1>9. sm_monitor.msg.status \in Statuses
    BY DEF MonitorAt, Messages
  <1>10. CASE adev_snd_mon_cb
    BY <1>9, <1>10 DEF adev_snd_mon_cb, MonitorAt, AdevAt
  <1>11. ASSUME NEW x \in SmStreams, StreamCbBegin(x) PROVE SmTypes'
    BY <1>11 DEF StreamCbBegin, MonitorAt
  <1>12. CASE StreamCbStatus
    <2>1. sm_stream' \in [SmStreams -> StreamAt]
      BY <1>9, <1>12 DEF StreamCbStatus, StreamAt
    <2> QED
      BY <1>12, <2>1 DEF StreamCbStatus, MonitorAt
  <1>13. CASE StreamCbStandby
    <2>1. sm_stream' \in [SmStreams -> StreamAt]
      BY <1>13, ZenonT(60) DEF StreamCbStandby, StreamAt
    <2> QED
      BY <1>13, <2>1 DEF StreamCbStandby, MonitorAt
  <1>14. ASSUME NEW cards \in enum_sndcards, audio_extn_snd_mon_init(cards) PROVE SmTypes'
    BY <1>5, <1>14 DEF audio_extn_snd_mon_init, AdevAt
  <1>15. CASE AdevLock \/ AdevRegister \/ AdevClose
    BY <1>15 DEF AdevLock, AdevRegister, AdevClose, AdevAt, Statuses
  <1>16. CASE DeinitQuit \/ DeinitJoin
    BY <1>16 DEF DeinitQuit, DeinitJoin, AdevAt
  <1>17. ASSUME NEW x \in SmStreams, sm_stream' \in [SmStreams -> StreamAt],
                UNCHANGED <<sm_actual, sm_pending, sm_initcheck, sm_maplock, sm_monitor, sm_adev>>,
                sm_listeners' \subseteq sm_listeners \cup {x}
         PROVE  SmTypes'
    BY <1>17
  <1>18. ASSUME NEW x \in SmStreams, OpenLock(x) \/ OpenRegister(x) PROVE SmTypes'
    <2>1. sm_stream' \in [SmStreams -> StreamAt]
      <3>1. CASE OpenLock(x)
        BY <3>1 DEF OpenLock, StreamAt, Statuses
      <3>2. CASE OpenRegister(x)
        BY <3>2 DEF OpenRegister, StreamAt
      <3> QED
        BY <1>18, <3>1, <3>2
    <2> QED
      BY <1>17, <1>18, <2>1 DEF OpenLock, OpenRegister
  <1>19. ASSUME NEW x \in SmStreams, OpenCopy(x) PROVE SmTypes'
    <2>1. sm_adev.status \in Statuses
      BY DEF AdevAt
    <2>2. sm_stream' \in [SmStreams -> StreamAt]
      BY <1>19, <2>1, ZenonT(60) DEF OpenCopy, StreamAt
    <2> QED
      BY <1>17, <1>19, <2>2 DEF OpenCopy
  <1>20. ASSUME NEW x \in SmStreams, Start(x) \/ CloseUnregister(x) \/ CloseFree(x)
         PROVE  SmTypes'
    <2>1. sm_stream' \in [SmStreams -> StreamAt]
      BY <1>20, ZenonT(60) DEF Start, CloseUnregister, CloseFree, StreamAt
    <2> QED
      BY <1>17, <1>20, <2>1 DEF Start, CloseUnregister, CloseFree
  <1>21. CASE UNCHANGED smVars
    BY <1>21 DEF smVars
  <1> QED
    BY <1>1, <1>2, <1>4, <1>6, <1>7, <1>8, <1>10, <1>11, <1>12, <1>13, <1>14, <1>15, <1>16,
       <1>18, <1>19, <1>20, <1>21 DEF SmNext, Monitor
---------------------------------------------------------------------------
(* What the threads know of each other.                                    *)

\* Nobody knows anything yet: no monitor, no listener, no stream.
LEMMA InitKnown == SmInit => SmIInv
  <1> SUFFICES ASSUME SmInit PROVE SmIInv
    OBVIOUS
  <1>1. SmTypes
    BY InitTypes
  <1>2. sm_monitor.pc = "none" /\ sm_monitor.todo = {}
    BY DEF SmInit, AtPoll
  <1> QED
    BY <1>1, <1>2 DEF SmInit, SmIInv, Calling, MonitorKnown, DevicePhases, ListenersKnown,
                      HandingOut, Agreed, OfflineIsIdle

\* Every step of the monitor, the device and the streams keeps the invariant.
LEMMA KnownKept == SmIInv /\ [SmNext]_smVars => SmIInv'
  <1> SUFFICES ASSUME SmIInv, [SmNext]_smVars PROVE SmIInv'
    OBVIOUS
  <1>0. SmTypes'
    BY TypesKept DEF SmIInv
  <1> USE <1>0, SmStreamsAssumption DEF SmIInv, SmTypes, MonitorAt, AdevAt, StreamAt, Calling,
          MonitorKnown, DevicePhases, ListenersKnown, Untold, HandingOut, Agreed, OfflineIsIdle
  <1>1. CASE PollReturns
    BY <1>1, ZenonT(60) DEF PollReturns
  <1>2. CASE BatchDone
    BY <1>2 DEF BatchDone, AtPoll
  <1>3. CASE ForEachBegin
    BY <1>3 DEF ForEachBegin
  <1>4. CASE ForEachEnd
    BY <1>4 DEF ForEachEnd
  <1>5. CASE adev_snd_mon_cb
    BY <1>5 DEF adev_snd_mon_cb
  <1>6. CASE StreamCbStatus
    BY <1>6 DEF StreamCbStatus
  <1>7. CASE StreamCbStandby
    BY <1>7 DEF StreamCbStandby
  <1>8. CASE AdevLock
    BY <1>8 DEF AdevLock
  <1>9. CASE AdevRegister
    BY <1>9 DEF AdevRegister
  <1>10. CASE AdevClose
    BY <1>10 DEF AdevClose
  <1>11. CASE DeinitQuit
    BY <1>11 DEF DeinitQuit
  <1>12. CASE DeinitJoin
    BY <1>12 DEF DeinitJoin
  <1>13. ASSUME NEW x \in SmStreams, StreamCbBegin(x) PROVE SmIInv'
    BY <1>13 DEF StreamCbBegin
  <1>14. ASSUME NEW x \in SmStreams, OpenLock(x) PROVE SmIInv'
    BY <1>14 DEF OpenLock
  <1>15. ASSUME NEW x \in SmStreams, OpenRegister(x) PROVE SmIInv'
    BY <1>15 DEF OpenRegister
  <1>16. ASSUME NEW x \in SmStreams, OpenCopy(x) PROVE SmIInv'
    BY <1>16 DEF OpenCopy
  <1>17. ASSUME NEW x \in SmStreams, Start(x) PROVE SmIInv'
    BY <1>17 DEF Start
  <1>18. ASSUME NEW x \in SmStreams, CloseUnregister(x) PROVE SmIInv'
    BY <1>18 DEF CloseUnregister
  <1>19. ASSUME NEW x \in SmStreams, CloseFree(x) PROVE SmIInv'
    BY <1>19 DEF CloseFree
  <1>20. ASSUME NEW s \in SmSources, NEW st, Report(s, st) PROVE SmIInv'
    BY <1>20 DEF Report
  <1>21. ASSUME NEW s \in SmSources, NEW st, Change(s, st) PROVE SmIInv'
    BY <1>21 DEF Change
  <1>22. ASSUME NEW cards \in enum_sndcards, audio_extn_snd_mon_init(cards) PROVE SmIInv'
    BY <1>22 DEF audio_extn_snd_mon_init, AtPoll
  <1>23. CASE UNCHANGED smVars
    BY <1>23 DEF smVars
  <1> QED
    BY <1>1, <1>2, <1>3, <1>4, <1>5, <1>6, <1>7, <1>8, <1>9, <1>10, <1>11, <1>12, <1>13,
       <1>14, <1>15, <1>16, <1>17, <1>18, <1>19, <1>20, <1>21, <1>22, <1>23
    DEF SmNext, Monitor, on_sndcard_state_update, on_dev_event

\* The inductive invariant holds in every state the monitor reaches.
LEMMA SmInvariant == SmSpec => []SmIInv
  BY InitKnown, KnownKept, PTL DEF SmSpec

\* Open streams have the device's card status whenever none is being handed out,
\* callbacks reach only listeners that live, an offline card leaves no stream
\* running, and the locks of the map, the device and the streams form no cycle.
THEOREM MonitorStaysSound == SmSpec => []MonitorSound
  <1>1. SmIInv => StreamsFollowDevice
    BY DEF SmIInv, Agreed, Calling, StreamsFollowDevice
  <1>2. SmIInv => CallbacksReachLiving
    BY DEF SmIInv, SmTypes, MonitorKnown, DevicePhases, ListenersKnown, CallbacksReachLiving
  <1>3. SmIInv => NoLockCycle
    BY DEF SmIInv, SmTypes, MonitorAt, MonitorKnown, Calling, DevicePhases, ListenersKnown,
           NoLockCycle
  <1>4. SmIInv => OfflineIsIdle
    BY DEF SmIInv
  <1> QED
    BY <1>1, <1>2, <1>3, <1>4, SmInvariant, PTL DEF MonitorSound
-----------------------------------------------------------------------------
(* The platform information file. *)

MicMapping == "INPUT_SND_DEVICE_TO_MIC_MAPPING"
Delays == {"AUDIO_SOURCE_DELAY", "AUDIO_OUTPUT_USECASE_DELAY"}
DelayElements == {"audio_input_source_delay", "audio_output_usecase_delay"}

\* Sections that store nothing but delays.
Quiet == Delays \cup {"ROOT", "MODULE", "SND_DEVICES", "INPUT_SND_DEVICE"}

\* A top section is outermost, and a snd_dev is innermost, inside two others.
Nesting ==
  /\ pi_open \in Seq([name : SectionElements \cup {"snd_dev"}, device : InputDevices \cup {NoDevice}])
  /\ pi_open # <<>> => pi_open[1].name \in DOMAIN TopSections
  /\ \A i \in 2 .. Len(pi_open) : pi_open[i].name \in DOMAIN InnerSections \cup {"snd_dev"}
  /\ \A i \in 1 .. Len(pi_open) : pi_open[i].name = "snd_dev" => i > 2 /\ i = Len(pi_open)

\* Outside every element, and in a delay element just before its end, the section
\* is one the element left selected: only delays can be stored then.
OutsideIsQuiet ==
  pi_open = <<>> \/ (Len(pi_open) = 1 /\ pi_open[1].name \in DelayElements) =>
    section \in Quiet

\* While microphones are considered, in_snd_device is the device they are listed
\* under, or none after an error.
DeviceIsEnclosing ==
  do_full_parse /\ section = MicMapping /\ in_snd_device # NoDevice =>
    EnclosingDevice \subseteq {in_snd_device}

PiIInv == Nesting /\ (pi_parsing => OutsideIsQuiet) /\ DeviceIsEnclosing /\ EntriesInPlace

\* A step that stores nothing leaves every entry in place.
LEMMA NothingStored ==
    ASSUME pi_stored' = NotStored
    PROVE  EntriesInPlace'
  BY DEF EntriesInPlace, NothingMisfiled, MicsOfTheirDevice, StoredInside, NotStored

\* What the function of a section does with an entry.
LEMMA SectionEffect ==
    ASSUME NEW form, NEW valid \in BOOLEAN, CallSection(form, valid)
    PROVE  /\ in_snd_device' = in_snd_device
           /\ \/ pi_stored' = NotStored
              \/ /\ pi_stored' = [table |-> section, form |-> form, device |-> NoDevice]
                 /\ section \in DOMAIN FormOf /\ section # "ROOT"
                 /\ section = "MICROPHONE_CHARACTERISTIC" \/ form = FormOf[section]
<1>1. /\ "GAIN_LEVEL_MAPPING" \in DOMAIN FormOf
      /\ "MICROPHONE_CHARACTERISTIC" \in DOMAIN FormOf
  BY DEF FormOf
<1>2. CASE section = "GAIN_LEVEL_MAPPING"
  BY <1>1, <1>2 DEF CallSection, process_gain_db_to_level_map, Store
<1>3. CASE section = "MICROPHONE_CHARACTERISTIC"
  BY <1>1, <1>3 DEF CallSection, process_microphone_characteristic, Store
<1>4. CASE section = "ROOT"
  BY <1>4 DEF CallSection
<1>5. CASE section \notin DOMAIN FormOf
  BY <1>1, <1>4, <1>5 DEF CallSection
<1>6. CASE /\ section \notin {"GAIN_LEVEL_MAPPING", "MICROPHONE_CHARACTERISTIC", "ROOT"}
           /\ section \in DOMAIN FormOf
  <2>1. process_entry(form, valid)
    BY <1>6 DEF CallSection
  <2> QED  BY <1>6, <2>1 DEF process_entry, Store
<1> QED  BY <1>2, <1>3, <1>4, <1>5, <1>6

\* What an entry leaves in the tables and in in_snd_device.
LEMMA EntryEffect ==
    ASSUME NEW tag, NEW form, NEW valid \in BOOLEAN, NEW device,
           Entry(tag, form, valid, device)
    PROVE  /\ \/ pi_stored' = NotStored
              \/ /\ Considered(tag) /\ tag = "mic_info" /\ in_snd_device # NoDevice
                 /\ pi_stored' = [table |-> "MIC_INFO", form |-> form, device |-> in_snd_device]
                 /\ in_snd_device' = in_snd_device
              \/ /\ Considered(tag) /\ tag \notin {"snd_dev", "mic_info"}
                 /\ pi_stored' = [table |-> section, form |-> form, device |-> NoDevice]
                 /\ section \in DOMAIN FormOf /\ section # "ROOT"
                 /\ section = "MICROPHONE_CHARACTERISTIC" \/ form = FormOf[section]
           /\ tag # "snd_dev" \/ ~Considered(tag) => in_snd_device' \in {in_snd_device, NoDevice}
           /\ tag = "snd_dev" /\ Considered(tag) =>
                in_snd_device' = IF form = "in_snd_device" /\ valid THEN device ELSE NoDevice
<1>1. CASE ~Considered(tag)
  BY <1>1 DEF Entry, Ignored
<1>2. CASE Considered(tag) /\ tag = "snd_dev"
  BY <1>2 DEF Entry, process_snd_dev
<1>3. CASE Considered(tag) /\ tag = "mic_info"
  BY <1>3 DEF Entry, process_mic_info, Ignored
<1>4. CASE Considered(tag) /\ tag \notin {"snd_dev", "mic_info"}
  <2>1. CallSection(form, valid)
    BY <1>4 DEF Entry
  <2> QED  BY <1>4, <2>1, SectionEffect
<1> QED  BY <1>1, <1>2, <1>3, <1>4

\* What is considered where only config_params is read, outside every element,
\* and of a device and its microphones.
LEMMA ConsideredWhere ==
    ASSUME NEW tag \in Tags, Considered(tag)
    PROVE  /\ ~do_full_parse => section = "CONFIG_PARAMS" /\ tag = "param"
           /\ tag \in {"snd_dev", "mic_info"} => do_full_parse /\ section = MicMapping
<1>1. AcceptedIn["snd_dev"] = {MicMapping} /\ AcceptedIn["mic_info"] = {MicMapping}
  BY DEF AcceptedIn, MicMapping
<1>2. ~do_full_parse => section = "CONFIG_PARAMS" /\ tag = "param"
  BY DEF Considered
<1>3. tag \in {"snd_dev", "mic_info"} => tag \notin Untested
  BY DEF Untested
<1> QED  BY <1>1, <1>2, <1>3 DEF Considered

\* The quiet sections that store something are those of the delays.
LEMMA QuietStores == Quiet \cap (DOMAIN FormOf \ {"ROOT"}) \subseteq Delays /\ MicMapping \notin Quiet
  BY DEF Quiet, FormOf, Delays, MicMapping

\* An entry ends up where its attributes and its place say.
LEMMA EntryInPlace ==
    ASSUME PiIInv, NEW tag \in Tags, NEW form, NEW valid \in BOOLEAN, NEW device,
           Live, Entry(tag, form, valid, device), UNCHANGED <<do_full_parse, section>>,
           tag # "snd_dev" => pi_open' = pi_open
    PROVE  EntriesInPlace'
<1>1. CASE pi_stored' = NotStored
  BY <1>1, NothingStored
<1>2. CASE /\ Considered(tag) /\ tag = "mic_info" /\ in_snd_device # NoDevice
           /\ pi_stored' = [table |-> "MIC_INFO", form |-> form, device |-> in_snd_device]
           /\ in_snd_device' = in_snd_device
  <2>1. do_full_parse /\ section = MicMapping /\ pi_open' = pi_open
    BY <1>2, ConsideredWhere
  <2>2. EnclosingDevice \subseteq {in_snd_device}
    BY <1>2, <2>1 DEF PiIInv, DeviceIsEnclosing
  <2>3. EnclosingDevice' = EnclosingDevice
    BY <2>1 DEF EnclosingDevice
  <2>4. pi_open # <<>>
    BY <2>1, QuietStores DEF PiIInv, OutsideIsQuiet, Live
  <2>5. pi_stored'.table = "MIC_INFO" /\ pi_stored'.device = in_snd_device
    BY <1>2
  <2>6. NothingMisfiled'
    BY <2>5 DEF NothingMisfiled
  <2>7. MicsOfTheirDevice'
    BY <1>2, <2>2, <2>3, <2>5 DEF MicsOfTheirDevice
  <2>8. StoredInside'
    BY <2>1, <2>4 DEF StoredInside
  <2> QED  BY <2>6, <2>7, <2>8 DEF EntriesInPlace
<1>3. CASE /\ Considered(tag) /\ tag \notin {"snd_dev", "mic_info"}
           /\ pi_stored' = [table |-> section, form |-> form, device |-> NoDevice]
           /\ section \in DOMAIN FormOf /\ section # "ROOT"
           /\ section = "MICROPHONE_CHARACTERISTIC" \/ form = FormOf[section]
  <2>1. pi_stored'.table = section /\ pi_stored'.form = form /\ pi_open' = pi_open
    BY <1>3
  <2>2. "MIC_INFO" \notin DOMAIN FormOf
    BY DEF FormOf
  <2>3. NothingMisfiled'
    BY <1>3, <2>1 DEF NothingMisfiled
  <2>4. MicsOfTheirDevice'
    BY <1>3, <2>1, <2>2 DEF MicsOfTheirDevice
  <2>5. pi_open = <<>> => section \in Quiet
    BY DEF PiIInv, OutsideIsQuiet, Live
  <2>6. pi_open = <<>> => section \in Delays
    BY <1>3, <2>5, QuietStores
  <2>7. ~do_full_parse => section = "CONFIG_PARAMS"
    BY <1>3, ConsideredWhere
  <2>8. StoredInside'
    BY <2>1, <2>6, <2>7 DEF StoredInside, Delays
  <2> QED  BY <2>3, <2>4, <2>8 DEF EntriesInPlace
<1> QED  BY <1>1, <1>2, <1>3, EntryEffect

\* The parser begins outside every element.
LEMMA PiBegins == PiInit => PiIInv
<1> SUFFICES ASSUME PiInit PROVE PiIInv
  OBVIOUS
<1>1. pi_open = <<>> /\ in_snd_device = NoDevice /\ pi_stored = NotStored /\ ~pi_parsing
  BY DEF PiInit
<1>2. EntriesInPlace
  BY <1>1 DEF EntriesInPlace, NothingMisfiled, MicsOfTheirDevice, StoredInside, NotStored
<1> QED  BY <1>1, <1>2 DEF PiIInv, Nesting, DeviceIsEnclosing

\* A parse begins, or ends, outside every element, whatever the last one left.
LEMMA ParseKeeps ==
    ASSUME PiIInv, ParseReturns \/ \E full \in BOOLEAN : platform_info_init(full)
    PROVE  PiIInv'
<1>1. pi_open' = <<>> /\ pi_stored' = NotStored
  BY DEF ParseReturns, platform_info_init
<1>2. Nesting' /\ DeviceIsEnclosing'
  BY <1>1 DEF Nesting, DeviceIsEnclosing, EnclosingDevice
<1>3. (pi_parsing => OutsideIsQuiet)'
  BY DEF ParseReturns, platform_info_init, OutsideIsQuiet, Quiet
<1> QED  BY <1>1, <1>2, <1>3, NothingStored DEF PiIInv

\* The elements of the two kinds are different, and none is an entry.
LEMMA ElementNames ==
    /\ DelayElements \subseteq DOMAIN TopSections
    /\ DOMAIN TopSections \cap DOMAIN InnerSections = {}
    /\ "snd_dev" \notin SectionElements
    /\ "input_snd_device_mic_mapping" \in DOMAIN InnerSections
    /\ \A name \in DelayElements : TopSections[name] \in Quiet
    /\ \A name \in DOMAIN InnerSections : end_section(name) \in Quiet
    /\ \A name \in DOMAIN TopSections : end_section(name) = IF name \in DelayElements THEN section ELSE "ROOT"
  BY DEF DelayElements, TopSections, InnerSections, SectionElements, Quiet, Delays, end_section

\* A section element is opened below others, or as the first.
LEMMA OpenKeeps ==
    ASSUME PiIInv, NEW name \in SectionElements, OpenSection(name)
    PROVE  PiIInv'
<1> DEFINE e == SectionElement(name)
           n == Len(pi_open)
<1>1. /\ pi_open' = Append(pi_open, e) /\ e.name = name
      /\ e \in [name : SectionElements \cup {"snd_dev"}, device : InputDevices \cup {NoDevice}]
      /\ pi_open \in Seq([name : SectionElements \cup {"snd_dev"},
                          device : InputDevices \cup {NoDevice}])
      /\ n \in Nat
  BY DEF OpenSection, SectionElement, PiIInv, Nesting
<1>2. /\ pi_open' \in Seq([name : SectionElements \cup {"snd_dev"},
                           device : InputDevices \cup {NoDevice}])
      /\ Len(pi_open') = n + 1 /\ pi_open'[n + 1] = e
      /\ \A i \in 1 .. n : pi_open'[i] = pi_open[i]
  BY <1>1
<1>3. \A i \in 1 .. n : pi_open[i].name # "snd_dev"
  BY DEF OpenSection, OpenNames
<1>4. \A i \in 1 .. n + 1 : pi_open'[i].name # "snd_dev"
  BY <1>1, <1>2, <1>3, ElementNames
<1>5. EnclosingDevice' = {}
  BY <1>2, <1>4 DEF EnclosingDevice
<1>6. name \in DOMAIN TopSections => n = 0
  BY <1>1 DEF OpenSection
<1>7. name \in DOMAIN InnerSections => n > 0
  BY <1>1 DEF OpenSection
<1>8. Nesting'
  <2>1. pi_open'[1].name \in DOMAIN TopSections
    <3>1. CASE n = 0
      BY <1>1, <1>2, <1>7, <3>1 DEF SectionElements
    <3>2. CASE n > 0
      BY <1>1, <1>2, <3>2 DEF PiIInv, Nesting
    <3> QED  BY <1>1, <3>1, <3>2
  <2>2. \A i \in 2 .. n + 1 : pi_open'[i].name \in DOMAIN InnerSections \cup {"snd_dev"}
    <3> SUFFICES ASSUME NEW i \in 2 .. n + 1
                 PROVE  pi_open'[i].name \in DOMAIN InnerSections \cup {"snd_dev"}
      OBVIOUS
    <3>1. CASE i = n + 1
      BY <1>1, <1>2, <1>6, <3>1 DEF SectionElements
    <3>2. CASE i <= n
      BY <1>1, <1>2, <3>2 DEF PiIInv, Nesting
    <3> QED  BY <1>1, <3>1, <3>2
  <2> QED  BY <1>2, <1>4, <2>1, <2>2 DEF Nesting
<1>9. (pi_parsing => OutsideIsQuiet)'
  <2> SUFFICES ASSUME n = 0, name \in DelayElements PROVE section' \in Quiet
    BY <1>1, <1>2 DEF OutsideIsQuiet
  <2>1. section \in Quiet
    BY <1>1 DEF PiIInv, OutsideIsQuiet, OpenSection, Live
  <2> QED  BY <2>1, ElementNames DEF OpenSection, SectionAfter
<1>10. DeviceIsEnclosing'
  BY <1>5 DEF DeviceIsEnclosing
<1>11. pi_stored' = NotStored
  BY DEF OpenSection
<1> QED  BY <1>8, <1>9, <1>10, <1>11, NothingStored DEF PiIInv

\* All but the last element of a sequence.
LEMMA AllButLast ==
    ASSUME NEW S, NEW q \in Seq(S), q # <<>>
    PROVE  /\ Len(q) \in Nat \ {0} /\ q[Len(q)] \in S
           /\ SubSeq(q, 1, Len(q) - 1) \in Seq(S)
           /\ Len(SubSeq(q, 1, Len(q) - 1)) = Len(q) - 1
           /\ \A i \in 1 .. Len(q) - 1 : SubSeq(q, 1, Len(q) - 1)[i] = q[i]
<1>1. Len(q) \in Nat \ {0} /\ \A i \in 1 .. Len(q) : q[i] \in S
  OBVIOUS
<1> DEFINE m == Len(q) - 1
<1>2. m \in Nat /\ m = m - 1 + 1 /\ \A i \in 1 .. m : q[i] \in S /\ q[1 + i - 1] = q[i]
  BY <1>1
<1> HIDE DEF m
<1>3. /\ SubSeq(q, 1, m) \in Seq(S) /\ Len(SubSeq(q, 1, m)) = m
      /\ \A i \in 1 .. m : SubSeq(q, 1, m)[i] = q[i]
  BY <1>2, SubSeqProperties
<1> QED  BY <1>1, <1>3 DEF m

\* The innermost element ends; a section that it selected ends with it, but for
\* the delays.
LEMMA EndKeeps ==
    ASSUME PiIInv, EndElement
    PROVE  PiIInv'
<1> DEFINE n == Len(pi_open)
           S == [name : SectionElements \cup {"snd_dev"}, device : InputDevices \cup {NoDevice}]
<1>1. /\ pi_open \in Seq(S) /\ pi_open # <<>> /\ n \in Nat \ {0}
      /\ pi_open' = SubSeq(pi_open, 1, n - 1)
  BY DEF EndElement, PiIInv, Nesting
<1>2. pi_open' \in Seq(S) /\ Len(pi_open') = n - 1 /\ \A i \in 1 .. n - 1 : pi_open'[i] = pi_open[i]
  BY <1>1, AllButLast
<1>3. \A i \in 1 .. n - 1 : pi_open[i].name # "snd_dev"
  BY <1>1 DEF PiIInv, Nesting
<1>4. Nesting'
  <2>1. pi_open' # <<>> => n - 1 >= 1
    BY <1>1, <1>2
  <2>2. pi_open' # <<>> => pi_open'[1].name \in DOMAIN TopSections
    BY <1>1, <1>2, <2>1 DEF PiIInv, Nesting
  <2>3. \A i \in 2 .. n - 1 : pi_open'[i].name \in DOMAIN InnerSections \cup {"snd_dev"}
    BY <1>1, <1>2 DEF PiIInv, Nesting
  <2> QED  BY <1>2, <1>3, <2>2, <2>3 DEF Nesting
<1>5. EnclosingDevice' = {}
  BY <1>2, <1>3 DEF EnclosingDevice
<1>6. (pi_parsing => OutsideIsQuiet)'
  <2> SUFFICES ASSUME n - 1 = 0 \/ n - 1 = 1
               PROVE  section' \in Quiet
    BY <1>1, <1>2 DEF OutsideIsQuiet
  <2> DEFINE name == pi_open[n].name
  <2>1. name # "snd_dev"
    BY <1>1 DEF PiIInv, Nesting
  <2>2. name \in SectionElements
    <3>1. pi_open[n] \in S
      BY <1>1, AllButLast
    <3> QED  BY <2>1, <3>1
  <2>3. section' = end_section(name)
    BY <2>2 DEF EndElement
  <2>4. CASE n = 2
    <3>1. name \in DOMAIN InnerSections
      BY <1>1, <2>1, <2>4 DEF PiIInv, Nesting
    <3> QED  BY <2>3, <3>1, ElementNames
  <2>5. CASE n = 1
    <3>1. name = pi_open[1].name /\ name \in DOMAIN TopSections
      BY <1>1, <2>5 DEF PiIInv, Nesting
    <3>2. name \in DelayElements => section \in Quiet
      BY <2>5, <3>1 DEF PiIInv, OutsideIsQuiet, EndElement, Live
    <3>3. "ROOT" \in Quiet
      BY DEF Quiet
    <3> QED  BY <2>3, <3>1, <3>2, <3>3, ElementNames
  <2> QED  BY <1>1, <2>4, <2>5
<1>7. DeviceIsEnclosing'
  BY <1>5 DEF DeviceIsEnclosing
<1>8. pi_stored' = NotStored
  BY DEF EndElement
<1> QED  BY <1>4, <1>6, <1>7, <1>8, NothingStored DEF PiIInv

\* An entry: a device stays open around its microphones, and is then the one they
\* are mapped to.
LEMMA EntryKeeps ==
    ASSUME PiIInv, NEW tag \in Tags, NEW form \in FormsOf(tag), NEW valid \in BOOLEAN,
           NEW device \in (IF tag = "snd_dev" THEN InputDevices ELSE {NoDevice}),
           StartEntry(tag, form, valid, device)
    PROVE  PiIInv'
<1> DEFINE n == Len(pi_open)
           S == [name : SectionElements \cup {"snd_dev"}, device : InputDevices \cup {NoDevice}]
<1>1. EntriesInPlace'
  <2>1. tag # "snd_dev" => pi_open' = pi_open
    BY DEF StartEntry
  <2> QED  BY <2>1, EntryInPlace DEF StartEntry
<1>2. CASE pi_open' = pi_open
  <2>1. Nesting' /\ (pi_parsing => OutsideIsQuiet)'
    BY <1>2 DEF PiIInv, Nesting, OutsideIsQuiet, StartEntry
  <2>2. EnclosingDevice' = EnclosingDevice
    BY <1>2 DEF EnclosingDevice
  <2>3. CASE tag = "snd_dev"
    <3>1. \A i \in 1 .. n : pi_open[i].name # "snd_dev"
      BY <2>3 DEF StartEntry, OpenNames
    <3>2. EnclosingDevice = {}
      BY <3>1 DEF EnclosingDevice
    <3> QED  BY <1>1, <2>1, <2>2, <3>2 DEF PiIInv, DeviceIsEnclosing
  <2>4. CASE tag # "snd_dev"
    <3>1. in_snd_device' \in {in_snd_device, NoDevice}
      BY <2>4, EntryEffect DEF StartEntry
    <3>2. DeviceIsEnclosing'
      BY <2>2, <3>1 DEF PiIInv, DeviceIsEnclosing, StartEntry
    <3> QED  BY <1>1, <2>1, <3>2 DEF PiIInv
  <2> QED  BY <2>3, <2>4
<1>3. CASE pi_open' # pi_open
  <2> DEFINE d == IF form # "other" /\ valid THEN device ELSE NoDevice
             e == [name |-> "snd_dev", device |-> d]
  <2>1. /\ tag = "snd_dev" /\ "input_snd_device_mic_mapping" \in OpenNames
        /\ pi_open' = Append(pi_open, e) /\ "snd_dev" \notin OpenNames
    BY <1>3 DEF StartEntry
  <2>2. d \in InputDevices \cup {NoDevice}
    BY <2>1
  <2> HIDE DEF d
  <2>3. e \in S /\ pi_open \in Seq(S) /\ n \in Nat
    BY <2>2 DEF PiIInv, Nesting
  <2>4. /\ pi_open' \in Seq(S) /\ Len(pi_open') = n + 1 /\ pi_open'[n + 1] = e
        /\ \A i \in 1 .. n : pi_open'[i] = pi_open[i]
    BY <2>1, <2>3
  <2>5. \A i \in 1 .. n : pi_open[i].name # "snd_dev"
    BY <2>1 DEF OpenNames
  <2>6. n >= 2
    <3>1. PICK j \in 1 .. n : pi_open[j].name = "input_snd_device_mic_mapping"
      BY <2>1 DEF OpenNames
    <3>2. j # 1
      BY <2>3, <3>1, ElementNames DEF PiIInv, Nesting
    <3> QED  BY <2>3, <3>2
  <2>7. Nesting'
    <3>1. pi_open'[1].name \in DOMAIN TopSections
      BY <2>3, <2>4, <2>6 DEF PiIInv, Nesting
    <3>2. \A i \in 2 .. n + 1 : pi_open'[i].name \in DOMAIN InnerSections \cup {"snd_dev"}
      BY <2>3, <2>4 DEF PiIInv, Nesting
    <3>3. \A i \in 1 .. n + 1 : pi_open'[i].name = "snd_dev" => i > 2 /\ i = n + 1
      BY <2>3, <2>4, <2>5, <2>6, SMTT(60)
    <3> QED  BY <2>4, <3>1, <3>2, <3>3 DEF Nesting
  <2>8. (pi_parsing => OutsideIsQuiet)'
    BY <2>3, <2>4, <2>6 DEF OutsideIsQuiet
  <2>9. EnclosingDevice' = {d}
    <3>1. {j \in 1 .. Len(pi_open') : pi_open'[j].name = "snd_dev"} = {n + 1}
      BY <2>3, <2>4, <2>5
    <3> QED  BY <2>4, <3>1 DEF EnclosingDevice
  <2>10. DeviceIsEnclosing'
    <3> SUFFICES ASSUME do_full_parse, section = MicMapping PROVE in_snd_device' = d
      BY <2>9 DEF DeviceIsEnclosing, StartEntry
    <3>1. Considered("snd_dev")
      BY DEF Considered, AcceptedIn, MicMapping
    <3>2. in_snd_device' = IF form = "in_snd_device" /\ valid THEN device ELSE NoDevice
      BY <2>1, <3>1, EntryEffect DEF StartEntry
    <3>3. form \in {"other", "in_snd_device"}
      BY <2>1 DEF FormsOf
    <3> QED  BY <3>2, <3>3 DEF d
  <2> QED  BY <1>1, <2>7, <2>8, <2>10 DEF PiIInv
<1> QED  BY <1>2, <1>3

\* Every state of the parser meets the invariant.
LEMMA PiInvariant == PiSpec => []PiIInv
<1>1. PiIInv /\ [PiNext]_piVars => PiIInv'
  <2> SUFFICES ASSUME PiIInv, [PiNext]_piVars PROVE PiIInv'
    OBVIOUS
  <2>1. CASE UNCHANGED piVars
    BY <2>1 DEF piVars, PiIInv, Nesting, OutsideIsQuiet, DeviceIsEnclosing, EnclosingDevice,
         EntriesInPlace, NothingMisfiled, MicsOfTheirDevice, StoredInside
  <2>2. CASE PiNext
    BY <2>2, ParseKeeps, OpenKeeps, EntryKeeps, EndKeeps DEF PiNext
  <2> QED  BY <2>1, <2>2
<1> QED  BY <1>1, PiBegins, PTL DEF PiSpec

\* platform_info.c, an entry is stored only in the table whose attributes it has, a
\* microphone only at the device it is listed under, and a config-only parse stores
\* nothing else, whatever the document and however often it is read.
THEOREM EntriesStayInPlace == PiSpec => []EntriesInPlace
  BY PiInvariant, PTL DEF PiIInv

-----------------------------------------------------------------------------
(* The offload stream.  The invariant adds to the three properties who holds  *)
(* out->lock, what offload_thread_blocked says of the callback thread, and    *)
(* how the fields of a session go together.                                   *)

\* TypeOK in two parts: the fields that are flags, and the others.
OffloadFlags ==
    /\ standby \in BOOLEAN /\ playback_started \in BOOLEAN
    /\ send_new_metadata \in BOOLEAN /\ offload_thread_blocked \in BOOLEAN
    /\ freed \in BOOLEAN /\ titled \in BOOLEAN

OffloadFields ==
    /\ offload_state \in {"IDLE", "PLAYING", "PAUSED"}
    /\ compr \in {"NULL", "setup", "prepared", "running", "paused"}
    /\ apart \in {"none", "start", "pause", "resume", "stop", "reset"}
    /\ offload_cmd_list \in Seq(Commands)
    /\ lock \in {"free", "thread", "client"}
    /\ thread \in {"created", "loop", "asleep", "woken", "call", "return", "ended"}
    /\ cmd \in Commands
    /\ client \in {"idle", "titling", "writing", "stopping", "waiting", "woken",
                   "closing", "joining", "closed"}
    /\ purpose \in {"flush", "standby", "close", "destroy"}
    /\ owed \subseteq {"WRITE_READY", "DRAIN_READY"}

\* out->lock is held exactly in the sections that take it.
LockHeld ==
    /\ lock = "thread" <=> thread = "loop"
    /\ lock = "client" <=> client \in {"titling", "writing", "stopping"}

\* The mark says that the callback thread is out of the lock in a call.
MarkIsTrue == offload_thread_blocked <=> thread \in {"call", "return"}

\* A stream that is not in standby has a handle, one that is in standby is idle
\* and has none once its stop is done; a write has left standby and a standby has
\* entered it; playback_started and offload_state go together; only a thread that
\* has started can have reset them.
SessionFields ==
    /\ ~standby => compr # "NULL"
    /\ client \in {"titling", "writing"} => ~standby
    /\ client \in {"stopping", "waiting", "woken"} /\ purpose \in {"standby", "close"}
          => standby
    /\ standby => offload_state = "IDLE" /\ ~playback_started
    /\ standby /\ ~(client \in {"stopping", "waiting", "woken"}
                      /\ purpose \in {"standby", "close"})
          => compr = "NULL"
    /\ thread = "created" => apart # "reset"
    /\ playback_started <=> offload_state # "IDLE"

\* Metadata not yet sent are asked for, and a write under way has sent them.
MetadataPending ==
    /\ ~titled \/ standby => send_new_metadata
    /\ client \in {"titling", "writing"} => titled

\* The inductive invariant.
OffloadIInv ==
    /\ TypeOK /\ LockHeld /\ MarkIsTrue /\ SessionFields /\ MetadataPending
    /\ HandleAlive /\ StateAgrees /\ MetadataSent

\* The commands that are sent are commands.
LEMMA CommandsSent ==
    \A c \in {"WAIT_FOR_BUFFER", "PARTIAL_DRAIN", "DRAIN", "EXIT"} : c \in Commands
  BY DEF Commands

\* The head and the tail of a list of commands.
LEMMA OffloadHeadTail ==
    ASSUME NEW S, NEW s \in Seq(S), s # <<>>
    PROVE  Head(s) \in S /\ Tail(s) \in Seq(S)
  OBVIOUS

\* A freshly opened stream satisfies the invariant.
LEMMA OffloadInitIInv == Init => OffloadIInv
<1> SUFFICES ASSUME Init PROVE OffloadIInv
  OBVIOUS
<1>1. offload_cmd_list \in Seq(Commands)
  BY DEF Init
<1>2. TypeOK
  BY <1>1, CommandsSent DEF Init, TypeOK
<1> QED
  BY <1>2 DEF Init, OffloadIInv, LockHeld, MarkIsTrue, SessionFields,
         MetadataPending, HandleAlive, StateAgrees, MetadataSent

\* The callback thread keeps the fields in their types.
LEMMA ThreadType == TypeOK /\ OffloadThread => TypeOK'
<1> SUFFICES ASSUME TypeOK, OffloadThread PROVE TypeOK'
  OBVIOUS
<1> USE CommandsSent DEF TypeOK, stream, worker, caller, history, SignalClient
<1>1. CASE ThreadStart
  <2>1. apart' \in {"reset", apart}
    BY <1>1 DEF ThreadStart
  <2>2. /\ lock' = "thread" /\ thread' = "loop"
        /\ offload_state' = "IDLE" /\ playback_started' = FALSE
    BY <1>1 DEF ThreadStart
  <2>3. UNCHANGED <<standby, compr, send_new_metadata, offload_cmd_list,
                    offload_thread_blocked, cmd, client, purpose, freed, titled, owed>>
    BY <1>1 DEF ThreadStart
  <2>4. OffloadFlags'
    BY <2>1, <2>2, <2>3 DEF OffloadFlags
  <2>5. OffloadFields'
    BY <2>1, <2>2, <2>3 DEF OffloadFields
  <2> QED
    BY <2>4, <2>5 DEF OffloadFlags, OffloadFields
<1>2. CASE ThreadSleep
  BY <1>2 DEF ThreadSleep
<1>3. CASE ThreadWake
  BY <1>3 DEF ThreadWake
<1>4. CASE ThreadExit
  BY <1>4 DEF ThreadExit
<1>5. CASE ThreadTake
  <2>1. offload_cmd_list \in Seq(Commands) /\ offload_cmd_list # <<>>
    BY <1>5 DEF ThreadTake
  <2>2. /\ Head(offload_cmd_list) \in Commands
        /\ Tail(offload_cmd_list) \in Seq(Commands)
    BY <2>1, OffloadHeadTail
  <2>3. offload_cmd_list' \in Seq(Commands)
    BY <1>5, <2>2 DEF ThreadTake
  <2>4. CASE compr = "NULL"
    BY <1>5, <2>3, <2>4 DEF ThreadTake
  <2>5. CASE compr # "NULL"
    <3>1. /\ cmd' = Head(offload_cmd_list) /\ thread' = "call" /\ lock' = "free"
          /\ offload_thread_blocked' = TRUE
          /\ UNCHANGED <<stream, send_new_metadata, caller, history>>
      BY <1>5, <2>5 DEF ThreadTake
    <3> QED
      BY <2>2, <2>3, <3>1
  <2> QED
    BY <2>4, <2>5
<1>6. CASE CallReturns
  <2>1. send_new_metadata' \in BOOLEAN
    BY <1>6 DEF CallReturns
  <2>2. thread' = "return"
    BY <1>6 DEF CallReturns
  <2>3. UNCHANGED <<standby, offload_state, playback_started, compr, offload_cmd_list,
                    offload_thread_blocked, cmd, lock, client, purpose, freed, titled,
                    owed, apart>>
    BY <1>6 DEF CallReturns
  <2>4. OffloadFlags'
    BY <2>1, <2>2, <2>3 DEF OffloadFlags
  <2>5. OffloadFields'
    BY <2>1, <2>2, <2>3 DEF OffloadFields
  <2> QED
    BY <2>4, <2>5 DEF OffloadFlags, OffloadFields
<1>7. CASE ThreadReport
  <2>1. /\ thread' = "loop" /\ lock' = "thread" /\ offload_thread_blocked' = FALSE
        /\ client' \in {client, "woken"} /\ owed' \subseteq owed /\ freed' = FALSE
    BY <1>7 DEF ThreadReport
  <2>2. UNCHANGED <<standby, offload_state, playback_started, compr, send_new_metadata,
                    offload_cmd_list, cmd, purpose, titled, apart>>
    BY <1>7 DEF ThreadReport
  <2>3. OffloadFlags'
    BY <2>1, <2>2 DEF OffloadFlags
  <2>4. OffloadFields'
    BY <2>1, <2>2 DEF OffloadFields
  <2> QED
    BY <2>3, <2>4 DEF OffloadFlags, OffloadFields
<1> HIDE DEF TypeOK, SignalClient
<1> QED
  BY <1>1, <1>2, <1>3, <1>4, <1>5, <1>6, <1>7 DEF OffloadThread

\* So does the playback thread.
LEMMA PlaybackType == TypeOK /\ PlaybackThread => TypeOK'
<1> SUFFICES ASSUME TypeOK, PlaybackThread PROVE TypeOK'
  OBVIOUS
<1> USE CommandsSent DEF TypeOK, stream, worker, caller, history, Called
<1>1. CASE WriteBegins
  <2>1. titled' \in BOOLEAN
    BY <1>1 DEF WriteBegins
  <2>2. /\ lock' = "client" /\ client' \in {"titling", "writing"}
        /\ standby' = FALSE /\ compr' \in {"setup", compr}
    BY <1>1 DEF WriteBegins
  <2>3. UNCHANGED <<offload_state, playback_started, send_new_metadata,
                    offload_cmd_list, offload_thread_blocked, thread, cmd, purpose,
                    freed, owed, apart>>
    BY <1>1 DEF WriteBegins
  <2>4. OffloadFlags'
    BY <2>1, <2>2, <2>3 DEF OffloadFlags
  <2>5. OffloadFields'
    BY <2>1, <2>2, <2>3 DEF OffloadFields
  <2> QED
    BY <2>4, <2>5 DEF OffloadFlags, OffloadFields
<1>2. CASE WriteFailsToStart
  BY <1>2 DEF WriteFailsToStart, vars
<1>3. ASSUME NEW r \in {"none", "short", "all", "error"}, WriteEnds(r) PROVE TypeOK'
  <2>1. offload_cmd_list' \in Seq(Commands)
    BY <1>3 DEF WriteEnds, send_offload_cmd_l
  <2>2. send_new_metadata' \in BOOLEAN
    BY <1>3 DEF WriteEnds
  <2>3. /\ offload_state' \in {"IDLE", "PLAYING", "PAUSED"}
        /\ compr' \in {"NULL", "setup", "prepared", "running", "paused"}
        /\ apart' \in {"none", "start", "pause", "resume", "stop", "reset"}
        /\ playback_started' \in BOOLEAN
    BY <1>3 DEF WriteEnds, compress_start
  <2>4. owed' \subseteq {"WRITE_READY", "DRAIN_READY"}
    BY <1>3 DEF WriteEnds
  <2>5. /\ thread' \in {"created", "loop", "asleep", "woken", "call", "return", "ended"}
        /\ offload_thread_blocked' \in BOOLEAN /\ cmd' \in Commands
    BY <1>3 DEF WriteEnds, send_offload_cmd_l
  <2>6. /\ lock' = "free" /\ client' = "idle"
        /\ UNCHANGED <<standby, purpose, freed, titled>>
    BY <1>3 DEF WriteEnds
  <2> QED
    BY <2>1, <2>2, <2>3, <2>4, <2>5, <2>6
<1>4. CASE out_pause
  BY <1>4 DEF out_pause, compress_turn
<1>5. CASE out_resume
  BY <1>5 DEF out_resume, compress_turn
<1>6. ASSUME NEW t \in {"EARLY_NOTIFY", "ALL"}, out_drain(t) PROVE TypeOK'
  BY <1>6 DEF out_drain, send_offload_cmd_l, offload_cmd
<1>7. CASE out_flush
  BY <1>7 DEF out_flush, stop_compressed_output_l, compress_stop
<1>8. ASSUME NEW why \in {"standby", "close"}, out_standby(why) PROVE TypeOK'
  BY <1>8 DEF out_standby, stop_compressed_output_l, compress_stop
<1>9. CASE destroy_offload_callback_thread
  BY <1>9 DEF destroy_offload_callback_thread, stop_compressed_output_l, compress_stop
<1>10. CASE StopWaits
  BY <1>10 DEF StopWaits
<1>11. CASE StopWoken
  BY <1>11 DEF StopWoken
<1>12. CASE Stopped
  <2>1. offload_cmd_list' \in Seq(Commands)
    BY <1>12 DEF Stopped, send_offload_cmd_l
  <2>2. freed' \in BOOLEAN
    BY <1>12 DEF Stopped
  <2> QED
    BY <1>12, <2>1, <2>2 DEF Stopped, send_offload_cmd_l
<1>13. CASE Joined
  BY <1>13 DEF Joined
<1> QED
  BY <1>1, <1>2, <1>3, <1>4, <1>5, <1>6, <1>7, <1>8, <1>9, <1>10, <1>11, <1>12,
     <1>13 DEF PlaybackThread, StopSteps

\* Every step keeps the types.
LEMMA NextType == TypeOK /\ [Next]_vars => TypeOK'
<1> SUFFICES ASSUME TypeOK, [Next]_vars PROVE TypeOK'
  OBVIOUS
<1>1. CASE UNCHANGED vars
  BY <1>1 DEF TypeOK, vars, stream, worker, caller, history
<1> QED
  BY <1>1, ThreadType, PlaybackType DEF Next, GetPosition, Gone

\* The callback thread keeps the invariant: it leaves the loop, and gives up
\* the lock, only with the mark set as it must be, and never touches the handle.
LEMMA ThreadKeeps == OffloadIInv /\ OffloadThread => OffloadIInv'
<1> SUFFICES ASSUME OffloadIInv, OffloadThread PROVE OffloadIInv'
  OBVIOUS
<1>0. TypeOK'
  BY ThreadType DEF OffloadIInv
<1> USE DEF TypeOK, OffloadIInv, LockHeld, MarkIsTrue, SessionFields, MetadataPending,
            HandleAlive, StateAgrees, MetadataSent, stream, worker, caller,
            history, SignalClient
<1>1. CASE ThreadStart
  <2>1. apart' = IF offload_state # "IDLE" THEN "reset" ELSE apart
    BY <1>1 DEF ThreadStart
  <2>2. LockHeld' /\ MarkIsTrue' /\ MetadataPending' /\ HandleAlive' /\ MetadataSent'
    BY <1>1 DEF ThreadStart
  <2>3. SessionFields'
    BY <1>1, <2>1 DEF ThreadStart
  <2>4. offload_state' = "IDLE" /\ compr' = compr
    BY <1>1 DEF ThreadStart
  <2>5. apart # "reset"
    BY <1>1 DEF ThreadStart
  <2>6. StateAgrees'
    BY <2>1, <2>4, <2>5
  <2> QED
    BY <1>0, <2>2, <2>3, <2>6
<1>2. CASE ThreadSleep
  BY <1>0, <1>2 DEF ThreadSleep
<1>3. CASE ThreadWake
  BY <1>0, <1>3 DEF ThreadWake
<1>4. CASE ThreadExit
  BY <1>0, <1>4 DEF ThreadExit
<1>5. CASE ThreadTake
  BY <1>0, <1>5 DEF ThreadTake
<1>6. CASE CallReturns
  BY <1>0, <1>6 DEF CallReturns
<1>7. CASE ThreadReport
  BY <1>0, <1>7 DEF ThreadReport
<1> QED
  BY <1>1, <1>2, <1>3, <1>4, <1>5, <1>6, <1>7 DEF OffloadThread

\* The playback thread keeps the invariant: it closes the handle only where
\* the mark is clear, and every session starts from the state a stop leaves.
LEMMA PlaybackKeeps == OffloadIInv /\ PlaybackThread => OffloadIInv'
<1> SUFFICES ASSUME OffloadIInv, PlaybackThread PROVE OffloadIInv'
  OBVIOUS
<1>0. TypeOK'
  BY PlaybackType DEF OffloadIInv
<1> USE DEF TypeOK, OffloadIInv, LockHeld, MarkIsTrue, SessionFields, MetadataPending,
            HandleAlive, StateAgrees, MetadataSent, stream, worker, caller,
            history, Called
<1>1. CASE WriteBegins
  BY <1>0, <1>1 DEF WriteBegins
<1>2. CASE WriteFailsToStart
  BY <1>0, <1>2 DEF WriteFailsToStart, vars
<1>3. ASSUME NEW r \in {"none", "short", "all", "error"}, WriteEnds(r) PROVE OffloadIInv'
  <2>1. send_new_metadata' <=> send_new_metadata /\ client = "writing"
    BY <1>3 DEF WriteEnds
  <2>2. LockHeld' /\ MarkIsTrue' /\ HandleAlive' /\ MetadataSent'
    <3>1. titled' /\ titled
      BY <1>3 DEF WriteEnds
    <3>2. compr' # "NULL" /\ freed' = freed
      BY <1>3 DEF WriteEnds, compress_start
    <3>3. LockHeld' /\ MarkIsTrue'
      BY <1>3 DEF WriteEnds, send_offload_cmd_l
    <3> QED
      BY <3>1, <3>2, <3>3
  <2>3. /\ UNCHANGED <<standby, purpose>> /\ client' = "idle"
        /\ thread' = "created" => thread = "created"
        /\ ~standby /\ compr # "NULL"
    BY <1>3 DEF WriteEnds, send_offload_cmd_l
  <2>4. SessionFields' /\ StateAgrees'
    <3>1. CASE r \in {"short", "all"} /\ ~playback_started
      <4>1. /\ playback_started' = TRUE /\ offload_state' = "PLAYING"
            /\ compress_start
        BY <1>3, <3>1 DEF WriteEnds
      <4> QED
        BY <4>1, <3>1, <2>3 DEF compress_start
    <3>2. CASE ~(r \in {"short", "all"} /\ ~playback_started)
      <4>1. UNCHANGED <<compr, apart, playback_started, offload_state>>
        BY <1>3, <3>2 DEF WriteEnds
      <4> QED
        BY <4>1, <2>3
    <3> QED
      BY <3>1, <3>2
  <2>5. titled' = titled /\ standby' = standby /\ client' = "idle" /\ ~standby
    BY <1>3 DEF WriteEnds
  <2>6. MetadataPending'
    BY <1>3, <2>1, <2>5 DEF WriteEnds
  <2> QED
    BY <1>0, <2>2, <2>4, <2>6
<1>4. CASE out_pause
  BY <1>0, <1>4 DEF out_pause, compress_turn
<1>5. CASE out_resume
  BY <1>0, <1>5 DEF out_resume, compress_turn
<1>6. ASSUME NEW t \in {"EARLY_NOTIFY", "ALL"}, out_drain(t) PROVE OffloadIInv'
  BY <1>0, <1>6 DEF out_drain, send_offload_cmd_l
<1>7. CASE out_flush
  BY <1>0, <1>7 DEF out_flush, stop_compressed_output_l, compress_stop
<1>8. ASSUME NEW why \in {"standby", "close"}, out_standby(why) PROVE OffloadIInv'
  BY <1>0, <1>8 DEF out_standby, stop_compressed_output_l, compress_stop
<1>9. CASE destroy_offload_callback_thread
  BY <1>0, <1>9 DEF destroy_offload_callback_thread, stop_compressed_output_l, compress_stop
<1>10. CASE StopWaits
  BY <1>0, <1>10 DEF StopWaits
<1>11. CASE StopWoken
  BY <1>0, <1>11 DEF StopWoken
<1>12. CASE Stopped
  <2>1. ~freed'
    BY <1>12 DEF Stopped, StopMustWait
  <2>2. LockHeld' /\ MarkIsTrue'
    BY <1>12 DEF Stopped, send_offload_cmd_l
  <2>3. HandleAlive'
    <3>1. CASE purpose \in {"standby", "close"}
      BY <1>12, <2>1, <3>1 DEF Stopped, StopMustWait
    <3>2. CASE purpose \notin {"standby", "close"}
      BY <1>12, <2>1, <3>2 DEF Stopped, send_offload_cmd_l
    <3> QED
      BY <3>1, <3>2
  <2>4. StateAgrees' /\ MetadataPending' /\ MetadataSent'
    <3>1. UNCHANGED <<offload_state, titled, standby, send_new_metadata>>
      BY <1>12 DEF Stopped
    <3>2. \/ UNCHANGED <<compr, apart>>
          \/ compr' = "NULL" /\ apart' = "none" /\ standby
      BY <1>12 DEF Stopped
    <3>3. client' \notin {"titling", "writing"}
      BY <1>12 DEF Stopped
    <3> QED
      BY <3>1, <3>2, <3>3
  <2>5. /\ UNCHANGED <<standby, offload_state, playback_started>>
        /\ thread' = "created" => thread = "created"
        /\ compr' # "NULL" \/ compr = "NULL" \/ standby
        /\ client' \in {"idle", "closing", "joining"}
    BY <1>12 DEF Stopped, send_offload_cmd_l
  <2>6. /\ apart' = "reset" => apart = "reset"
        /\ \/ compr' = "NULL"
           \/ compr' = compr /\ client = "stopping" /\ purpose \notin {"standby", "close"}
    BY <1>12 DEF Stopped
  <2>7. standby => compr' = "NULL"
    BY <2>6
  <2>8. SessionFields'
    BY <2>5, <2>6, <2>7
  <2> QED
    BY <1>0, <2>2, <2>3, <2>4, <2>8
<1>13. CASE Joined
  BY <1>0, <1>13 DEF Joined
<1> QED
  BY <1>1, <1>2, <1>3, <1>4, <1>5, <1>6, <1>7, <1>8, <1>9, <1>10, <1>11, <1>12,
     <1>13 DEF PlaybackThread, StopSteps

\* Every step of the stream keeps the invariant.
LEMMA OffloadNextIInv == OffloadIInv /\ [Next]_vars => OffloadIInv'
<1> SUFFICES ASSUME OffloadIInv, [Next]_vars PROVE OffloadIInv'
  OBVIOUS
<1>1. CASE UNCHANGED vars
  BY <1>1 DEF OffloadIInv, TypeOK, LockHeld, MarkIsTrue, SessionFields, MetadataPending,
     HandleAlive, StateAgrees, MetadataSent, vars, stream, worker, caller, history
<1> QED
  BY <1>1, ThreadKeeps, PlaybackKeeps DEF Next, GetPosition, Gone

\* The invariant holds in every reachable state of the stream.
THEOREM OffloadInvariant == Spec => []OffloadIInv
  BY OffloadInitIInv, OffloadNextIInv, PTL DEF Spec

\* No blocking call of the callback thread ever has its compress handle closed
\* under it, for command lists of every length.
THEOREM HandleNeverFreed == Spec => []HandleAlive
  BY OffloadInvariant, PTL DEF OffloadIInv

\* Device and HAL agree on playing and paused, whatever the device refuses, but
\* for what StateAgrees says of a refused call until the next one brings them
\* together, and of the callback thread's late reset.
THEOREM DeviceAgrees == Spec => []StateAgrees
  BY OffloadInvariant, PTL DEF OffloadIInv

\* No session plays before its gapless metadata were sent.
THEOREM MetadataFirst == Spec => []MetadataSent
  BY OffloadInvariant, PTL DEF OffloadIInv

-----------------------------------------------------------------------------
(* Numbers. *)

\* A set of natural numbers that is not empty has its minimum.
LEMMA LeastIsMember ==
    ASSUME NEW S, S \subseteq Nat, S # {}
    PROVE  Min(S) \in S /\ \A y \in S : Min(S) <= y
<1> DEFINE Less == {ss \in Nat \X Nat : ss[1] < ss[2]}
<1>1. IsWellFoundedOn(Less, Nat)
  BY NatLessThanWellFounded, Zenon DEF OpToRel
<1>2. PICK x \in S : \A y \in S : ~ (<<y, x>> \in Less)
  <2> HIDE DEF Less
  <2> QED  BY <1>1, WFMin
<1>3. ASSUME NEW y \in S PROVE x =< y
  <2>1. <<y, x>> \in Nat \X Nat /\ <<y, x>>[1] = y /\ <<y, x>>[2] = x
    OBVIOUS
  <2> QED  BY <1>2, <2>1
<1> QED  BY <1>3, Zenon DEF Min

-----------------------------------------------------------------------------
(* The mixer paths: what a document may put into a path. *)

Vectors == UNION {[Elements(c) -> Int] : c \in Ctls}
Setting == [ctl : Supported, value : Vectors]
Paths == [name : STRING, setting : Seq(Setting)]

\* Every control of a path can be written.
PathTypes == mixer_path \in Seq(Paths) /\ ar_todo \in Seq(ArTags)

\* A control is found at its first place, or nowhere.
LEMMA FoundAt ==
    ASSUME NEW S, NEW q \in Seq(S), NEW c
    PROVE  LET i == find_ctl_index_in_path(q, c)
           IN  /\ i = 0 => \A k \in 1 .. Len(q) : q[k].ctl # c
               /\ i # 0 => i \in 1 .. Len(q) /\ q[i].ctl = c
<1> DEFINE I == {i \in 1 .. Len(q) : q[i].ctl = c}
<1>1. find_ctl_index_in_path(q, c) = IF I # {} THEN Min(I) ELSE 0
  BY DEF find_ctl_index_in_path, SelectInSeq
<1>2. I # {} => Min(I) \in I
  <2>1. I \subseteq Nat
    OBVIOUS
  <2> HIDE DEF I
  <2> QED  BY <2>1, LeastIsMember
<1>3. Len(q) \in Nat /\ 0 \notin 1 .. Len(q)
  OBVIOUS
<1>4. CASE I = {}
  BY <1>1, <1>4
<1>5. CASE I # {}
  <2>1. Min(I) \in 1 .. Len(q) /\ q[Min(I)].ctl = c
    BY <1>2, <1>5
  <2> QED  BY <1>1, <1>3, <1>5, <2>1
<1> QED  BY <1>4, <1>5

\* The settings of a path, known or not, are settings.
LEMMA SettingsTyped ==
    ASSUME PathTypes, NEW name
    PROVE  SettingsOf(name) \in Seq(Setting)
<1> DEFINE I == {i \in 1 .. Len(mixer_path) : mixer_path[i].name = name}
<1>1. path_get_by_name(name) = IF I # {} THEN Min(I) ELSE 0
  BY DEF path_get_by_name, SelectInSeq
<1>2. I # {} => Min(I) \in I
  <2>1. I \subseteq Nat
    BY DEF PathTypes
  <2> HIDE DEF I
  <2> QED  BY <2>1, LeastIsMember
<1>3. KnownPath(name) => path_get_by_name(name) \in 1 .. Len(mixer_path)
  BY <1>1, <1>2 DEF KnownPath
<1>4. KnownPath(name) => mixer_path[path_get_by_name(name)] \in Paths
  BY <1>3 DEF PathTypes
<1>5. KnownPath(name) => mixer_path[path_get_by_name(name)].setting \in Seq(Setting)
  BY <1>4 DEF Paths
<1> QED  BY <1>5 DEF SettingsOf

\* The controls of a path can be written.
LEMMA CtlsSupported ==
    ASSUME PathTypes, NEW name
    PROVE  CtlsOf(name) \subseteq Supported
<1>1. \A i \in DOMAIN SettingsOf(name) : SettingsOf(name)[i] \in Setting
  BY SettingsTyped
<1>2. \A s \in Setting : s.ctl \in Supported
  BY DEF Setting
<1> QED  BY <1>1, <1>2 DEF CtlsOf, Range

\* A control is in a list of settings once.
Once(q) == \A j, k \in DOMAIN q : q[j].ctl = q[k].ctl => j = k

\* The values of a usable control tag are a vector of that control.
LEMMA TagVector ==
    ASSUME NEW t \in ArTags, t.tag = "ctl", UsableCtl(t)
    PROVE  t.name \in Supported /\ t.id \in Int /\ TagValues(t) \in [Elements(t.name) -> Int]
<1>1. t \in [tag : {"ctl"}, name : STRING, id : Int, value : Seq(Int)]
  BY DEF ArTags
<1>2. /\ t.name \in Supported /\ t.name \in Ctls /\ t.value # <<>>
      /\ CtlType[t.name] \in {"BOOL", "INT", "BYTE", "ENUM"}
      /\ t.id \in Int /\ t.value \in Seq(Int) /\ NumValues[t.name] \in Nat \ {0}
      /\ CtlType[t.name] \in {"INT", "BYTE"} /\ t.id = NoId => Len(t.value) >= NumValues[t.name]
  BY <1>1, CtlsAssumption DEF UsableCtl, Supported, is_supported_ctl_type, HasValue
<1>3. t.value[1] \in Int
  BY <1>2
<1>4. mixer_enum_string_to_value(t.value[1]) \in Int
  BY <1>3 DEF mixer_enum_string_to_value
<1>5. ASSUME NEW j \in Elements(t.name)
      PROVE  TagValues(t)[j] \in Int
  <2>1. j \in 1 .. NumValues[t.name]
    BY DEF Elements
  <2>2. CASE CtlType[t.name] = "BOOL"
    BY <1>3, <2>2 DEF TagValues
  <2>3. CASE CtlType[t.name] = "ENUM"
    BY <1>4, <2>3 DEF TagValues
  <2>4. CASE CtlType[t.name] \in {"INT", "BYTE"}
    <3>1. (t.id # NoId /\ j > 1) \/ t.value[j] \in Int
      BY <1>2, <1>3, <2>1, <2>4
    <3>2. t.value[j] \in Int => t.value[j] % 256 \in Int
      OBVIOUS
    <3> QED  BY <2>4, <3>1, <3>2 DEF TagValues
  <2> QED  BY <1>2, <2>2, <2>3, <2>4
<1>6. TagValues(t) = [j \in Elements(t.name) |-> TagValues(t)[j]]
  BY DEF TagValues
<1> QED  BY <1>2, <1>5, <1>6

\* A vector stays one when an element or all of it is set.
LEMMA SetVector ==
    ASSUME NEW c \in Ctls, NEW vals \in [Elements(c) -> Int], NEW value \in Vectors, NEW index
    PROVE  SetElements(value, index, vals) \in Vectors
<1>1. PICK d \in Ctls : value \in [Elements(d) -> Int]
  BY DEF Vectors
<1>2. vals[1] \in Int
  BY CtlsAssumption DEF Elements
<1>3. [value EXCEPT ![index + 1] = vals[1]] \in [Elements(d) -> Int]
  BY <1>1, <1>2
<1>4. vals \in Vectors /\ [value EXCEPT ![index + 1] = vals[1]] \in Vectors
  BY <1>1, <1>3 DEF Vectors
<1> QED  BY <1>4 DEF SetElements

\* A control tag adds its control, or sets the value of the one that is there.
LEMMA AddValueOnce ==
    ASSUME NEW q \in Seq(Setting), Once(q), NEW c \in Supported, NEW index \in Int,
           NEW vals \in [Elements(c) -> Int]
    PROVE  path_add_value(q, c, index, vals) \in Seq(Setting) /\ Once(path_add_value(q, c, index, vals))
<1> DEFINE n == NewSetting(c, vals)
           with == path_add_setting(q, n)
           i == find_ctl_index_in_path(with, c)
<1>1. c \in Ctls /\ vals[1] \in Int
  BY CtlsAssumption DEF Supported, Elements
<1>2. n \in Setting /\ n.ctl = c
  <2>1. [j \in Elements(c) |-> IF j = 1 THEN vals[1] ELSE 0] \in [Elements(c) -> Int]
    BY <1>1
  <2>2. [j \in Elements(c) |-> IF j = 1 THEN vals[1] ELSE 0] \in Vectors
    BY <1>1, <2>1 DEF Vectors
  <2> QED  BY <2>2 DEF NewSetting, Setting
<1> HIDE DEF n
<1>3. with \in Seq(Setting) /\ Once(with)
  <2>1. CASE find_ctl_index_in_path(q, c) # 0
    BY <1>2, <2>1 DEF path_add_setting
  <2>2. CASE find_ctl_index_in_path(q, c) = 0
    <3>1. with = Append(q, n)
      BY <1>2, <2>2 DEF path_add_setting
    <3>2. \A k \in 1 .. Len(q) : q[k].ctl # c
      BY <2>2, FoundAt
    <3>3. /\ with \in Seq(Setting) /\ Len(with) = Len(q) + 1 /\ with[Len(q) + 1] = n
          /\ \A k \in 1 .. Len(q) : with[k] = q[k]
      BY <1>2, <3>1, AppendProperties
    <3>4. DOMAIN with = 1 .. Len(q) + 1 /\ DOMAIN q = 1 .. Len(q) /\ Len(q) \in Nat
      BY <3>3
    <3>5. Once(with)
      BY <1>2, <3>2, <3>3, <3>4 DEF Once
    <3> QED  BY <3>3, <3>5
  <2> QED  BY <2>1, <2>2
<1> HIDE DEF with
<1> DEFINE r == [with EXCEPT ![i].value = SetElements(@, index, vals)]
<1>4. path_add_value(q, c, index, vals) = IF index >= NumValues[c] THEN q ELSE r
  BY DEF path_add_value, n, with
<1>5. /\ DOMAIN r = DOMAIN with /\ DOMAIN with = 1 .. Len(with) /\ Len(with) \in Nat
      /\ \A k \in DOMAIN with : with[k] \in Setting
  BY <1>3
<1>6. ASSUME NEW k \in DOMAIN with
      PROVE  r[k] \in Setting /\ r[k].ctl = with[k].ctl
  <2>1. CASE k # i
    BY <1>5, <2>1
  <2>2. CASE k = i
    <3>1. with[k].value \in Vectors /\ with[k].ctl \in Supported
      BY <1>5 DEF Setting
    <3>2. SetElements(with[k].value, index, vals) \in Vectors
      BY <1>1, <3>1, SetVector
    <3>3. r[k] = [with[k] EXCEPT !.value = SetElements(with[k].value, index, vals)]
      BY <1>5, <2>2
    <3> QED  BY <1>5, <3>2, <3>3 DEF Setting
  <2> QED  BY <2>1, <2>2
<1> HIDE DEF r, i
<1>7. r \in Seq(Setting)
  <2>1. r = [k \in 1 .. Len(with) |-> r[k]]
    BY <1>5 DEF r
  <2> QED  BY <1>5, <1>6, <2>1
<1>8. Once(r)
  BY <1>3, <1>5, <1>6 DEF Once
<1> QED  BY <1>4, <1>7, <1>8

\* A nested path adds its controls up to the first that is already there.
LEMMA AddPathOnce ==
    ASSUME NEW q \in Seq(Setting), Once(q), NEW sub \in Seq(Setting), Once(sub)
    PROVE  path_add_path(q, sub) \in Seq(Setting) /\ Once(path_add_path(q, sub))
<1> DEFINE I == {i \in 1 .. Len(sub) : find_ctl_index_in_path(q, sub[i].ctl) # 0}
           clash == IF I # {} THEN Min(I) ELSE 0
           m == IF clash = 0 THEN Len(sub) ELSE clash - 1
           part == IF clash = 0 THEN sub ELSE SubSeq(sub, 1, clash - 1)
<1>1. path_add_path(q, sub) = q \o part
  BY DEF path_add_path, SelectInSeq
<1>2. /\ clash \in 0 .. Len(sub) /\ Len(sub) \in Nat
      /\ \A i \in 1 .. m : find_ctl_index_in_path(q, sub[i].ctl) = 0
  <2>1. I \subseteq Nat /\ Len(sub) \in Nat
    OBVIOUS
  <2>2. I # {} => Min(I) \in I /\ \A y \in I : Min(I) <= y
    <3> HIDE DEF I
    <3> QED  BY <2>1, LeastIsMember
  <2>3. CASE I = {}
    BY <2>1, <2>3
  <2>4. CASE I # {}
    <3>1. clash = Min(I) /\ Min(I) \in 1 .. Len(sub)
      BY <2>2, <2>4
    <3>2. m = Min(I) - 1
      BY <2>1, <3>1
    <3>3. ASSUME NEW i \in 1 .. m, find_ctl_index_in_path(q, sub[i].ctl) # 0 PROVE FALSE
      <4>1. i \in I
        BY <2>1, <3>1, <3>2, <3>3
      <4> QED  BY <2>1, <2>2, <2>4, <3>1, <3>2, <4>1
    <3> QED  BY <2>1, <3>1, <3>3
  <2> QED  BY <2>3, <2>4
<1> HIDE DEF clash
<1>3. /\ m \in 0 .. Len(sub)
      /\ part \in Seq(Setting) /\ Len(part) = m /\ \A i \in 1 .. m : part[i] = sub[i]
  <2>1. CASE clash = 0
    BY <1>2, <2>1
  <2>2. CASE clash # 0
    <3> DEFINE l == clash - 1
    <3>1. l \in Nat /\ l <= Len(sub) /\ l = l - 1 + 1
      BY <1>2, <2>2
    <3>2. \A i \in 1 .. l : sub[i] \in Setting /\ sub[1 + i - 1] = sub[i]
      BY <1>2, <3>1
    <3> HIDE DEF l
    <3>3. /\ SubSeq(sub, 1, l) \in Seq(Setting) /\ Len(SubSeq(sub, 1, l)) = l
          /\ \A i \in 1 .. l : SubSeq(sub, 1, l)[i] = sub[i]
      BY <3>1, <3>2, SubSeqProperties
    <3> QED  BY <1>2, <2>2, <3>1, <3>3 DEF l
  <2> QED  BY <2>1, <2>2
<1> HIDE DEF part, m
<1> DEFINE r == q \o part
<1>4. /\ r \in Seq(Setting) /\ Len(r) = Len(q) + m
      /\ \A i \in 1 .. Len(q) + m : r[i] = IF i <= Len(q) THEN q[i] ELSE part[i - Len(q)]
  BY <1>3, ConcatProperties
<1> HIDE DEF r
<1>5. DOMAIN r = 1 .. Len(q) + m /\ DOMAIN q = 1 .. Len(q) /\ DOMAIN sub = 1 .. Len(sub)
      /\ Len(q) \in Nat /\ m \in Nat
  BY <1>3, <1>4
<1>6. \A i \in 1 .. m : \A k \in 1 .. Len(q) : q[k].ctl # sub[i].ctl
  BY <1>2, FoundAt
<1>7. ASSUME NEW j \in DOMAIN r, NEW k \in DOMAIN r, r[j].ctl = r[k].ctl
      PROVE  j = k
  <2>1. CASE j <= Len(q) /\ k <= Len(q)
    BY <1>4, <1>5, <1>7, <2>1 DEF Once
  <2>2. CASE j > Len(q) /\ k > Len(q)
    <3>1. j - Len(q) \in 1 .. m /\ k - Len(q) \in 1 .. m
      BY <1>5, <2>2
    <3>2. r[j] = sub[j - Len(q)] /\ r[k] = sub[k - Len(q)]
      BY <1>3, <1>4, <1>5, <2>2, <3>1
    <3>3. j - Len(q) \in DOMAIN sub /\ k - Len(q) \in DOMAIN sub
      BY <1>3, <1>5, <3>1
    <3>4. j - Len(q) = k - Len(q)
      BY <1>7, <3>2, <3>3 DEF Once
    <3> QED  BY <1>5, <3>4
  <2>3. CASE j <= Len(q) /\ k > Len(q)
    <3>1. j \in 1 .. Len(q) /\ k - Len(q) \in 1 .. m
      BY <1>5, <2>3
    <3>2. r[j] = q[j] /\ r[k] = sub[k - Len(q)]
      BY <1>3, <1>4, <1>5, <2>3, <3>1
    <3> QED  BY <1>6, <1>7, <3>1, <3>2
  <2>4. CASE j > Len(q) /\ k <= Len(q)
    <3>1. k \in 1 .. Len(q) /\ j - Len(q) \in 1 .. m
      BY <1>5, <2>4
    <3>2. r[k] = q[k] /\ r[j] = sub[j - Len(q)]
      BY <1>3, <1>4, <1>5, <2>4, <3>1
    <3> QED  BY <1>6, <1>7, <3>1, <3>2
  <2> QED  BY <1>5, <2>1, <2>2, <2>3, <2>4
<1> QED  BY <1>1, <1>4, <1>7 DEF Once, r
-----------------------------------------------------------------------------
(* The mixer paths: counts and values. *)

\* A control of mixer_state, whatever its values are.
IsState(s) ==
  s = [old |-> s.old, new |-> s.new, reset |-> s.reset, active_count |-> s.active_count]

ArTypes ==
  /\ PathTypes /\ ar_phase \in {"closed", "parsing", "open"}
  /\ applied \in [PathNames -> 0 .. MaxApply] /\ uncounted \in Nat
  /\ mixer_state = [c \in Ctls |-> mixer_state[c]]
  /\ \A c \in Ctls : IsState(mixer_state[c])

\* Until the document is read nothing is applied or counted.
UnopenedIsIdle ==
  ar_phase # "open" =>
    /\ \A p \in PathNames : applied[p] = 0
    /\ \A c \in Ctls : mixer_state[c].active_count = 0

\* OldMirrorsMixer, from the moment the mixer was read.
MirrorsMixer ==
  ar_phase # "closed" =>
    \A c \in Supported : \A j \in Written(c) : mixer_state[c].old[j] = mixer[c][j]

\* While every caller pairs its calls nothing is staged.
NothingStaged ==
  ar_phase = "open" /\ uncounted = 0 =>
    \A c \in Ctls : mixer_state[c].new = mixer_state[c].old

ArIInv ==
  /\ ArTypes /\ NoCtlTwice /\ UnopenedIsIdle /\ MirrorsMixer /\ NothingStaged
  /\ CountsUsers /\ IdleIsReset

\* What is nested holds each control once.
LEMMA SettingsOnce ==
    ASSUME PathTypes, NoCtlTwice, NEW name
    PROVE  Once(SettingsOf(name))
<1> DEFINE I == {i \in 1 .. Len(mixer_path) : mixer_path[i].name = name}
<1>1. path_get_by_name(name) = IF I # {} THEN Min(I) ELSE 0
  BY DEF path_get_by_name, SelectInSeq
<1>2. I # {} => Min(I) \in I
  <2>1. I \subseteq Nat
    BY DEF PathTypes
  <2> HIDE DEF I
  <2> QED  BY <2>1, LeastIsMember
<1>3. KnownPath(name) => path_get_by_name(name) \in DOMAIN mixer_path
  BY <1>1, <1>2 DEF KnownPath, PathTypes
<1> QED  BY <1>3 DEF SettingsOf, NoCtlTwice, Once

\* A list of members.
LEMMA ListOf ==
    ASSUME NEW S, NEW n \in Nat, NEW f, f = [i \in 1 .. n |-> f[i]], \A i \in 1 .. n : f[i] \in S
    PROVE  f \in Seq(S)
<1>1. f \in [1 .. n -> S]
  OBVIOUS
<1> QED  BY <1>1

\* A path whose settings are replaced by settings that hold a control once.
LEMMA ReplaceSettings ==
    ASSUME PathTypes, NoCtlTwice, NEW n, NEW q,
           n \in DOMAIN mixer_path => q \in Seq(Setting) /\ Once(q),
           mixer_path' = [mixer_path EXCEPT ![n].setting = q], ar_todo' \in Seq(ArTags)
    PROVE  PathTypes' /\ NoCtlTwice'
<1>1. /\ DOMAIN mixer_path' = DOMAIN mixer_path /\ DOMAIN mixer_path = 1 .. Len(mixer_path)
      /\ Len(mixer_path) \in Nat /\ \A i \in DOMAIN mixer_path : mixer_path[i] \in Paths
  BY DEF PathTypes
<1>2. ASSUME NEW i \in DOMAIN mixer_path
      PROVE  mixer_path'[i] \in Paths /\ Once(mixer_path'[i].setting)
  <2>1. CASE i = n
    <3>1. mixer_path'[i] = [mixer_path[i] EXCEPT !.setting = q]
      BY <1>2, <2>1
    <3>2. mixer_path[i] \in [name : STRING, setting : Seq(Setting)]
      BY <1>1 DEF Paths
    <3>3. q \in Seq(Setting) /\ Once(q)
      BY <2>1
    <3>4. mixer_path'[i] \in [name : STRING, setting : Seq(Setting)] /\ mixer_path'[i].setting = q
      BY <3>1, <3>2, <3>3
    <3> QED  BY <3>3, <3>4 DEF Paths
  <2>2. CASE i # n
    <3>1. mixer_path'[i] = mixer_path[i]
      BY <1>2, <2>2
    <3>2. Once(mixer_path[i].setting)
      BY DEF NoCtlTwice, Once
    <3> QED  BY <1>1, <3>1, <3>2
  <2> QED  BY <2>1, <2>2
<1>3. mixer_path' \in Seq(Paths)
  <2>1. mixer_path' = [i \in 1 .. Len(mixer_path) |-> mixer_path'[i]]
    BY <1>1
  <2>2. \A i \in 1 .. Len(mixer_path) : mixer_path'[i] \in Paths
    BY <1>1, <1>2
  <2> QED  BY <1>1, <2>1, <2>2, ListOf
<1> QED  BY <1>1, <1>2, <1>3 DEF PathTypes, NoCtlTwice, Once

\* A tag leaves paths that hold settings, each control once, and touches no value
\* of mixer_state but what is to be written.
LEMMA TagKeepsPaths ==
    ASSUME PathTypes, NoCtlTwice, ParseTag
    PROVE  PathTypes' /\ NoCtlTwice'
<1> DEFINE t == Head(ar_todo)
           n == path_get_by_name(ar_path)
<1>1. t \in ArTags /\ ar_todo' \in Seq(ArTags)
  BY DEF PathTypes, ParseTag
<1> HIDE DEF t
<1>2. CASE mixer_path' = mixer_path
  BY <1>1, <1>2 DEF PathTypes, NoCtlTwice
<1>3. ASSUME n \in DOMAIN mixer_path
      PROVE  mixer_path[n].setting \in Seq(Setting) /\ Once(mixer_path[n].setting)
  <2>1. mixer_path[n] \in Paths
    BY <1>3 DEF PathTypes
  <2> QED  BY <1>3, <2>1 DEF Paths, NoCtlTwice, Once
<1>4. CASE t.tag = "ctl" /\ NestedSetting(t) /\ UsableCtl(t) /\ ar_path # NoPath
  <2> DEFINE q == path_add_value(mixer_path[n].setting, t.name, t.id, TagValues(t))
  <2>1. mixer_path' = [mixer_path EXCEPT ![n].setting = q]
    BY <1>4 DEF NestedSetting
  <2>2. n \in DOMAIN mixer_path => q \in Seq(Setting) /\ Once(q)
    BY <1>1, <1>3, <1>4, TagVector, AddValueOnce
  <2> HIDE DEF q
  <2> QED  BY <1>1, <2>1, <2>2, ReplaceSettings
<1>5. CASE NestedPath(t) /\ KnownPath(t.name) /\ ar_path # NoPath
  <2> DEFINE q == path_add_path(mixer_path[n].setting, SettingsOf(t.name))
  <2>1. mixer_path' = [mixer_path EXCEPT ![n].setting = q]
    BY <1>5 DEF NestedPath
  <2>2. n \in DOMAIN mixer_path => q \in Seq(Setting) /\ Once(q)
    BY <1>3, SettingsTyped, SettingsOnce, AddPathOnce
  <2> HIDE DEF q
  <2> QED  BY <1>1, <2>1, <2>2, ReplaceSettings
<1>6. CASE t.tag = "path" /\ path_create(t) /\ ~KnownPath(t.name)
  <2> DEFINE p == [name |-> t.name, setting |-> <<>>]
  <2>1. mixer_path' = Append(mixer_path, p)
    BY <1>6 DEF path_create
  <2>2. t.name \in STRING
    BY <1>1, <1>6 DEF ArTags
  <2>3. p \in Paths /\ p.setting = <<>>
    BY <2>2 DEF Paths
  <2> HIDE DEF p
  <2>4. /\ mixer_path \in Seq(Paths) /\ mixer_path' \in Seq(Paths)
        /\ Len(mixer_path') = Len(mixer_path) + 1 /\ mixer_path'[Len(mixer_path) + 1] = p
        /\ \A i \in 1 .. Len(mixer_path) : mixer_path'[i] = mixer_path[i]
    BY <2>1, <2>3, AppendProperties DEF PathTypes
  <2>5. /\ DOMAIN mixer_path' = 1 .. Len(mixer_path) + 1
        /\ DOMAIN mixer_path = 1 .. Len(mixer_path) /\ Len(mixer_path) \in Nat
    BY <2>4
  <2>6. ASSUME NEW i \in DOMAIN mixer_path' PROVE Once(mixer_path'[i].setting)
    <3>1. CASE i \in DOMAIN mixer_path
      BY <2>4, <2>5, <3>1 DEF NoCtlTwice, Once
    <3>2. CASE i = Len(mixer_path) + 1
      BY <2>3, <2>4, <3>2 DEF Once
    <3> QED  BY <2>5, <2>6, <3>1, <3>2
  <2> QED  BY <1>1, <2>4, <2>6 DEF PathTypes, NoCtlTwice, Once
<1>7. \/ mixer_path' = mixer_path
      \/ t.tag = "ctl" /\ NestedSetting(t)
      \/ t.tag = "path" /\ (path_create(t) \/ NestedPath(t))
  BY DEF ParseTag, start_tag, end_tag, CtlTag, PathTag, InitialSetting, t
<1>8. NestedSetting(t) => mixer_path' = mixer_path \/ (UsableCtl(t) /\ ar_path # NoPath)
  BY DEF NestedSetting
<1>9. NestedPath(t) => mixer_path' = mixer_path \/ (KnownPath(t.name) /\ ar_path # NoPath)
  BY DEF NestedPath
<1>10. path_create(t) => mixer_path' = mixer_path \/ ~KnownPath(t.name)
  BY DEF path_create
<1> QED  BY <1>2, <1>4, <1>5, <1>6, <1>7, <1>8, <1>9, <1>10

\* The applications the bounds allow are finitely many.
LEMMA ApplicationsFinite == IsFiniteSet(PathNames \X (1 .. MaxApply))
<1>1. IsFiniteSet(PathNames) /\ IsFiniteSet(1 .. MaxApply)
  BY ArBounds, FS_Interval
<1> QED  BY <1>1, FS_Product

\* The applications that hold a control are finitely many.
LEMMA HoldersFinite ==
    ASSUME NEW c
    PROVE  /\ IsFiniteSet(Holders(c)) /\ Cardinality(Holders(c)) \in Nat
           /\ Cardinality(Holders(c)) = 0 <=> Holders(c) = {}
<1>1. Holders(c) \in SUBSET (PathNames \X (1 .. MaxApply))
  BY DEF Holders
<1>2. IsFiniteSet(Holders(c))
  BY <1>1, ApplicationsFinite, FS_Subset
<1> QED  BY <1>2, FS_CardinalityType, FS_EmptySet

\* A control has users exactly if an application holds it.
LEMMA UsersHold ==
    ASSUME ArTypes, NEW c
    PROVE  Users(c) = {} <=> Holders(c) = {}
<1>1. ASSUME NEW p \in Users(c) PROVE <<p, 1>> \in Holders(c)
  BY ArBounds DEF Users, Holders, ArTypes
<1>2. ASSUME NEW h \in Holders(c) PROVE h[1] \in Users(c)
  <2>1. h[1] \in PathNames /\ h[2] \in 1 .. MaxApply /\ h[2] <= applied[h[1]] /\ c \in CtlsOf(h[1])
    BY DEF Holders
  <2>2. applied[h[1]] \in Nat
    BY <2>1, ArBounds DEF ArTypes
  <2> QED  BY <2>1, <2>2, ArBounds DEF Users
<1> QED  BY <1>1, <1>2

\* Where nothing is applied nobody holds a control.
LEMMA NobodyHolds ==
    ASSUME \A p \in PathNames : applied[p] = 0, NEW c
    PROVE  Holders(c) = {} /\ Cardinality(Holders(c)) = 0
<1>1. Holders(c) = {}
  BY ArBounds DEF Holders
<1> QED  BY <1>1, FS_EmptySet

\* The controls of the paths change with the paths only.
LEMMA SameCtls ==
    ASSUME mixer_path' = mixer_path, NEW p
    PROVE  CtlsOf(p)' = CtlsOf(p)
<1>1. path_get_by_name(p)' = path_get_by_name(p)
  BY DEF path_get_by_name, SelectInSeq
<1> QED  BY <1>1 DEF CtlsOf, SettingsOf, KnownPath

\* An application more, of a path with the control or of another.
LEMMA HoldersApply ==
    ASSUME ArTypes, NEW name \in PathNames, applied[name] < MaxApply,
           applied' = [applied EXCEPT ![name] = @ + 1], mixer_path' = mixer_path, NEW c
    PROVE  Cardinality(Holders(c)') = Cardinality(Holders(c)) + (IF c \in CtlsOf(name) THEN 1 ELSE 0)
<1> DEFINE n == applied[name] + 1
<1>1. n \in 1 .. MaxApply /\ applied[name] \in Nat
  BY ArBounds DEF ArTypes
<1>2. \A p \in PathNames : applied'[p] = IF p = name THEN n ELSE applied[p]
  BY DEF ArTypes
<1>3. \A p \in PathNames : applied[p] \in Nat
  BY ArBounds DEF ArTypes
<1>4. \A p \in PathNames : CtlsOf(p)' = CtlsOf(p)
  BY SameCtls
<1>5. CASE c \in CtlsOf(name)
  <2>1. Holders(c)' = Holders(c) \cup {<<name, n>>}
    <3>1. ASSUME NEW h \in Holders(c)' PROVE h \in Holders(c) \cup {<<name, n>>}
      <4>1. /\ h \in PathNames \X (1 .. MaxApply) /\ h = <<h[1], h[2]>>
            /\ h[2] <= applied'[h[1]] /\ c \in CtlsOf(h[1])
        BY <1>4 DEF Holders
      <4>2. CASE h[1] = name /\ h[2] = n
        BY <4>1, <4>2
      <4>3. CASE ~(h[1] = name /\ h[2] = n)
        <5>1. h[2] <= applied[h[1]]
          BY <1>1, <1>2, <4>1, <4>3, ArBounds
        <5> QED  BY <4>1, <5>1 DEF Holders
      <4> QED  BY <4>2, <4>3
    <3>2. ASSUME NEW h \in Holders(c) PROVE h \in Holders(c)'
      <4>1. h \in PathNames \X (1 .. MaxApply) /\ h[2] <= applied[h[1]] /\ c \in CtlsOf(h[1])
        BY DEF Holders
      <4>2. h[2] <= applied'[h[1]]
        BY <1>1, <1>2, <1>3, <4>1, ArBounds
      <4> QED  BY <1>4, <4>1, <4>2 DEF Holders
    <3>3. <<name, n>> \in Holders(c)'
      BY <1>1, <1>2, <1>4, <1>5 DEF Holders
    <3> QED  BY <3>1, <3>2, <3>3
  <2>2. <<name, n>> \notin Holders(c)
    BY <1>1 DEF Holders
  <2> HIDE DEF n
  <2> QED  BY <1>5, <2>1, <2>2, HoldersFinite, FS_AddElement, ZenonT(60)
<1>6. CASE c \notin CtlsOf(name)
  <2>1. Holders(c)' = Holders(c)
    BY <1>2, <1>4, <1>6 DEF Holders
  <2> QED  BY <1>6, <2>1, HoldersFinite
<1> QED  BY <1>5, <1>6

\* An application less.
LEMMA HoldersReset ==
    ASSUME ArTypes, NEW name \in PathNames, applied[name] > 0,
           applied' = [applied EXCEPT ![name] = @ - 1], mixer_path' = mixer_path, NEW c
    PROVE  /\ Cardinality(Holders(c)') = Cardinality(Holders(c)) - (IF c \in CtlsOf(name) THEN 1 ELSE 0)
           /\ c \in CtlsOf(name) => Cardinality(Holders(c)) > 0
<1> DEFINE n == applied[name]
<1>1. n \in 1 .. MaxApply
  BY ArBounds DEF ArTypes
<1>2. \A p \in PathNames : applied'[p] = IF p = name THEN n - 1 ELSE applied[p]
  BY DEF ArTypes
<1>3. \A p \in PathNames : applied[p] \in Nat
  BY ArBounds DEF ArTypes
<1>4. \A p \in PathNames : CtlsOf(p)' = CtlsOf(p)
  BY SameCtls
<1>5. CASE c \in CtlsOf(name)
  <2>1. Holders(c)' = Holders(c) \ {<<name, n>>}
    <3>1. ASSUME NEW h \in Holders(c)' PROVE h \in Holders(c) \ {<<name, n>>}
      <4>1. /\ h \in PathNames \X (1 .. MaxApply)
            /\ h[2] <= applied'[h[1]] /\ c \in CtlsOf(h[1])
        BY <1>4 DEF Holders
      <4>2. h[2] <= applied[h[1]] /\ ~(h[1] = name /\ h[2] = n)
        BY <1>1, <1>2, <1>3, <4>1, ArBounds
      <4>3. h # <<name, n>>
        BY <4>2
      <4> QED  BY <4>1, <4>2, <4>3 DEF Holders
    <3>2. ASSUME NEW h \in Holders(c), h # <<name, n>> PROVE h \in Holders(c)'
      <4>1. /\ h \in PathNames \X (1 .. MaxApply) /\ h = <<h[1], h[2]>>
            /\ h[2] <= applied[h[1]] /\ c \in CtlsOf(h[1])
        BY DEF Holders
      <4>2. h[1] = name => h[2] # n
        BY <3>2, <4>1
      <4>3. h[2] <= applied'[h[1]]
        BY <1>1, <1>2, <1>3, <4>1, <4>2, ArBounds
      <4> QED  BY <1>4, <4>1, <4>3 DEF Holders
    <3> QED  BY <3>1, <3>2
  <2>2. <<name, n>> \in Holders(c)
    BY <1>1, <1>5 DEF Holders
  <2> HIDE DEF n
  <2>3. Cardinality(Holders(c)) # 0 /\ Cardinality(Holders(c)) \in Nat
    BY <2>2, HoldersFinite
  <2>4. Cardinality(Holders(c) \ {<<name, n>>}) = Cardinality(Holders(c)) - 1
    BY <2>2, HoldersFinite, FS_RemoveElement
  <2> QED  BY <1>5, <2>1, <2>3, <2>4
<1>6. CASE c \notin CtlsOf(name)
  <2>1. Holders(c)' = Holders(c)
    BY <1>2, <1>4, <1>6 DEF Holders
  <2> QED  BY <1>6, <2>1, HoldersFinite
<1> QED  BY <1>5, <1>6
\* The same paths applied the same number of times are held by the same callers.
LEMMA SameHolders ==
    ASSUME applied' = applied, mixer_path' = mixer_path, NEW c
    PROVE  Holders(c)' = Holders(c) /\ Users(c)' = Users(c)
<1>1. \A p \in PathNames : CtlsOf(p)' = CtlsOf(p)
  BY SameCtls
<1> QED  BY <1>1 DEF Holders, Users

\* After a step that leaves nothing applied nobody holds a control.
LEMMA NobodyLeft ==
    ASSUME \A p \in PathNames : applied'[p] = 0, NEW c
    PROVE  Holders(c)' = {} /\ Cardinality(Holders(c)') = 0
<1>1. Holders(c)' = {}
  BY ArBounds DEF Holders
<1> QED  BY <1>1, FS_EmptySet

\* After a step too a control without users has no holder.
LEMMA UsersHoldAfter ==
    ASSUME applied' \in [PathNames -> 0 .. MaxApply], NEW c, Users(c)' = {}
    PROVE  Holders(c)' = {} /\ Cardinality(Holders(c)') = 0
<1>1. ASSUME NEW h \in Holders(c)' PROVE h[1] \in Users(c)'
  <2>1. h[1] \in PathNames /\ h[2] \in 1 .. MaxApply /\ h[2] <= applied'[h[1]] /\ c \in CtlsOf(h[1])'
    BY DEF Holders
  <2>2. applied'[h[1]] \in Nat
    BY <2>1, ArBounds
  <2> QED  BY <2>1, <2>2, ArBounds DEF Users
<1>2. Holders(c)' = {}
  BY <1>1
<1> QED  BY <1>2, FS_EmptySet

\* The vector that is written, element by element.
LEMMA WrittenVector ==
    ASSUME NEW c \in Ctls, NEW hw, NEW v, NEW j \in Written(c)
    PROVE  MixerAfter(c, hw, v)[j] = v[j]
<1>1. NumValues[c] \in Nat \ {0}
  BY CtlsAssumption
<1>2. j \in Elements(c)
  BY <1>1 DEF Written, Elements
<1> QED  BY <1>2 DEF MixerAfter

\* A control whose new value changes.
LEMMA StateWithNew ==
    ASSUME NEW s, IsState(s), NEW v
    PROVE  /\ IsState([s EXCEPT !.new = v])
           /\ [s EXCEPT !.new = v].new = v /\ [s EXCEPT !.new = v].old = s.old
           /\ [s EXCEPT !.new = v].reset = s.reset
           /\ [s EXCEPT !.new = v].active_count = s.active_count
<1>1. [s EXCEPT !.new = v] = [old |-> s.old, new |-> v, reset |-> s.reset,
                              active_count |-> s.active_count]
  BY DEF IsState
<1> QED  BY <1>1 DEF IsState

\* A control of a path whose count is updated.
LEMMA StateUpdated ==
    ASSUME NEW s, IsState(s), NEW count, NEW direction
    PROVE  LET u == update_ctl(s, count, direction)
           IN  /\ IsState(u) /\ u.active_count = count /\ u.reset = s.reset /\ u.new = u.old
               /\ u.old = IF KeepsValue(count, direction) THEN s.old ELSE s.new
<1> DEFINE v == IF KeepsValue(count, direction) THEN s.old ELSE s.new
<1>1. update_ctl(s, count, direction)
        = [s EXCEPT !.active_count = count, !.new = v, !.old = v]
  BY DEF update_ctl
<1> HIDE DEF v
<1>2. update_ctl(s, count, direction)
        = [old |-> v, new |-> v, reset |-> s.reset, active_count |-> count]
  BY <1>1 DEF IsState
<1> QED  BY <1>2 DEF IsState, v

\* What staging changes: nothing but the values to be written.
Staged(states) ==
  /\ states = [c \in Ctls |-> states[c]]
  /\ \A c \in Ctls : /\ IsState(states[c]) /\ states[c].old = mixer_state[c].old
                     /\ states[c].reset = mixer_state[c].reset
                     /\ states[c].active_count = mixer_state[c].active_count

\* Applying a path, resetting it and resetting everything only stage values, a
\* reset the start-up ones.
LEMMA PathsStage ==
    ASSUME ArTypes, NEW name
    PROVE  /\ Staged(path_apply(name)) /\ Staged(path_reset(name))
           /\ Staged([c \in Ctls |-> [mixer_state[c] EXCEPT !.new = mixer_state[c].reset]])
           /\ \A c \in Ctls : c \notin CtlsOf(name) =>
                path_apply(name)[c] = mixer_state[c] /\ path_reset(name)[c] = mixer_state[c]
           /\ \A c \in Ctls : c \in CtlsOf(name) =>
                path_reset(name)[c].new = mixer_state[c].reset
<1> DEFINE A(c) == [mixer_state[c] EXCEPT !.new = SettingFor(name, c)]
           R(c) == [mixer_state[c] EXCEPT !.new = mixer_state[c].reset]
<1>1. ASSUME NEW c \in Ctls
      PROVE  /\ IsState(mixer_state[c])
             /\ IsState(A(c)) /\ A(c).old = mixer_state[c].old
             /\ A(c).reset = mixer_state[c].reset
             /\ A(c).active_count = mixer_state[c].active_count
             /\ IsState(R(c)) /\ R(c).old = mixer_state[c].old
             /\ R(c).reset = mixer_state[c].reset
             /\ R(c).active_count = mixer_state[c].active_count
             /\ R(c).new = mixer_state[c].reset
  <2>1. IsState(mixer_state[c])
    BY DEF ArTypes
  <2> QED  BY <2>1, StateWithNew
<1>2. path_apply(name) = [c \in Ctls |-> IF c \in CtlsOf(name) THEN A(c) ELSE mixer_state[c]]
  BY DEF path_apply
<1>3. path_reset(name) = [c \in Ctls |-> IF c \in CtlsOf(name) THEN R(c) ELSE mixer_state[c]]
  BY DEF path_reset
<1> HIDE DEF A, R
<1>4. Staged(path_apply(name))
  BY <1>1, <1>2 DEF Staged
<1>5. Staged(path_reset(name))
  BY <1>1, <1>3 DEF Staged
<1>6. Staged([c \in Ctls |-> R(c)])
  BY <1>1 DEF Staged
<1> QED  BY <1>1, <1>2, <1>3, <1>4, <1>5, <1>6 DEF R

\* What the update of a path does to a control.
Updated(c, name, direction, states) ==
  /\ IsState(mixer_state'[c])
  /\ c \in CtlsOf(name) =>
       LET count == CountAfter(mixer_state[c].active_count, direction)
       IN  /\ mixer_state'[c].active_count = count
           /\ mixer_state'[c].reset = mixer_state[c].reset
           /\ mixer_state'[c].new = mixer_state'[c].old
           /\ mixer_state'[c].old = IF KeepsValue(count, direction)
                                      THEN mixer_state[c].old ELSE states[c].new
           /\ mixer'[c] = IF mixer_state'[c].old # mixer_state[c].old
                            THEN MixerAfter(c, mixer[c], mixer_state'[c].old) ELSE mixer[c]
  /\ c \notin CtlsOf(name) => mixer_state'[c] = states[c] /\ mixer'[c] = mixer[c]

\* The update of a path treats each of its controls so, and no other control.
LEMMA PathUpdate ==
    ASSUME ArTypes, NEW name, NEW direction, NEW states, Staged(states),
           audio_route_update_path(name, direction, states)
    PROVE  /\ mixer_state' = [c \in Ctls |-> mixer_state'[c]]
           /\ \A c \in Ctls : Updated(c, name, direction, states)
<1> DEFINE U(c) == update_ctl(states[c], CountAfter(states[c].active_count, direction), direction)
<1>1. mixer_state' = [c \in Ctls |-> IF c \in CtlsOf(name) THEN U(c) ELSE states[c]]
  BY DEF audio_route_update_path
<1>2. mixer' = [c \in Ctls |->
                  IF c \in CtlsOf(name) /\ mixer_state'[c].old # states[c].old
                    THEN MixerAfter(c, mixer[c], mixer_state'[c].old) ELSE mixer[c]]
  BY DEF audio_route_update_path
<1>3. ASSUME NEW c \in Ctls
      PROVE  LET count == CountAfter(states[c].active_count, direction)
             IN  /\ IsState(states[c])
                 /\ IsState(U(c)) /\ U(c).active_count = count /\ U(c).reset = states[c].reset
                 /\ U(c).new = U(c).old
                 /\ U(c).old = IF KeepsValue(count, direction) THEN states[c].old ELSE states[c].new
  <2>1. IsState(states[c])
    BY DEF Staged
  <2> QED  BY <2>1, StateUpdated
<1> HIDE DEF U
<1>4. ASSUME NEW c \in Ctls PROVE Updated(c, name, direction, states)
  <2>1. /\ states[c].old = mixer_state[c].old /\ states[c].reset = mixer_state[c].reset
        /\ states[c].active_count = mixer_state[c].active_count
    BY DEF Staged
  <2>2. CASE c \in CtlsOf(name)
    <3>1. mixer_state'[c] = U(c)
      BY <1>1, <2>2
    <3> QED  BY <1>2, <1>3, <2>1, <2>2, <3>1 DEF Updated
  <2>3. CASE c \notin CtlsOf(name)
    BY <1>1, <1>2, <1>3, <2>3 DEF Updated
  <2> QED  BY <2>2, <2>3
<1> QED  BY <1>1, <1>4

\* Whatever the direction, what the library believes the hardware holds stays what
\* it holds, and no path changes.
LEMMA PathUpdateMirrors ==
    ASSUME ArIInv, Open, NEW name, NEW direction, NEW states, Staged(states),
           audio_route_update_path(name, direction, states),
           applied' \in [PathNames -> 0 .. MaxApply], uncounted' \in Nat, UNCHANGED Parsed
    PROVE  ArTypes' /\ NoCtlTwice' /\ UnopenedIsIdle' /\ MirrorsMixer'
<1>1. /\ mixer_state' = [c \in Ctls |-> mixer_state'[c]]
      /\ \A c \in Ctls : Updated(c, name, direction, states)
  BY PathUpdate DEF ArIInv
<1>2. ArTypes'
  BY <1>1 DEF ArIInv, ArTypes, PathTypes, Parsed, Updated
<1>3. NoCtlTwice' /\ UnopenedIsIdle'
  BY DEF ArIInv, NoCtlTwice, UnopenedIsIdle, Open, Parsed
<1>4. ASSUME NEW c \in Supported, NEW j \in Written(c)
      PROVE  mixer_state'[c].old[j] = mixer'[c][j]
  <2>1. c \in Ctls /\ mixer_state[c].old[j] = mixer[c][j]
    BY DEF ArIInv, MirrorsMixer, Open, Supported
  <2>2. Updated(c, name, direction, states) /\ states[c].old = mixer_state[c].old
    BY <1>1, <2>1 DEF Staged
  <2>3. MixerAfter(c, mixer[c], mixer_state'[c].old)[j] = mixer_state'[c].old[j]
    BY <2>1, WrittenVector
  <2> QED  BY <2>1, <2>2, <2>3 DEF Updated
<1> QED  BY <1>2, <1>3, <1>4 DEF MirrorsMixer
\* audio_route_apply_and_update_path keeps the invariant.
LEMMA ApplyKeeps ==
    ASSUME ArIInv, NEW name \in PathNames, audio_route_apply_and_update_path(name)
    PROVE  ArIInv'
<1> DEFINE states == path_apply(name)
<1>1. /\ ArTypes /\ Open /\ Staged(states)
      /\ \A c \in Ctls : c \notin CtlsOf(name) => states[c] = mixer_state[c]
  BY PathsStage DEF ArIInv, audio_route_apply_and_update_path
<1>2. /\ audio_route_update_path(name, "FORWARD", states)
      /\ applied[name] < MaxApply /\ applied' = [applied EXCEPT ![name] = @ + 1]
      /\ UNCHANGED Parsed /\ uncounted' = uncounted
  BY DEF audio_route_apply_and_update_path
<1> HIDE DEF states
<1>3. applied' \in [PathNames -> 0 .. MaxApply] /\ uncounted' \in Nat /\ mixer_path' = mixer_path
  <2>1. applied[name] + 1 \in 0 .. MaxApply /\ applied \in [PathNames -> 0 .. MaxApply]
    BY <1>1, <1>2, ArBounds DEF ArTypes
  <2> QED  BY <1>1, <1>2, <2>1 DEF ArTypes, Parsed
<1>4. ArTypes' /\ NoCtlTwice' /\ UnopenedIsIdle' /\ MirrorsMixer'
  BY <1>1, <1>2, <1>3, PathUpdateMirrors
<1>5. \A c \in Ctls : Updated(c, name, "FORWARD", states)
  BY <1>1, <1>2, PathUpdate
<1>6. \A c \in Supported : c \in Ctls
  BY DEF Supported
<1>7. \A c : Cardinality(Holders(c)') = Cardinality(Holders(c)) + (IF c \in CtlsOf(name) THEN 1 ELSE 0)
  BY <1>1, <1>2, <1>3, HoldersApply
<1>8. NothingStaged'
  BY <1>1, <1>2, <1>5 DEF ArIInv, NothingStaged, Updated, Open
<1>9. CountsUsers'
  <2> SUFFICES ASSUME uncounted' = 0, NEW c \in Supported
               PROVE  mixer_state'[c].active_count = Cardinality(Holders(c)')
    BY DEF CountsUsers
  <2>1. c \in Ctls /\ mixer_state[c].active_count = Cardinality(Holders(c))
    BY <1>2, <1>6 DEF ArIInv, CountsUsers
  <2>2. Updated(c, name, "FORWARD", states) /\ Cardinality(Holders(c)) \in Nat
    BY <1>5, <2>1, HoldersFinite
  <2>3. CASE c \in CtlsOf(name)
    <3>1. mixer_state'[c].active_count = mixer_state[c].active_count + 1
      BY <2>2, <2>3 DEF Updated, CountAfter
    <3> QED  BY <1>7, <2>1, <2>3, <3>1
  <2>4. CASE c \notin CtlsOf(name)
    <3>1. mixer_state'[c] = mixer_state[c]
      BY <1>1, <2>1, <2>2, <2>4 DEF Updated
    <3> QED  BY <1>7, <2>1, <2>2, <2>4, <3>1
  <2> QED  BY <2>3, <2>4
<1>10. IdleIsReset'
  <2> SUFFICES ASSUME Open', uncounted' = 0, NEW c \in Supported, Users(c)' = {},
                      NEW j \in Written(c)
               PROVE  mixer'[c][j] = mixer_state'[c].reset[j]
    BY DEF IdleIsReset
  <2>1. Cardinality(Holders(c)') = 0 /\ Cardinality(Holders(c)) \in Nat
    BY <1>3, UsersHoldAfter, HoldersFinite
  <2>2. c \notin CtlsOf(name) /\ Cardinality(Holders(c)) = 0
    BY <1>7, <2>1
  <2>3. Users(c) = {}
    BY <1>1, <2>2, HoldersFinite, UsersHold
  <2>4. mixer'[c] = mixer[c] /\ mixer_state'[c] = mixer_state[c]
    BY <1>1, <1>5, <1>6, <2>2 DEF Updated
  <2> QED  BY <1>1, <1>2, <2>3, <2>4 DEF ArIInv, IdleIsReset
<1> QED  BY <1>4, <1>8, <1>9, <1>10 DEF ArIInv

\* What audio_route_reset_and_update_path does to the counts while every caller
\* pairs its calls: a control that another application still holds stays counted.
LEMMA ResetCounts ==
    ASSUME ArIInv, NEW name \in PathNames, audio_route_reset_and_update_path(name),
           uncounted = 0, NEW c \in Supported
    PROVE  LET count == CountAfter(mixer_state[c].active_count, "REVERSE")
           IN  /\ c \in CtlsOf(name) => Cardinality(Holders(c)') = count
               /\ c \notin CtlsOf(name) => Cardinality(Holders(c)') = Cardinality(Holders(c))
               /\ mixer_state[c].active_count = Cardinality(Holders(c))
<1>1. ArTypes /\ mixer_state[c].active_count = Cardinality(Holders(c))
  BY DEF ArIInv, CountsUsers
<1>2. /\ applied[name] > 0 /\ applied' = [applied EXCEPT ![name] = @ - 1]
      /\ mixer_path' = mixer_path
  BY DEF audio_route_reset_and_update_path, Parsed
<1>3. /\ Cardinality(Holders(c)') = Cardinality(Holders(c)) - (IF c \in CtlsOf(name) THEN 1 ELSE 0)
      /\ c \in CtlsOf(name) => Cardinality(Holders(c)) > 0
      /\ Cardinality(Holders(c)) \in Nat
  BY <1>1, <1>2, HoldersReset, HoldersFinite
<1> QED  BY <1>1, <1>3 DEF CountAfter

\* audio_route_reset_and_update_path keeps the invariant.
LEMMA ResetKeeps ==
    ASSUME ArIInv, NEW name \in PathNames, audio_route_reset_and_update_path(name)
    PROVE  ArIInv'
<1> DEFINE states == path_reset(name)
<1>1. /\ ArTypes /\ Open /\ Staged(states)
      /\ \A c \in Ctls : c \notin CtlsOf(name) => states[c] = mixer_state[c]
      /\ \A c \in Ctls : c \in CtlsOf(name) => states[c].new = mixer_state[c].reset
  BY PathsStage DEF ArIInv, audio_route_reset_and_update_path
<1>2. /\ audio_route_update_path(name, "REVERSE", states)
      /\ applied[name] > 0 /\ applied' = [applied EXCEPT ![name] = @ - 1]
      /\ UNCHANGED Parsed /\ uncounted' = uncounted
  BY DEF audio_route_reset_and_update_path
<1> HIDE DEF states
<1>3. applied' \in [PathNames -> 0 .. MaxApply] /\ uncounted' \in Nat /\ mixer_path' = mixer_path
  <2>1. applied[name] - 1 \in 0 .. MaxApply /\ applied \in [PathNames -> 0 .. MaxApply]
    BY <1>1, <1>2, ArBounds DEF ArTypes
  <2> QED  BY <1>1, <1>2, <2>1 DEF ArTypes, Parsed
<1>4. ArTypes' /\ NoCtlTwice' /\ UnopenedIsIdle' /\ MirrorsMixer'
  BY <1>1, <1>2, <1>3, PathUpdateMirrors
<1>5. \A c \in Ctls : Updated(c, name, "REVERSE", states)
  BY <1>1, <1>2, PathUpdate
<1>6. \A c \in Supported : c \in Ctls
  BY DEF Supported
<1>7. NothingStaged'
  BY <1>1, <1>2, <1>5 DEF ArIInv, NothingStaged, Updated, Open
<1>8. CountsUsers'
  <2> SUFFICES ASSUME uncounted' = 0, NEW c \in Supported
               PROVE  mixer_state'[c].active_count = Cardinality(Holders(c)')
    BY DEF CountsUsers
  <2>1. Updated(c, name, "REVERSE", states)
    BY <1>5, <1>6
  <2>2. LET count == CountAfter(mixer_state[c].active_count, "REVERSE")
        IN  /\ c \in CtlsOf(name) => Cardinality(Holders(c)') = count
            /\ c \notin CtlsOf(name) => Cardinality(Holders(c)') = Cardinality(Holders(c))
            /\ mixer_state[c].active_count = Cardinality(Holders(c))
    BY <1>2, ResetCounts
  <2> QED  BY <1>1, <1>6, <2>1, <2>2 DEF Updated
<1>9. IdleIsReset'
  <2> SUFFICES ASSUME Open', uncounted' = 0, NEW c \in Supported, Users(c)' = {},
                      NEW j \in Written(c)
               PROVE  mixer'[c][j] = mixer_state'[c].reset[j]
    BY DEF IdleIsReset
  <2>1. Cardinality(Holders(c)') = 0 /\ c \in Ctls
    BY <1>3, <1>6, UsersHoldAfter
  <2>2. Updated(c, name, "REVERSE", states)
    BY <1>5, <1>6
  <2>3. CASE c \in CtlsOf(name)
    <3>1. CountAfter(mixer_state[c].active_count, "REVERSE") = 0
      BY <1>2, <2>1, <2>3, ResetCounts
    <3>2. mixer_state'[c].old = mixer_state[c].reset /\ mixer_state'[c].reset = mixer_state[c].reset
      BY <1>1, <2>1, <2>2, <2>3, <3>1 DEF Updated, KeepsValue
    <3>3. mixer_state'[c].old[j] = mixer'[c][j]
      BY <1>1, <1>2, <1>4 DEF MirrorsMixer, Open, Parsed
    <3> QED  BY <3>2, <3>3
  <2>4. CASE c \notin CtlsOf(name)
    <3>1. Cardinality(Holders(c)) = 0
      BY <1>2, <2>1, <2>4, ResetCounts
    <3>2. Users(c) = {}
      BY <1>1, <3>1, HoldersFinite, UsersHold
    <3>3. mixer'[c] = mixer[c] /\ mixer_state'[c] = mixer_state[c]
      BY <1>1, <2>1, <2>2, <2>4 DEF Updated
    <3> QED  BY <1>1, <1>2, <3>2, <3>3 DEF ArIInv, IdleIsReset
  <2> QED  BY <2>3, <2>4
<1> QED  BY <1>4, <1>7, <1>8, <1>9 DEF ArIInv

\* A forced reset keeps the invariant; from here on the counts promise nothing.
LEMMA ForceKeeps ==
    ASSUME ArIInv, NEW name \in PathNames, audio_route_force_reset_and_update_path(name)
    PROVE  ArIInv'
<1>1. ArTypes /\ Open /\ Staged(path_reset(name))
  BY PathsStage DEF ArIInv, audio_route_force_reset_and_update_path
<1>2. /\ audio_route_update_path(name, "REVERSE_RESET", path_reset(name))
      /\ applied' = [applied EXCEPT ![name] = 0]
      /\ UNCHANGED Parsed /\ uncounted' = uncounted + 1
  BY DEF audio_route_force_reset_and_update_path, Uncounted
<1>3. applied' \in [PathNames -> 0 .. MaxApply] /\ uncounted' \in Nat /\ uncounted' # 0
  BY <1>1, <1>2, ArBounds DEF ArTypes
<1>4. ArTypes' /\ NoCtlTwice' /\ UnopenedIsIdle' /\ MirrorsMixer'
  BY <1>1, <1>2, <1>3, PathUpdateMirrors
<1> QED  BY <1>3, <1>4 DEF ArIInv, NothingStaged, CountsUsers, IdleIsReset

\* The calls that only stage values keep the invariant, which promises little
\* until the library is opened again.
LEMMA StageKeeps ==
    ASSUME ArIInv, Open, NEW states, Staged(states), Stage(states)
    PROVE  ArIInv'
<1>1. uncounted' \in Nat /\ uncounted' # 0
  BY DEF ArIInv, ArTypes, Stage, Uncounted
<1>2. /\ mixer_state' = [c \in Ctls |-> mixer_state'[c]]
      /\ \A c \in Ctls : IsState(mixer_state'[c]) /\ mixer_state'[c].old = mixer_state[c].old
  BY DEF Stage, Staged
<1>3. ArTypes'
  BY <1>1, <1>2 DEF ArIInv, ArTypes, PathTypes, Stage, Parsed
<1>4. NoCtlTwice' /\ UnopenedIsIdle'
  BY DEF ArIInv, NoCtlTwice, UnopenedIsIdle, Open, Stage, Parsed
<1>5. MirrorsMixer'
  BY <1>2 DEF ArIInv, MirrorsMixer, Stage, Parsed, Supported
<1> QED  BY <1>1, <1>3, <1>4, <1>5 DEF ArIInv, NothingStaged, CountsUsers, IdleIsReset
\* Where nothing is applied or counted, no path is open and the mixer was read, the
\* invariant holds.
LEMMA UnopenedInv ==
    ASSUME ArTypes', NoCtlTwice', MirrorsMixer', ar_phase' # "open",
           \A p \in PathNames : applied'[p] = 0,
           \A c \in Ctls : mixer_state'[c].active_count = 0
    PROVE  ArIInv'
<1>1. \A c : Cardinality(Holders(c)') = 0
  BY NobodyLeft
<1>2. CountsUsers'
  BY <1>1 DEF CountsUsers, Supported
<1> QED  BY <1>2 DEF ArIInv, UnopenedIsIdle, NothingStaged, IdleIsReset, Open

\* The records a closed library leaves.
LEMMA Records ==
    ASSUME NEW o, NEW n, NEW r, NEW k
    PROVE  LET s == [old |-> o, new |-> n, reset |-> r, active_count |-> k]
           IN  IsState(s) /\ s.old = o /\ s.new = n /\ s.reset = r /\ s.active_count = k
BY DEF IsState

\* A library that was freed, after a parse error too, satisfies the invariant.
LEMMA FreedKeeps ==
    ASSUME Freed
    PROVE  ArIInv'
<1>1. /\ ar_phase' = "closed" /\ ar_todo' = <<>> /\ mixer_path' = <<>> /\ uncounted' = 0
      /\ applied' = [p \in PathNames |-> 0]
      /\ mixer_state' = [c \in Ctls |-> [old |-> Zeroes(c), new |-> Zeroes(c),
                                         reset |-> Zeroes(c), active_count |-> 0]]
  BY DEF Freed
<1>2. \A c \in Ctls : IsState(mixer_state'[c]) /\ mixer_state'[c].active_count = 0
  BY <1>1, Records
<1>3. applied' \in [PathNames -> 0 .. MaxApply]
  BY <1>1, ArBounds
<1>4. mixer_state' = [c \in Ctls |-> mixer_state'[c]]
  BY <1>1
<1>5. PathTypes' /\ NoCtlTwice'
  BY <1>1 DEF PathTypes, NoCtlTwice
<1>6. ArTypes'
  BY <1>1, <1>2, <1>3, <1>4, <1>5 DEF ArTypes
<1> QED  BY <1>1, <1>2, <1>5, <1>6, UnopenedInv DEF MirrorsMixer

\* Before the first open the invariant holds.
LEMMA ArBegins == ArInit => ArIInv
<1> SUFFICES ASSUME ArInit PROVE ArIInv
  OBVIOUS
<1>1. /\ ar_phase = "closed" /\ ar_todo = <<>> /\ mixer_path = <<>> /\ uncounted = 0
      /\ applied = [p \in PathNames |-> 0]
      /\ mixer_state = [c \in Ctls |-> [old |-> Zeroes(c), new |-> Zeroes(c),
                                        reset |-> Zeroes(c), active_count |-> 0]]
  BY DEF ArInit
<1>2. \A c \in Ctls : IsState(mixer_state[c]) /\ mixer_state[c].active_count = 0
  BY <1>1, Records
<1>3. applied \in [PathNames -> 0 .. MaxApply] /\ \A p \in PathNames : applied[p] = 0
  BY <1>1, ArBounds
<1>4. mixer_state = [c \in Ctls |-> mixer_state[c]]
  BY <1>1
<1>5. PathTypes /\ NoCtlTwice
  BY <1>1 DEF PathTypes, NoCtlTwice
<1>6. ArTypes
  BY <1>1, <1>2, <1>3, <1>4, <1>5 DEF ArTypes
<1>7. \A c : Cardinality(Holders(c)) = 0
  BY <1>3, NobodyHolds
<1>8. CountsUsers
  BY <1>2, <1>7 DEF CountsUsers, Supported
<1> QED  BY <1>1, <1>2, <1>3, <1>5, <1>6, <1>8
         DEF ArIInv, UnopenedIsIdle, MirrorsMixer, NothingStaged, IdleIsReset, Open

\* audio_route_init reads the mixer and keeps the invariant.
LEMMA InitKeeps ==
    ASSUME ArIInv, NEW doc \in Documents, audio_route_init(doc)
    PROVE  ArIInv'
<1> DEFINE read(c) == [j \in Elements(c) |-> IF j \in Written(c) THEN mixer[c][j] ELSE 0]
<1>1. /\ ar_phase = "closed" /\ ar_phase' = "parsing" /\ ar_todo' = doc /\ mixer_path' = <<>>
      /\ uncounted' = 0 /\ applied' = applied /\ mixer' = mixer
  BY DEF audio_route_init
<1>2. mixer_state' = [c \in Ctls |-> [old |-> read(c), new |-> read(c),
                                      reset |-> Zeroes(c), active_count |-> 0]]
  BY DEF audio_route_init, alloc_mixer_state
<1>3. ASSUME NEW c \in Ctls, NEW j \in Written(c) PROVE read(c)[j] = mixer[c][j]
  <2>1. NumValues[c] \in Nat \ {0}
    BY CtlsAssumption
  <2>2. j \in Elements(c)
    BY <2>1 DEF Written, Elements
  <2> QED  BY <2>2
<1> HIDE DEF read
<1>4. \A c \in Ctls : /\ IsState(mixer_state'[c]) /\ mixer_state'[c].active_count = 0
                      /\ mixer_state'[c].old = read(c)
  BY <1>2, Records
<1>5. mixer_state' = [c \in Ctls |-> mixer_state'[c]]
  BY <1>2
<1>6. PathTypes' /\ NoCtlTwice'
  BY <1>1, DocumentsAssumption DEF PathTypes, NoCtlTwice
<1>7. ArTypes'
  BY <1>1, <1>4, <1>5, <1>6 DEF ArIInv, ArTypes
<1>8. \A p \in PathNames : applied'[p] = 0
  BY <1>1 DEF ArIInv, UnopenedIsIdle
<1>9. MirrorsMixer'
  BY <1>1, <1>3, <1>4 DEF MirrorsMixer, Supported
<1> QED  BY <1>1, <1>4, <1>6, <1>7, <1>8, <1>9, UnopenedInv

\* A tag of the document changes no value of a control but the one to be written.
LEMMA TagStages ==
    ASSUME ArTypes, ParseTag
    PROVE  /\ mixer_state' = [c \in Ctls |-> mixer_state'[c]]
           /\ \A c \in Ctls : /\ IsState(mixer_state'[c])
                              /\ mixer_state'[c].old = mixer_state[c].old
                              /\ mixer_state'[c].active_count = mixer_state[c].active_count
<1> DEFINE t == Head(ar_todo)
           v == SetElements(mixer_state[t.name].new, t.id, TagValues(t))
<1>1. CASE mixer_state' = mixer_state
  BY <1>1 DEF ArTypes
<1>2. CASE InitialSetting(t) /\ UsableCtl(t) /\ mixer_state' # mixer_state
  <2>1. mixer_state' = [mixer_state EXCEPT ![t.name].new = v] /\ t.name \in Ctls
    BY <1>2 DEF InitialSetting, UsableCtl, Supported
  <2> HIDE DEF v, t
  <2>2. mixer_state' = [c \in Ctls |-> IF c = t.name THEN [mixer_state[c] EXCEPT !.new = v]
                                                     ELSE mixer_state[c]]
    BY <2>1 DEF ArTypes
  <2>3. \A c \in Ctls : IsState(mixer_state[c])
    BY DEF ArTypes
  <2>4. ASSUME NEW c \in Ctls
        PROVE  /\ IsState(mixer_state'[c]) /\ mixer_state'[c].old = mixer_state[c].old
               /\ mixer_state'[c].active_count = mixer_state[c].active_count
    <3>1. CASE c = t.name
      <4>1. mixer_state'[c] = [mixer_state[c] EXCEPT !.new = v] /\ IsState(mixer_state[c])
        BY <2>2, <2>3, <3>1
      <4> QED  BY <4>1, StateWithNew
    <3>2. CASE c # t.name
      BY <2>2, <2>3, <3>2
    <3> QED  BY <3>1, <3>2
  <2> QED  BY <2>2, <2>4
<1>3. mixer_state' = mixer_state \/ InitialSetting(t)
  BY DEF ParseTag, start_tag, end_tag, CtlTag, PathTag, NestedSetting
<1>4. InitialSetting(t) => mixer_state' = mixer_state \/ UsableCtl(t)
  BY DEF InitialSetting
<1> QED  BY <1>1, <1>2, <1>3, <1>4

\* A tag of the document keeps the invariant.
LEMMA TagKeeps ==
    ASSUME ArIInv, ParseTag
    PROVE  ArIInv'
<1>1. /\ ar_phase = "parsing" /\ ar_phase' = "parsing" /\ uncounted' = uncounted
      /\ applied' = applied /\ mixer' = mixer
  BY DEF ParseTag
<1>2. PathTypes' /\ NoCtlTwice'
  BY TagKeepsPaths DEF ArIInv, ArTypes
<1>3. /\ mixer_state' = [c \in Ctls |-> mixer_state'[c]]
      /\ \A c \in Ctls : /\ IsState(mixer_state'[c])
                         /\ mixer_state'[c].old = mixer_state[c].old
                         /\ mixer_state'[c].active_count = mixer_state[c].active_count
  BY TagStages DEF ArIInv
<1>4. ArTypes'
  BY <1>1, <1>2, <1>3 DEF ArIInv, ArTypes
<1>5. MirrorsMixer'
  BY <1>1, <1>3 DEF ArIInv, MirrorsMixer, Supported
<1>6. /\ \A p \in PathNames : applied'[p] = 0
      /\ \A c \in Ctls : mixer_state'[c].active_count = 0
  BY <1>1, <1>3 DEF ArIInv, UnopenedIsIdle
<1> QED  BY <1>1, <1>2, <1>4, <1>5, <1>6, UnopenedInv

\* What audio_route_update_mixer leaves of a control.
LEMMA MixerUpdate ==
    ASSUME NEW states, \A c \in Ctls : IsState(states[c]), audio_route_update_mixer(states)
    PROVE  /\ mixer_state' = [c \in Ctls |-> mixer_state'[c]]
           /\ \A c \in Ctls :
                /\ IsState(mixer_state'[c]) /\ mixer_state'[c].active_count = states[c].active_count
                /\ mixer_state'[c].old = states[c].new /\ mixer_state'[c].new = states[c].new
                /\ mixer_state'[c].reset = states[c].reset
           /\ \A c \in Supported : \A j \in Written(c) :
                mixer'[c][j] = IF states[c].old # states[c].new THEN states[c].new[j]
                                                                ELSE mixer[c][j]
<1>1. /\ mixer' = [c \in Ctls |->
                     IF c \in Supported /\ states[c].old # states[c].new
                       THEN MixerAfter(c, mixer[c], states[c].new) ELSE mixer[c]]
      /\ mixer_state' = [c \in Ctls |-> [states[c] EXCEPT !.old = states[c].new]]
  BY DEF audio_route_update_mixer
<1>2. ASSUME NEW c \in Ctls
      PROVE  /\ IsState(mixer_state'[c]) /\ mixer_state'[c].active_count = states[c].active_count
             /\ mixer_state'[c].old = states[c].new /\ mixer_state'[c].new = states[c].new
             /\ mixer_state'[c].reset = states[c].reset
  <2>1. mixer_state'[c] = [states[c] EXCEPT !.old = states[c].new] /\ IsState(states[c])
    BY <1>1
  <2>2. mixer_state'[c] = [old |-> states[c].new, new |-> states[c].new,
                           reset |-> states[c].reset, active_count |-> states[c].active_count]
    BY <2>1 DEF IsState
  <2> QED  BY <2>2, Records
<1>3. ASSUME NEW c \in Supported, NEW j \in Written(c)
      PROVE  mixer'[c][j] = IF states[c].old # states[c].new THEN states[c].new[j]
                                                              ELSE mixer[c][j]
  <2>1. c \in Ctls
    BY DEF Supported
  <2>2. MixerAfter(c, mixer[c], states[c].new)[j] = states[c].new[j]
    BY <2>1, WrittenVector
  <2> QED  BY <1>1, <2>1, <2>2
<1> QED  BY <1>1, <1>2, <1>3

\* The end of the document opens the library with nothing applied, the mixer at its
\* start-up values.
LEMMA DoneKeeps ==
    ASSUME ArIInv, ParseDone
    PROVE  ArIInv'
<1> DEFINE states == save_mixer_state(mixer_state)
<1>1. /\ ar_phase = "parsing" /\ ar_phase' = "open" /\ ar_todo' = ar_todo
      /\ mixer_path' = mixer_path /\ applied' = applied /\ uncounted' = uncounted
      /\ audio_route_update_mixer(states)
  BY DEF ParseDone
<1>2. ASSUME NEW c \in Ctls
      PROVE  /\ IsState(states[c]) /\ states[c].old = mixer_state[c].old
             /\ states[c].active_count = 0
             /\ c \in Supported => states[c].reset = states[c].new
  <2>1. IsState(mixer_state[c]) /\ mixer_state[c].active_count = 0
    BY <1>1 DEF ArIInv, ArTypes, UnopenedIsIdle
  <2>2. CASE c \in Supported
    <3>1. states[c] = [mixer_state[c] EXCEPT !.reset = mixer_state[c].new]
      BY <2>2 DEF save_mixer_state
    <3>2. states[c] = [old |-> mixer_state[c].old, new |-> mixer_state[c].new,
                       reset |-> mixer_state[c].new,
                       active_count |-> mixer_state[c].active_count]
      BY <2>1, <3>1 DEF IsState
    <3> HIDE DEF states
    <3> QED  BY <2>1, <3>2, Records
  <2>3. CASE c \notin Supported
    <3>1. states[c] = mixer_state[c]
      BY <2>3 DEF save_mixer_state
    <3> QED  BY <2>1, <2>3, <3>1
  <2> QED  BY <2>2, <2>3
<1> HIDE DEF states
<1>3. /\ mixer_state' = [c \in Ctls |-> mixer_state'[c]]
      /\ \A c \in Ctls :
           /\ IsState(mixer_state'[c]) /\ mixer_state'[c].active_count = 0
           /\ mixer_state'[c].old = states[c].new /\ mixer_state'[c].new = states[c].new
           /\ mixer_state'[c].reset = states[c].reset
      /\ \A c \in Supported : \A j \in Written(c) :
           mixer'[c][j] = IF states[c].old # states[c].new THEN states[c].new[j] ELSE mixer[c][j]
  BY <1>1, <1>2, MixerUpdate
<1>4. ASSUME NEW c \in Supported, NEW j \in Written(c)
      PROVE  /\ mixer_state'[c].old[j] = mixer'[c][j]
             /\ mixer'[c][j] = mixer_state'[c].reset[j]
  <2>1. c \in Ctls /\ mixer_state[c].old[j] = mixer[c][j]
    BY <1>1 DEF ArIInv, MirrorsMixer, Supported
  <2> QED  BY <1>2, <1>3, <2>1
<1>5. ArTypes' /\ NoCtlTwice'
  BY <1>1, <1>3 DEF ArIInv, ArTypes, PathTypes, NoCtlTwice
<1>6. \A c : Cardinality(Holders(c)') = 0
  <2>1. \A p \in PathNames : applied'[p] = 0
    BY <1>1 DEF ArIInv, UnopenedIsIdle
  <2> QED  BY <2>1, NobodyLeft
<1>7. CountsUsers' /\ NothingStaged' /\ UnopenedIsIdle'
  BY <1>1, <1>3, <1>6 DEF CountsUsers, NothingStaged, UnopenedIsIdle, Supported
<1>8. MirrorsMixer' /\ IdleIsReset'
  BY <1>4 DEF MirrorsMixer, IdleIsReset
<1> QED  BY <1>5, <1>7, <1>8 DEF ArIInv

\* audio_route_update_mixer keeps the invariant: where every caller pairs its calls
\* there is nothing to write.
LEMMA MixerKeeps ==
    ASSUME ArIInv, UpdateMixer
    PROVE  ArIInv'
<1>1. /\ Open /\ UNCHANGED Parsed /\ applied' = applied /\ uncounted' = uncounted
      /\ audio_route_update_mixer(mixer_state)
  BY DEF UpdateMixer
<1>2. \A c \in Ctls : IsState(mixer_state[c])
  BY DEF ArIInv, ArTypes
<1>3. /\ mixer_state' = [c \in Ctls |-> mixer_state'[c]]
      /\ \A c \in Ctls :
           /\ IsState(mixer_state'[c])
           /\ mixer_state'[c].active_count = mixer_state[c].active_count
           /\ mixer_state'[c].old = mixer_state[c].new /\ mixer_state'[c].new = mixer_state[c].new
           /\ mixer_state'[c].reset = mixer_state[c].reset
      /\ \A c \in Supported : \A j \in Written(c) :
           mixer'[c][j] = IF mixer_state[c].old # mixer_state[c].new THEN mixer_state[c].new[j]
                                                                     ELSE mixer[c][j]
  BY <1>1, <1>2, MixerUpdate
<1>4. \A c \in Supported : c \in Ctls
  BY DEF Supported
<1>5. MirrorsMixer'
  BY <1>1, <1>3, <1>4 DEF ArIInv, MirrorsMixer, Open, Parsed
<1>6. ArTypes' /\ NoCtlTwice'
  BY <1>1, <1>3 DEF ArIInv, ArTypes, PathTypes, NoCtlTwice, Parsed
<1>7. \A c : Holders(c)' = Holders(c) /\ Users(c)' = Users(c)
  <2>1. mixer_path' = mixer_path
    BY <1>1 DEF Parsed
  <2> QED  BY <1>1, <2>1, SameHolders
<1>8. CountsUsers'
  BY <1>1, <1>3, <1>4, <1>7 DEF ArIInv, CountsUsers
<1>9. NothingStaged' /\ UnopenedIsIdle'
  BY <1>1, <1>3 DEF ArIInv, NothingStaged, UnopenedIsIdle, Open, Parsed
<1>10. IdleIsReset'
  <2> SUFFICES ASSUME uncounted = 0, NEW c \in Supported, Users(c) = {}, NEW j \in Written(c)
               PROVE  mixer'[c][j] = mixer_state'[c].reset[j]
    BY <1>1, <1>7 DEF IdleIsReset
  <2>1. c \in Ctls /\ mixer_state[c].new = mixer_state[c].old
    BY <1>1, <1>4 DEF ArIInv, NothingStaged, Open
  <2>2. mixer'[c][j] = mixer[c][j] /\ mixer_state'[c].reset = mixer_state[c].reset
    BY <1>3, <2>1
  <2> QED  BY <1>1, <2>2 DEF ArIInv, IdleIsReset
<1> QED  BY <1>5, <1>6, <1>8, <1>9, <1>10 DEF ArIInv

\* A step that changes nothing keeps the invariant.
LEMMA IdleKeeps ==
    ASSUME ArIInv, UNCHANGED arVars
    PROVE  ArIInv'
<1>1. \A c : Holders(c)' = Holders(c) /\ Users(c)' = Users(c)
  BY SameHolders DEF arVars
<1>2. ArTypes' /\ NoCtlTwice' /\ UnopenedIsIdle' /\ MirrorsMixer' /\ NothingStaged'
  BY DEF ArIInv, ArTypes, PathTypes, NoCtlTwice, UnopenedIsIdle, MirrorsMixer, NothingStaged, arVars
<1>3. CountsUsers' /\ IdleIsReset'
  BY <1>1 DEF ArIInv, CountsUsers, IdleIsReset, Open, arVars
<1> QED  BY <1>2, <1>3 DEF ArIInv

\* Every step of the library keeps the invariant.
LEMMA ArSteps == ArIInv /\ [ArNext]_arVars => ArIInv'
<1> SUFFICES ASSUME ArIInv, [ArNext]_arVars PROVE ArIInv'
  OBVIOUS
<1>1. ASSUME NEW doc \in Documents, audio_route_init(doc) PROVE ArIInv'
  BY <1>1, InitKeeps
<1>2. CASE ParseTag
  BY <1>2, TagKeeps
<1>3. CASE ParseError \/ audio_route_free
  BY <1>3, FreedKeeps DEF ParseError, audio_route_free
<1>4. CASE ParseDone
  BY <1>4, DoneKeeps
<1>5. ASSUME NEW name \in PathNames, audio_route_apply_and_update_path(name) PROVE ArIInv'
  BY <1>5, ApplyKeeps
<1>6. ASSUME NEW name \in PathNames, audio_route_reset_and_update_path(name) PROVE ArIInv'
  BY <1>6, ResetKeeps
<1>7. ASSUME NEW name \in PathNames, audio_route_force_reset_and_update_path(name) PROVE ArIInv'
  BY <1>7, ForceKeeps
<1>8. ASSUME NEW name \in PathNames, audio_route_apply_path(name) PROVE ArIInv'
  <2>1. Open /\ Stage(path_apply(name)) /\ Staged(path_apply(name))
    BY <1>8, PathsStage DEF audio_route_apply_path, ArIInv
  <2> QED  BY <2>1, StageKeeps
<1>9. ASSUME NEW name \in PathNames, audio_route_reset_path(name) PROVE ArIInv'
  <2>1. Open /\ Stage(path_reset(name)) /\ Staged(path_reset(name))
    BY <1>9, PathsStage DEF audio_route_reset_path, ArIInv
  <2> QED  BY <2>1, StageKeeps
<1>10. CASE audio_route_reset
  <2> DEFINE states == [c \in Ctls |-> [mixer_state[c] EXCEPT !.new = mixer_state[c].reset]]
  <2>1. Open /\ Stage(states) /\ Staged(states)
    BY <1>10, PathsStage DEF audio_route_reset, ArIInv
  <2> HIDE DEF states
  <2> QED  BY <2>1, StageKeeps
<1>11. CASE UpdateMixer
  BY <1>11, MixerKeeps
<1>12. ASSUME NEW name \in PathNames, UnknownPath(name) PROVE ArIInv'
  BY <1>12, IdleKeeps DEF UnknownPath
<1>13. CASE UNCHANGED arVars
  BY <1>13, IdleKeeps
<1> QED  BY <1>1, <1>2, <1>3, <1>4, <1>5, <1>6, <1>7, <1>8, <1>9, <1>10, <1>11, <1>12, <1>13
         DEF ArNext

\* The invariant of the mixer paths.
LEMMA ArInvariant == ArSpec => []ArIInv
BY ArBegins, ArSteps, PTL DEF ArSpec

\* For every document and every set of controls and paths: no path holds a control
\* twice, and while every caller pairs its calls a control's count is the number of
\* applications that hold it, the library knows what the hardware holds, and a
\* control nobody holds is back at its start-up value (audio_route.c:849, 885).
THEOREM PathsStayAccounted == ArSpec => []PathsAccounted
<1>1. ArIInv => PathsAccounted
  BY DEF ArIInv, PathsAccounted, MirrorsMixer, OldMirrorsMixer, Open
<1> QED  BY <1>1, ArInvariant, PTL

\* A control that is still held survives the reset of a path that shares it.
LEMMA ResetSpares ==
    ASSUME ArIInv, NEW p \in PathNames, audio_route_reset_and_update_path(p), uncounted = 0,
           NEW c \in CtlsOf(p), NEW q \in PathNames, applied'[q] > 0, c \in CtlsOf(q)
    PROVE  mixer'[c] = mixer[c]
<1>1. c \in Supported /\ c \in Ctls
  BY CtlsSupported DEF ArIInv, ArTypes, Supported
<1>2. ArTypes' /\ mixer_path' = mixer_path
  BY ResetKeeps DEF ArIInv, audio_route_reset_and_update_path, Parsed
<1>3. <<q, 1>> \in Holders(c)'
  <2>1. CtlsOf(q)' = CtlsOf(q) /\ applied'[q] \in 0 .. MaxApply
    BY <1>2, SameCtls DEF ArTypes
  <2> QED  BY <2>1, ArBounds DEF Holders
<1>4. Cardinality(Holders(c)') \in Nat /\ Cardinality(Holders(c)') # 0
  <2>1. Holders(c)' \in SUBSET (PathNames \X (1 .. MaxApply))
    BY DEF Holders
  <2>2. IsFiniteSet(Holders(c)')
    BY <2>1, ApplicationsFinite, FS_Subset
  <2> QED  BY <1>3, <2>2, FS_CardinalityType, FS_EmptySet
<1>5. CountAfter(mixer_state[c].active_count, "REVERSE") = Cardinality(Holders(c)')
  BY <1>1, ResetCounts
<1>6. Staged(path_reset(p)) /\ audio_route_update_path(p, "REVERSE", path_reset(p))
  BY PathsStage DEF ArIInv, audio_route_reset_and_update_path
<1>7. Updated(c, p, "REVERSE", path_reset(p))
  BY <1>1, <1>6, PathUpdate DEF ArIInv
<1>8. KeepsValue(CountAfter(mixer_state[c].active_count, "REVERSE"), "REVERSE")
  BY <1>4, <1>5 DEF KeepsValue
<1> QED  BY <1>7, <1>8 DEF Updated

\* For every document and every set of controls and paths: while every caller pairs
\* its calls, resetting a path leaves alone what another applied path holds
\* (audio_route.c:893).
THEOREM SharedCtlStays == ArSpec => SharedCtlSurvives
<1>1. ASSUME ArIInv, [ArNext]_arVars, ~UNCHANGED arVars, NEW p \in PathNames,
             uncounted' = 0, applied'[p] < applied[p], ar_phase' = "open",
             NEW c \in CtlsOf(p), NEW q \in PathNames, applied'[q] > 0, c \in CtlsOf(q)
      PROVE  mixer'[c] = mixer[c]
  <2>1. applied \in [PathNames -> 0 .. MaxApply] /\ uncounted \in Nat
    BY <1>1 DEF ArIInv, ArTypes
  <2>2. applied' # applied
    BY <1>1, <2>1, ArBounds
  <2>3. ASSUME NEW name \in PathNames, audio_route_apply_and_update_path(name) PROVE FALSE
    <3>1. applied' = [applied EXCEPT ![name] = @ + 1]
      BY <2>3 DEF audio_route_apply_and_update_path
    <3> QED  BY <1>1, <2>1, <3>1, ArBounds
  <2>4. ASSUME NEW name \in PathNames, audio_route_reset_and_update_path(name)
        PROVE  mixer'[c] = mixer[c]
    <3>1. applied' = [applied EXCEPT ![name] = @ - 1] /\ uncounted = 0
      BY <1>1, <2>4 DEF audio_route_reset_and_update_path
    <3>2. name = p
      BY <1>1, <2>1, <3>1, ArBounds
    <3> QED  BY <1>1, <2>4, <3>1, <3>2, ResetSpares
  <2>5. ASSUME NEW name \in PathNames, audio_route_force_reset_and_update_path(name) PROVE FALSE
    BY <1>1, <2>1, <2>5 DEF audio_route_force_reset_and_update_path, Uncounted
  <2>6. ASSUME NEW doc \in Documents, audio_route_init(doc) PROVE FALSE
    BY <1>1, <2>6 DEF audio_route_init
  <2>7. CASE ParseTag \/ ParseError \/ ParseDone \/ audio_route_free
    BY <1>1, <2>2, <2>7 DEF ParseTag, ParseError, ParseDone, audio_route_free, Freed
  <2>8. ASSUME NEW name \in PathNames,
               audio_route_apply_path(name) \/ audio_route_reset_path(name) \/ UnknownPath(name)
        PROVE  FALSE
    BY <2>2, <2>8 DEF audio_route_apply_path, audio_route_reset_path, UnknownPath, Stage, arVars
  <2>9. CASE audio_route_reset \/ UpdateMixer
    BY <2>2, <2>9 DEF audio_route_reset, UpdateMixer, Stage
  <2> QED  BY <1>1, <2>3, <2>4, <2>5, <2>6, <2>7, <2>8, <2>9 DEF ArNext
<1>2. ArIInv /\ [ArNext]_arVars =>
        [\A p \in PathNames :
           uncounted' = 0 /\ applied'[p] < applied[p] /\ ar_phase' = "open" =>
             \A c \in CtlsOf(p) :
               (\E q \in PathNames : applied'[q] > 0 /\ c \in CtlsOf(q))
                 => mixer'[c] = mixer[c]]_arVars
  BY <1>1
<1> QED  BY <1>2, ArInvariant, PTL DEF ArSpec, SharedCtlSurvives

-----------------------------------------------------------------------------
(* Loops.  The code's loops are recursive functions over 0..n; what one       *)
(* computes is found by looking at the least place where it would not.       *)

\* g is what a loop of n rounds has computed after each of them.
IsLoop(g, n, V, a, body) ==
  /\ g \in [0..n -> V]
  /\ g[0] = a
  /\ \A i \in 1..n : g[i] = body[i][g[i - 1]]

\* A loop of n rounds whose body is a function of the round and the value so
\* far has a value after every round.
LEMMA LoopRuns ==
    ASSUME NEW n \in Nat, NEW V, NEW a \in V, NEW body \in [1..n -> [V -> V]]
    PROVE  \E g : IsLoop(g, n, V, a, body)
<1> DEFINE Runs(k, g) == g[0] = a /\ \A i \in 1..k : g[i] = body[i][g[i - 1]]
<1> DEFINE Bad == {k \in 0..n : ~ \E g \in [0..k -> V] : Runs(k, g)}
<1>1. SUFFICES ASSUME Bad # {} PROVE FALSE
  <2>1. n \notin Bad
    BY <1>1
  <2>2. PICK g \in [0..n -> V] : Runs(n, g)
    BY <2>1
  <2> QED  BY <2>2 DEF IsLoop
<1> DEFINE m == Min(Bad)
<1>2. m \in Bad /\ \A k \in Bad : m <= k
  <2>1. Bad \subseteq Nat
    OBVIOUS
  <2> HIDE DEF Bad
  <2> QED  BY <1>1, <2>1, LeastIsMember
<1> HIDE DEF m
<1>3. m \in 0..n /\ ~ \E g \in [0..m -> V] : Runs(m, g)
  BY <1>2
<1>4. CASE m = 0
  <2> DEFINE g == [i \in 0..0 |-> a]
  <2>1. g \in [0..0 -> V] /\ g[0] = a
    OBVIOUS
  <2>2. \A i \in 1..0 : g[i] = body[i][g[i - 1]]
    OBVIOUS
  <2>3. ~ \E q \in [0..0 -> V] : Runs(0, q)
    BY <1>3, <1>4
  <2> HIDE DEF g
  <2> QED  BY <2>1, <2>2, <2>3
<1>5. CASE m # 0
  <2>0. m - 1 \in 0..n /\ ~ (m <= m - 1)
    BY <1>3, <1>5
  <2>1. m - 1 \notin Bad
    <3> HIDE DEF Bad
    <3> QED  BY <1>2, <2>0
  <2>2. PICK g \in [0..(m - 1) -> V] : Runs(m - 1, g)
    <3> HIDE DEF Runs
    <3> QED  BY <2>0, <2>1
  <2>3. g[m - 1] \in V /\ m \in 1..n
    BY <1>3, <1>5
  <2>4. body[m][g[m - 1]] \in V
    BY <2>3
  <2> DEFINE h == [i \in 0..m |-> IF i = m THEN body[m][g[m - 1]] ELSE g[i]]
  <2>5. ASSUME NEW i \in 0..m PROVE h[i] \in V
    <3>1. i # m => i \in 0..(m - 1)
      BY <1>3
    <3> QED  BY <2>4, <3>1
  <2>6. h \in [0..m -> V]
    BY <2>5
  <2>7. h[0] = a
    BY <1>3, <1>5, <2>2
  <2>8. ASSUME NEW i \in 1..m PROVE h[i] = body[i][h[i - 1]]
    <3>1. i \in 0..m /\ i - 1 \in 0..m /\ i - 1 # m
      BY <1>3
    <3>2. h[i - 1] = g[i - 1]
      BY <3>1
    <3>3. CASE i = m
      BY <3>1, <3>2, <3>3
    <3>4. CASE i # m
      <4>1. i \in 1..(m - 1)
        BY <1>3, <3>4
      <4>2. h[i] = g[i]
        BY <3>1, <3>4
      <4> QED  BY <2>2, <3>2, <4>1, <4>2
    <3> QED  BY <3>3, <3>4
  <2> HIDE DEF h
  <2> QED  BY <1>3, <2>6, <2>7, <2>8
<1> QED  BY <1>4, <1>5

\* r is the members of s at the places, in their order, and every one of them.
KeptFrom(r, s, places) ==
  \E h \in [1..Len(r) -> 1..Len(s)] :
    /\ \A j \in 1..Len(r) : h[j] \in places /\ r[j] = s[h[j]]
    /\ \A j, k \in 1..Len(r) : j < k => h[j] < h[k]
    /\ \A i \in 1..Len(s) : i \in places => \E j \in 1..Len(r) : h[j] = i

\* What the loop that keeps some members of a sequence leaves.
LEMMA KeptFacts ==
    ASSUME NEW S, NEW s \in Seq(S), NEW places
    PROVE  /\ Kept(s, places) \in Seq(S)
           /\ KeptFrom(Kept(s, places), s, places)
<1> DEFINE n == Len(s)
<1> DEFINE Step(i, q) == IF i \in places THEN Append(q, s[i]) ELSE q
<1> DEFINE F(g) == [i \in 0..n |-> IF i = 0 THEN << >>
                                  ELSE IF i \in places THEN Append(g[i - 1], s[i])
                                  ELSE g[i - 1]]
<1> DEFINE kept == CHOOSE g : g = F(g)
<1>0. n \in Nat /\ \A i \in 1..n : s[i] \in S
  OBVIOUS
<1>1. \E g \in [0..n -> Seq(S)] : g = F(g)
  <2> DEFINE body == [i \in 1..n |-> [q \in Seq(S) |-> Step(i, q)]]
  <2>1. ASSUME NEW i \in 1..n, NEW q \in Seq(S) PROVE Step(i, q) \in Seq(S)
    BY <1>0
  <2>2. body \in [1..n -> [Seq(S) -> Seq(S)]]
    <3> HIDE DEF Step
    <3> QED  BY <2>1
  <2>3. ASSUME NEW i \in 1..n, NEW q \in Seq(S) PROVE body[i][q] = Step(i, q)
    <3> HIDE DEF Step
    <3> QED  OBVIOUS
  <2>4. << >> \in Seq(S)
    OBVIOUS
  <2>5. PICK g \in [0..n -> Seq(S)] :
          g[0] = << >> /\ \A i \in 1..n : g[i] = body[i][g[i - 1]]
    <3> HIDE DEF body, n
    <3>1. \E g : IsLoop(g, n, Seq(S), << >>, body)
      BY <1>0, <2>2, <2>4, LoopRuns
    <3> QED  BY <3>1 DEF IsLoop
  <2>6. ASSUME NEW i \in 1..n PROVE g[i] = Step(i, g[i - 1])
    <3>1. i - 1 \in 0..n
      BY <1>0
    <3> HIDE DEF body, Step, n
    <3> QED  BY <2>3, <2>5, <3>1
  <2>7. ASSUME NEW i \in 0..n PROVE g[i] = F(g)[i]
    <3>1. i = 0 \/ i \in 1..n
      BY <1>0
    <3> HIDE DEF n, body
    <3>2. CASE i = 0
      BY <2>5, <3>2
    <3>3. CASE i \in 1..n
      <4>1. i # 0
        BY <1>0, <3>3
      <4> QED  BY <2>6, <3>3, <4>1
    <3> QED  BY <3>1, <3>2, <3>3
  <2>8. g = F(g)
    <3> HIDE DEF n
    <3> QED  BY <2>7
  <2> QED  BY <2>8
<1>2. kept = F(kept)
  <2> HIDE DEF F
  <2> QED  BY <1>1
<1>3. Kept(s, places) = kept[n]
  BY DEF Kept
<1> HIDE DEF kept
<1>4. kept[0] = << >> /\ \A i \in 1..n : kept[i] = Step(i, kept[i - 1])
  <2>1. 0 \in 0..n /\ \A i \in 1..n : i \in 0..n /\ i # 0
    BY <1>0
  <2> HIDE DEF n
  <2>2. \A i \in 0..n : kept[i] = F(kept)[i]
    BY <1>2
  <2>3. kept[0] = << >>
    BY <2>1, <2>2
  <2>4. ASSUME NEW i \in 1..n PROVE kept[i] = Step(i, kept[i - 1])
    BY <2>1, <2>2
  <2> QED  BY <2>3, <2>4
<1> DEFINE Enumerates(i, h) ==
      /\ kept[i] \in Seq(S)
      /\ h \in [1..Len(kept[i]) -> 1..i]
      /\ \A j \in 1..Len(kept[i]) : h[j] \in places /\ kept[i][j] = s[h[j]]
      /\ \A j, k \in 1..Len(kept[i]) : j < k => h[j] < h[k]
      /\ \A k \in 1..i : k \in places => \E j \in 1..Len(kept[i]) : h[j] = k
<1> DEFINE Bad == {i \in 0..n : ~ \E h : Enumerates(i, h)}
<1>5. Bad = {}
  <2>1. SUFFICES ASSUME Bad # {} PROVE FALSE
    OBVIOUS
  <2> DEFINE m == Min(Bad)
  <2>2. m \in Bad /\ \A k \in Bad : m <= k
    <3>1. Bad \subseteq Nat
      OBVIOUS
    <3> HIDE DEF Bad
    <3> QED  BY <2>1, <3>1, LeastIsMember
  <2> HIDE DEF m
  <2>3. m \in 0..n /\ ~ \E h : Enumerates(m, h)
    BY <2>2
  <2>4. CASE m = 0
    <3>1. Enumerates(0, << >>)
      <4>1. kept[0] \in Seq(S) /\ Len(kept[0]) = 0
        BY <1>4
      <4>2. << >> \in [1..0 -> 1..0]
        OBVIOUS
      <4> QED  BY <4>1, <4>2
    <3> HIDE DEF Enumerates
    <3> QED  BY <2>3, <2>4, <3>1
  <2>5. CASE m # 0
    <3>1. m \in 1..n /\ m - 1 \in 0..n /\ ~ (m <= m - 1)
      BY <1>0, <2>3, <2>5
    <3>0. m - 1 \notin Bad
      <4> HIDE DEF Bad
      <4> QED  BY <2>2, <3>1
    <3>2. PICK h : Enumerates(m - 1, h)
      <4> HIDE DEF Enumerates
      <4> QED  BY <3>1, <3>0
    <3> DEFINE q == kept[m - 1]
    <3>3. kept[m] = Step(m, q) /\ q \in Seq(S) /\ Len(q) \in Nat
      BY <1>4, <3>1, <3>2
    <3>4. CASE m \notin places
      <4>1. kept[m] = q
        BY <3>3, <3>4
      <4>2. h \in [1..Len(q) -> 1..m]
        BY <3>1, <3>2
      <4>3. ASSUME NEW k \in 1..m, k \in places PROVE \E j \in 1..Len(q) : h[j] = k
        <5>1. k \in 1..(m - 1)
          BY <3>1, <3>4, <4>3
        <5> QED  BY <3>2, <4>3, <5>1
      <4>4. Enumerates(m, h)
        BY <3>2, <4>1, <4>2, <4>3
      <4> HIDE DEF Enumerates
      <4> QED  BY <2>3, <4>4
    <3>5. CASE m \in places
      <4> DEFINE p == kept[m]
      <4> DEFINE g == [j \in 1..(Len(q) + 1) |-> IF j = Len(q) + 1 THEN m ELSE h[j]]
      <4>1. s[m] \in S /\ p = Append(q, s[m])
        BY <1>0, <3>1, <3>3, <3>5
      <4>2. p \in Seq(S) /\ Len(p) = Len(q) + 1 /\ p[Len(q) + 1] = s[m]
            /\ \A j \in 1..Len(q) : p[j] = q[j]
        <5> HIDE DEF p, q
        <5> QED  BY <3>3, <4>1, AppendProperties
      <4>3. ASSUME NEW j \in 1..Len(q)
            PROVE  g[j] = h[j] /\ h[j] \in 1..(m - 1) /\ h[j] \in places
                   /\ q[j] = s[h[j]]
        <5>1. h[j] \in 1..(m - 1) /\ h[j] \in places /\ q[j] = s[h[j]]
          BY <3>2
        <5>2. j \in 1..(Len(q) + 1) /\ j # Len(q) + 1
          BY <3>3
        <5> HIDE DEF q
        <5> QED  BY <5>1, <5>2
      <4>4. g[Len(q) + 1] = m
        BY <3>3
      <4>5. DOMAIN g = 1..(Len(q) + 1)
        OBVIOUS
      <4>6. \A j \in 1..(Len(q) + 1) : j = Len(q) + 1 \/ j \in 1..Len(q)
        BY <3>3
      <4>7. ASSUME NEW j \in 1..(Len(q) + 1) PROVE g[j] \in 1..m
        <5>1. 1..(m - 1) \subseteq 1..m /\ m \in 1..m
          BY <3>1
        <5> HIDE DEF g, q
        <5> QED  BY <4>3, <4>4, <4>6, <5>1
      <4>8. g \in [1..Len(p) -> 1..m]
        BY <4>2, <4>7
      <4>9. \A j, k \in 1..Len(q) : j < k => h[j] < h[k]
        BY <3>2
      <4>10. \A k \in 1..(m - 1) : k \in places => \E j \in 1..Len(q) : h[j] = k
        BY <3>2
      <4> HIDE DEF g, p, q
      <4>11. ASSUME NEW j \in 1..Len(p) PROVE g[j] \in places /\ p[j] = s[g[j]]
        <5>1. CASE j = Len(q) + 1
          BY <3>5, <4>2, <4>4, <5>1
        <5>2. CASE j \in 1..Len(q)
          BY <4>2, <4>3, <5>2
        <5> QED  BY <4>2, <4>6, <5>1, <5>2
      <4>12. ASSUME NEW j \in 1..Len(p), NEW k \in 1..Len(p), j < k
             PROVE  g[j] < g[k]
        <5>1. j \in 1..Len(q)
          BY <3>3, <4>2, <4>12
        <5>2. CASE k = Len(q) + 1
          BY <3>1, <4>3, <4>4, <5>1, <5>2
        <5>3. CASE k \in 1..Len(q)
          BY <4>3, <4>9, <4>12, <5>1, <5>3
        <5> QED  BY <4>2, <4>6, <5>2, <5>3
      <4>13. ASSUME NEW k \in 1..m, k \in places PROVE \E j \in 1..Len(p) : g[j] = k
        <5>1. CASE k = m
          <6>1. Len(q) + 1 \in 1..Len(p)
            BY <3>3, <4>2
          <6> QED  BY <4>4, <5>1, <6>1
        <5>2. CASE k # m
          <6>1. k \in 1..(m - 1)
            BY <3>1, <5>2
          <6>2. PICK j \in 1..Len(q) : h[j] = k
            BY <4>10, <4>13, <6>1
          <6>3. j \in 1..Len(p) /\ g[j] = k
            BY <3>3, <4>2, <4>3, <6>2
          <6> QED  BY <6>3
        <5> QED  BY <5>1, <5>2
      <4>14. Enumerates(m, g)
        BY <4>2, <4>8, <4>11, <4>12, <4>13 DEF p
      <4> HIDE DEF Enumerates
      <4> QED  BY <2>3, <4>14
    <3> QED  BY <3>4, <3>5
  <2> QED  BY <2>4, <2>5
<1>6. PICK h : Enumerates(n, h)
  <2>1. n \in 0..n
    BY <1>0
  <2> HIDE DEF Enumerates, n
  <2> QED  BY <1>5, <2>1
<1>7. DOMAIN kept[n] = 1..Len(kept[n]) /\ kept[n] \in Seq(S)
  BY <1>6
<1>8. KeptFrom(kept[n], s, places)
  BY <1>6 DEF KeptFrom
<1> QED  BY <1>3, <1>7, <1>8

\* Induction along the rounds of a loop.
LEMMA RoundByRound ==
    ASSUME NEW n \in Nat, NEW Good, 0 \in Good,
           \A i \in 1..n : i - 1 \in Good => i \in Good
    PROVE  \A i \in 0..n : i \in Good
<1> DEFINE Bad == (0..n) \ Good
<1>1. SUFFICES ASSUME Bad # {} PROVE FALSE
  BY <1>1
<1> DEFINE m == Min(Bad)
<1>2. m \in Bad /\ \A k \in Bad : m <= k
  <2>1. Bad \subseteq Nat
    OBVIOUS
  <2> HIDE DEF Bad
  <2> QED  BY <1>1, <2>1, LeastIsMember
<1> HIDE DEF m
<1>3. m \in 1..n /\ m - 1 \in 0..n /\ ~ (m <= m - 1)
  BY <1>2
<1>4. m - 1 \notin Bad
  <2> HIDE DEF Bad
  <2> QED  BY <1>2, <1>3
<1> QED  BY <1>2, <1>3, <1>4

-----------------------------------------------------------------------------
(* The choice of a configuration. *)

Altsets ==
  [bit_width : Nat, channel_count : Nat \ {0}, rates : Seq(supported_sample_rates),
   service_interval_us : Nat, type : {"playback", "capture"}]

LEMMA AbsSubInt == \A a, b \in Int : AbsSub(a, b) \in Int
  BY DEF AbsSub

LEMMA AltsetFields ==
    ASSUME NEW list \in Seq(Altsets), NEW i \in 1..Len(list)
    PROVE  /\ list[i] \in Altsets
           /\ list[i].bit_width \in Nat
           /\ list[i].channel_count \in Nat /\ list[i].channel_count # 0
           /\ list[i].rates \in Seq(supported_sample_rates)
           /\ list[i].service_interval_us \in Nat
           /\ list[i].type \in {"playback", "capture"}
<1>1. list[i] \in Altsets
  OBVIOUS
<1> QED  BY <1>1 DEF Altsets

\* The width loop, round by round.
LEMMA WidthLoop ==
    ASSUME NEW list \in Seq(Altsets)
    PROVE  \E best \in [0..Len(list) -> Nat] :
             /\ best[0] = 0
             /\ \A i \in 1..Len(list) :
                  best[i] = IF best[i - 1] = 0 \/ list[i].bit_width > best[i - 1]
                            THEN list[i].bit_width ELSE best[i - 1]
             /\ usb_get_best_bit_width(list) = best[Len(list)]
<1> DEFINE n == Len(list)
<1> DEFINE Step(i, b) == IF b = 0 \/ list[i].bit_width > b THEN list[i].bit_width ELSE b
<1> DEFINE F(g) == [i \in 0..n |-> IF i = 0 THEN 0
                                  ELSE IF g[i - 1] = 0 \/ list[i].bit_width > g[i - 1]
                                       THEN list[i].bit_width ELSE g[i - 1]]
<1> DEFINE body == [i \in 1..n |-> [b \in Nat |-> Step(i, b)]]
<1> DEFINE best == CHOOSE g : g = F(g)
<1>1. n \in Nat /\ \A i \in 1..n : list[i].bit_width \in Nat
  BY AltsetFields
<1>2. 0 \in 0..n /\ \A i \in 0..n : i = 0 \/ i \in 1..n
  BY <1>1
<1>3. \A i \in 1..n : i # 0 /\ i \in 0..n /\ i - 1 \in 0..n
  BY <1>1
<1>4. usb_get_best_bit_width(list) = best[n]
  BY DEF usb_get_best_bit_width
<1> HIDE DEF n
<1>5. ASSUME NEW i \in 1..n, NEW b \in Nat PROVE Step(i, b) \in Nat
  BY <1>1
<1>6. body \in [1..n -> [Nat -> Nat]]
  <2> HIDE DEF Step
  <2> QED  BY <1>5
<1>7. ASSUME NEW i \in 1..n, NEW b \in Nat PROVE body[i][b] = Step(i, b)
  <2> HIDE DEF Step
  <2> QED  OBVIOUS
<1> HIDE DEF body
<1>8. PICK g : IsLoop(g, n, Nat, 0, body)
  BY <1>1, <1>6, LoopRuns
<1>9. g \in [0..n -> Nat] /\ g[0] = 0 /\ \A i \in 1..n : g[i] = Step(i, g[i - 1])
  <2> HIDE DEF Step
  <2> QED  BY <1>3, <1>7, <1>8 DEF IsLoop
<1>10. ASSUME NEW i \in 0..n PROVE g[i] = F(g)[i]
  BY <1>2, <1>3, <1>9
<1>11. g = F(g)
  BY <1>9, <1>10
<1>12. best = F(best)
  <2> HIDE DEF F
  <2> QED  BY <1>11
<1> HIDE DEF best
<1>13. best[0] = 0 /\ \A i \in 1..n : best[i] = Step(i, best[i - 1])
  BY <1>2, <1>3, <1>12
<1> DEFINE Good == {i \in 0..n : best[i] \in Nat}
<1>14. \A i \in 0..n : i \in Good
  <2>1. 0 \in Good
    BY <1>2, <1>13
  <2>2. ASSUME NEW i \in 1..n, i - 1 \in Good PROVE i \in Good
    <3> HIDE DEF Step
    <3> QED  BY <1>3, <1>5, <1>13, <2>2
  <2> HIDE DEF Good
  <2> QED  BY <1>1, <2>1, <2>2, RoundByRound
<1>15. best \in [0..n -> Nat]
  <2>1. DOMAIN best = 0..n /\ best = [i \in 0..n |-> best[i]]
    BY <1>12
  <2> QED  BY <1>14, <2>1
<1> QED  BY <1>4, <1>13, <1>15 DEF n

\* The width chosen is the widest of the card.
LEMMA WidestChosen ==
    ASSUME NEW list \in Seq(Altsets), list # << >>
    PROVE  /\ usb_get_best_bit_width(list) \in Nat
           /\ \E k \in 1..Len(list) : list[k].bit_width = usb_get_best_bit_width(list)
           /\ \A k \in 1..Len(list) : list[k].bit_width <= usb_get_best_bit_width(list)
<1> DEFINE n == Len(list)
<1>1. n \in Nat /\ n # 0 /\ \A i \in 1..n : list[i].bit_width \in Nat
  BY AltsetFields
<1>2. PICK best \in [0..n -> Nat] :
             /\ best[0] = 0
             /\ \A i \in 1..n :
                  best[i] = IF best[i - 1] = 0 \/ list[i].bit_width > best[i - 1]
                            THEN list[i].bit_width ELSE best[i - 1]
             /\ usb_get_best_bit_width(list) = best[n]
  BY WidthLoop
<1> HIDE DEF n
<1> DEFINE P(i) == /\ \A k \in 1..i : list[k].bit_width <= best[i]
                   /\ i # 0 => \E k \in 1..i : list[k].bit_width = best[i]
<1> DEFINE Good == {i \in 0..n : P(i)}
<1>3. 0 \in Good
  BY <1>1
<1>4. ASSUME NEW i \in 1..n, i - 1 \in Good PROVE i \in Good
  <2>1. i \in 0..n /\ i - 1 \in 0..n /\ i \in 1..i /\ \A k \in 1..i : k = i \/ k \in 1..(i - 1)
    BY <1>1
  <2>2. best[i] \in Nat /\ best[i - 1] \in Nat /\ list[i].bit_width \in Nat
    BY <1>1, <2>1
  <2>3. \A k \in 1..i : k \in 1..n
    BY <1>1
  <2>4. list[i].bit_width <= best[i] /\ best[i - 1] <= best[i]
    BY <1>2, <2>2
  <2>5. best[i] = list[i].bit_width \/ (best[i] = best[i - 1] /\ best[i - 1] # 0)
    BY <1>2, <2>2
  <2>6. \A k \in 1..(i - 1) : list[k].bit_width <= best[i - 1]
    BY <1>4
  <2>7. ASSUME NEW k \in 1..i PROVE list[k].bit_width <= best[i]
    <3>1. list[k].bit_width \in Nat
      BY <1>1, <2>3
    <3> QED  BY <2>1, <2>2, <2>4, <2>6, <3>1
  <2>8. \E k \in 1..i : list[k].bit_width = best[i]
    <3>1. CASE best[i] = list[i].bit_width
      BY <2>1, <3>1
    <3>2. CASE best[i] = best[i - 1] /\ best[i - 1] # 0
      <4>1. i - 1 # 0
        BY <1>2, <3>2
      <4>2. PICK k \in 1..(i - 1) : list[k].bit_width = best[i - 1]
        BY <1>4, <4>1
      <4>3. k \in 1..i
        BY <4>2
      <4> QED  BY <3>2, <4>2, <4>3
    <3> QED  BY <2>5, <3>1, <3>2
  <2> QED  BY <2>1, <2>7, <2>8
<1>5. \A i \in 0..n : i \in Good
  <2> HIDE DEF Good
  <2> QED  BY <1>1, <1>3, <1>4, RoundByRound
<1>6. P(n) /\ best[n] \in Nat
  BY <1>1, <1>5
<1> QED  BY <1>1, <1>2, <1>6 DEF n

\* The channel loop, round by round.
ChannelRounds(best, list, bit_width, stream_ch) ==
  /\ best \in [0..Len(list) -> Nat]
  /\ best[0] = 0
  /\ \A i \in 1..Len(list) :
       best[i] = IF list[i].bit_width # bit_width THEN best[i - 1]
                 ELSE CloserChannels(stream_ch, list[i].channel_count, best[i - 1])
  /\ usb_get_best_match_for_channels(list, bit_width, stream_ch) =
       IF \E i \in DOMAIN list : /\ list[i].bit_width = bit_width
                                 /\ list[i].channel_count = stream_ch
       THEN stream_ch ELSE best[Len(list)]

LEMMA ChannelLoop ==
    ASSUME NEW list \in Seq(Altsets), NEW bit_width \in Nat, NEW stream_ch \in Nat
    PROVE  \E best : ChannelRounds(best, list, bit_width, stream_ch)
<1> DEFINE n == Len(list)
<1> DEFINE Step(i, b) == IF list[i].bit_width # bit_width THEN b
                         ELSE CloserChannels(stream_ch, list[i].channel_count, b)
<1> DEFINE F(g) == [i \in 0..n |-> IF i = 0 THEN 0
                                  ELSE IF list[i].bit_width # bit_width THEN g[i - 1]
                                  ELSE CloserChannels(stream_ch, list[i].channel_count,
                                                      g[i - 1])]
<1> DEFINE body == [i \in 1..n |-> [b \in Nat |-> Step(i, b)]]
<1> DEFINE best == CHOOSE g : g = F(g)
<1>1. n \in Nat /\ \A i \in 1..n : list[i].channel_count \in Nat
  BY AltsetFields
<1>2. 0 \in 0..n /\ \A i \in 0..n : i = 0 \/ i \in 1..n
  BY <1>1
<1>3. \A i \in 1..n : i # 0 /\ i \in 0..n /\ i - 1 \in 0..n
  BY <1>1
<1>4. usb_get_best_match_for_channels(list, bit_width, stream_ch) =
        IF \E i \in DOMAIN list : /\ list[i].bit_width = bit_width
                                  /\ list[i].channel_count = stream_ch
        THEN stream_ch ELSE best[n]
  BY DEF usb_get_best_match_for_channels
<1> HIDE DEF n
<1>5. ASSUME NEW i \in 1..n, NEW b \in Nat PROVE Step(i, b) \in Nat
  BY <1>1 DEF CloserChannels
<1>6. body \in [1..n -> [Nat -> Nat]]
  <2> HIDE DEF Step
  <2> QED  BY <1>5
<1>7. ASSUME NEW i \in 1..n, NEW b \in Nat PROVE body[i][b] = Step(i, b)
  <2> HIDE DEF Step
  <2> QED  OBVIOUS
<1> HIDE DEF body
<1>8. PICK g : IsLoop(g, n, Nat, 0, body)
  BY <1>1, <1>6, LoopRuns
<1>9. g \in [0..n -> Nat] /\ g[0] = 0 /\ \A i \in 1..n : g[i] = Step(i, g[i - 1])
  <2> HIDE DEF Step
  <2> QED  BY <1>3, <1>7, <1>8 DEF IsLoop
<1>10. ASSUME NEW i \in 0..n PROVE g[i] = F(g)[i]
  BY <1>2, <1>3, <1>9
<1>11. g = F(g)
  BY <1>9, <1>10
<1>12. best = F(best)
  <2> HIDE DEF F
  <2> QED  BY <1>11
<1> HIDE DEF best
<1>13. best[0] = 0 /\ \A i \in 1..n : best[i] = Step(i, best[i - 1])
  BY <1>2, <1>3, <1>12
<1> DEFINE Good == {i \in 0..n : best[i] \in Nat}
<1>14. \A i \in 0..n : i \in Good
  <2>1. 0 \in Good
    BY <1>2, <1>13
  <2>2. ASSUME NEW i \in 1..n, i - 1 \in Good PROVE i \in Good
    <3> HIDE DEF Step
    <3> QED  BY <1>3, <1>5, <1>13, <2>2
  <2> HIDE DEF Good
  <2> QED  BY <1>1, <2>1, <2>2, RoundByRound
<1>15. best \in [0..n -> Nat]
  <2>1. DOMAIN best = 0..n /\ best = [i \in 0..n |-> best[i]]
    BY <1>12
  <2> QED  BY <1>14, <2>1
<1> QED  BY <1>4, <1>13, <1>15 DEF n, ChannelRounds

\* The channel count chosen is one of an altset of the width, and none of that
\* width is nearer to the stream's.
LEMMA NearestChosen ==
    ASSUME NEW list \in Seq(Altsets), NEW bit_width \in Nat, NEW stream_ch \in Nat,
           stream_ch # 0, \E k \in 1..Len(list) : list[k].bit_width = bit_width
    PROVE  LET ch == usb_get_best_match_for_channels(list, bit_width, stream_ch)
           IN /\ ch \in Nat
              /\ \E k \in 1..Len(list) : /\ list[k].bit_width = bit_width
                                         /\ list[k].channel_count = ch
              /\ \A k \in 1..Len(list) : list[k].bit_width = bit_width =>
                   AbsSub(stream_ch, list[k].channel_count) >= AbsSub(stream_ch, ch)
<1> DEFINE n == Len(list)
<1> DEFINE ch == usb_get_best_match_for_channels(list, bit_width, stream_ch)
<1>1. n \in Nat /\ DOMAIN list = 1..n
      /\ \A i \in 1..n : list[i].channel_count \in Nat /\ list[i].channel_count # 0
  BY AltsetFields
<1>0. PICK best : ChannelRounds(best, list, bit_width, stream_ch)
  BY ChannelLoop
<1>2. /\ best \in [0..n -> Nat]
      /\ best[0] = 0
      /\ \A i \in 1..n :
           best[i] = IF list[i].bit_width # bit_width THEN best[i - 1]
                     ELSE CloserChannels(stream_ch, list[i].channel_count, best[i - 1])
      /\ ch = IF \E i \in DOMAIN list : /\ list[i].bit_width = bit_width
                                        /\ list[i].channel_count = stream_ch
              THEN stream_ch ELSE best[n]
  BY <1>0 DEF ChannelRounds
<1>3. \E k \in 1..n : list[k].bit_width = bit_width
  OBVIOUS
<1> HIDE DEF n, ch
<1>4. CASE \E i \in DOMAIN list : /\ list[i].bit_width = bit_width
                                  /\ list[i].channel_count = stream_ch
  <2>1. ch = stream_ch
    BY <1>2, <1>4
  <2>2. \A k \in 1..n : AbsSub(stream_ch, list[k].channel_count) >= AbsSub(stream_ch, ch)
    BY <1>1, <2>1 DEF AbsSub
  <2> QED  BY <1>1, <1>4, <2>1, <2>2 DEF n, ch
<1>5. CASE ~ \E i \in DOMAIN list : /\ list[i].bit_width = bit_width
                                    /\ list[i].channel_count = stream_ch
  <2> DEFINE P(i) == /\ best[i] # 0 => \E k \in 1..i : /\ list[k].bit_width = bit_width
                                                        /\ list[k].channel_count = best[i]
                     /\ \A k \in 1..i : list[k].bit_width = bit_width =>
                          /\ best[i] # 0
                          /\ AbsSub(stream_ch, list[k].channel_count) >=
                             AbsSub(stream_ch, best[i])
  <2> DEFINE Good == {i \in 0..n : P(i)}
  <2>1. 0 \in Good
    BY <1>1, <1>2
  <2>2. ASSUME NEW i \in 1..n, i - 1 \in Good PROVE i \in Good
    <3> DEFINE c == list[i].channel_count
    <3> DEFINE b == best[i - 1]
    <3>1. i \in 0..n /\ i - 1 \in 0..n /\ i \in 1..i /\ \A k \in 1..i : k = i \/ k \in 1..(i - 1)
      BY <1>1
    <3>2. \A k \in 1..(i - 1) : k \in 1..i
      BY <3>1
    <3>3. best[i] \in Nat /\ b \in Nat /\ c \in Nat /\ c # 0
      BY <1>1, <1>2, <3>1
    <3>4. \A k \in 1..i : k \in 1..n
      BY <1>1
    <3>5. P(i - 1)
      BY <2>2
    <3>6. CASE list[i].bit_width # bit_width
      <4>1. best[i] = b
        BY <1>2, <3>6
      <4> QED  BY <3>1, <3>2, <3>5, <3>6, <4>1
    <3>7. CASE list[i].bit_width = bit_width
      <4>1. best[i] = CloserChannels(stream_ch, c, b)
        BY <1>2, <3>7
      <4>2. /\ best[i] # 0 /\ best[i] \in {b, c}
            /\ AbsSub(stream_ch, c) >= AbsSub(stream_ch, best[i])
            /\ b # 0 => AbsSub(stream_ch, b) >= AbsSub(stream_ch, best[i])
        <5> HIDE DEF b, c
        <5> QED  BY <3>3, <4>1 DEF CloserChannels, AbsSub
      <4>3. \E k \in 1..i : list[k].bit_width = bit_width /\ list[k].channel_count = best[i]
        <5>1. CASE best[i] = c
          BY <3>1, <3>7, <5>1
        <5>2. CASE best[i] = b
          BY <3>2, <3>5, <4>2, <5>2
        <5> QED  BY <4>2, <5>1, <5>2
      <4>4. ASSUME NEW k \in 1..i, list[k].bit_width = bit_width
            PROVE  AbsSub(stream_ch, list[k].channel_count) >= AbsSub(stream_ch, best[i])
        <5>1. CASE k = i
          BY <4>2, <5>1
        <5>2. CASE k \in 1..(i - 1)
          <6>1. b # 0 /\ AbsSub(stream_ch, list[k].channel_count) >= AbsSub(stream_ch, b)
            BY <3>5, <4>4, <5>2
          <6>2. list[k].channel_count \in Nat
            BY <1>1, <3>4
          <6>3. /\ AbsSub(stream_ch, list[k].channel_count) \in Int
                /\ AbsSub(stream_ch, b) \in Int /\ AbsSub(stream_ch, best[i]) \in Int
            <7>1. list[k].channel_count \in Int /\ b \in Int /\ best[i] \in Int /\ stream_ch \in Int
              BY <3>3, <6>2
            <7> HIDE DEF b
            <7> QED  BY <7>1, AbsSubInt
          <6>4. b # 0 => AbsSub(stream_ch, b) >= AbsSub(stream_ch, best[i])
            BY <4>2
          <6> HIDE DEF b, c
          <6> QED  BY <3>3, <6>1, <6>2, <6>3, <6>4
        <5> QED  BY <3>1, <5>1, <5>2
      <4> QED  BY <3>1, <4>2, <4>3, <4>4
    <3> QED  BY <3>6, <3>7
  <2>3. \A i \in 0..n : i \in Good
    <3> HIDE DEF Good
    <3> QED  BY <1>1, <2>1, <2>2, RoundByRound
  <2>4. P(n) /\ best[n] \in Nat /\ ch = best[n]
    <3>1. n \in 0..n
      BY <1>1
    <3>2. n \in Good
      BY <2>3, <3>1
    <3>3. ch = best[n]
      BY <1>2, <1>5
    <3>4. best[n] \in Nat
      BY <1>2, <3>1
    <3> HIDE DEF P
    <3> QED  BY <3>2, <3>3, <3>4
  <2> QED  BY <1>3, <2>4 DEF n, ch
<1> QED  BY <1>4, <1>5

\* The base of the family of rates a stream's rate belongs to.
BaseOf(stream_rate) == IF usb_sample_rate_multiple(stream_rate, 8000) THEN 8000 ELSE 11025

\* How good a rate is for a stream is a matter of its family and its distance.
LEMMA AsGoodMeans ==
    ASSUME NEW r \in Nat, NEW a \in Nat, NEW b \in Nat
    PROVE  AsGoodRate(r, a, b) <=>
             \/ /\ usb_sample_rate_multiple(a, BaseOf(r))
                /\ ~usb_sample_rate_multiple(b, BaseOf(r))
             \/ /\ usb_sample_rate_multiple(a, BaseOf(r)) <=>
                   usb_sample_rate_multiple(b, BaseOf(r))
                /\ AbsSub(r, a) <= AbsSub(r, b)
                /\ AbsSub(r, a) = AbsSub(r, b) => a >= b
<1> DEFINE base == IF r % 8000 = 0 THEN 8000 ELSE 11025
<1> DEFINE Ma == a % base = 0
<1> DEFINE Mb == b % base = 0
<1>1. BaseOf(r) = base
  BY DEF BaseOf, usb_sample_rate_multiple
<1>2. AsGoodRate(r, a, b) <=> \/ Ma /\ b % base # 0
                              \/ /\ Ma = Mb
                                 /\ AbsSub(r, a) <= AbsSub(r, b)
                                 /\ AbsSub(r, a) = AbsSub(r, b) => a >= b
  BY DEF AsGoodRate
<1> HIDE DEF base
<1>3. /\ usb_sample_rate_multiple(a, BaseOf(r)) <=> Ma
      /\ usb_sample_rate_multiple(b, BaseOf(r)) <=> Mb
      /\ b % base # 0 <=> ~Mb
      /\ Ma \in BOOLEAN /\ Mb \in BOOLEAN
  BY <1>1 DEF usb_sample_rate_multiple
<1> HIDE DEF Ma, Mb
<1> QED  BY <1>2, <1>3, Zenon

LEMMA AsGoodOrder ==
    ASSUME NEW r \in Nat, NEW a \in Nat, NEW b \in Nat, NEW c \in Nat
    PROVE  /\ AsGoodRate(r, a, a)
           /\ AsGoodRate(r, a, b) /\ AsGoodRate(r, b, c) => AsGoodRate(r, a, c)
<1>1. AbsSub(r, a) \in Int /\ AbsSub(r, b) \in Int /\ AbsSub(r, c) \in Int
  BY DEF AbsSub
<1> QED  BY <1>1, AsGoodMeans

\* One comparison of the rate loop keeps the better of the two.
LEMMA BetterKept ==
    ASSUME NEW r \in Nat, NEW u \in Nat, NEW c \in Nat
    PROVE  LET k == usb_find_sample_rate_candidate(BaseOf(r), r, u, c)
           IN k \in {u, c} /\ AsGoodRate(r, k, u) /\ AsGoodRate(r, k, c)
<1> DEFINE k == usb_find_sample_rate_candidate(BaseOf(r), r, u, c)
<1> DEFINE Mu == usb_sample_rate_multiple(u, BaseOf(r))
<1> DEFINE Mc == usb_sample_rate_multiple(c, BaseOf(r))
<1> DEFINE closer == \/ AbsSub(r, u) < AbsSub(r, c)
                     \/ AbsSub(r, u) = AbsSub(r, c) /\ u > c
<1>1. AbsSub(r, u) \in Int /\ AbsSub(r, c) \in Int
  BY DEF AbsSub
<1>2. Mu \in BOOLEAN /\ Mc \in BOOLEAN
  BY DEF usb_sample_rate_multiple
<1>3. k = IF (~Mc /\ Mu) \/ (Mc = Mu /\ closer) THEN u ELSE c
  BY DEF usb_find_sample_rate_candidate
<1>4. AsGoodRate(r, u, u) /\ AsGoodRate(r, c, c)
  BY AsGoodOrder
<1>5. AsGoodRate(r, u, c) <=> \/ Mu /\ ~Mc
                              \/ /\ Mu <=> Mc
                                 /\ AbsSub(r, u) <= AbsSub(r, c)
                                 /\ AbsSub(r, u) = AbsSub(r, c) => u >= c
  BY AsGoodMeans
<1>6. AsGoodRate(r, c, u) <=> \/ Mc /\ ~Mu
                              \/ /\ Mu <=> Mc
                                 /\ AbsSub(r, c) <= AbsSub(r, u)
                                 /\ AbsSub(r, c) = AbsSub(r, u) => c >= u
  BY AsGoodMeans
<1> HIDE DEF Mu, Mc, k
<1>7. CASE (~Mc /\ Mu) \/ (Mc = Mu /\ closer)
  <2>1. k = u
    BY <1>3, <1>7
  <2>2. AsGoodRate(r, u, c)
    BY <1>1, <1>2, <1>5, <1>7
  <2> QED  BY <1>4, <2>1, <2>2 DEF k
<1>8. CASE ~((~Mc /\ Mu) \/ (Mc = Mu /\ closer))
  <2>1. k = c
    BY <1>3, <1>8
  <2>2. (Mc /\ ~Mu) \/ (Mc = Mu /\ ~closer)
    BY <1>2, <1>8
  <2>3. AsGoodRate(r, c, u)
    BY <1>1, <1>2, <1>6, <2>2
  <2> QED  BY <1>4, <2>1, <2>3 DEF k
<1> QED  BY <1>7, <1>8

\* The rate loop, round by round.
RateRounds(best, rates, r) ==
  /\ best \in [0..Len(rates) -> Nat]
  /\ best[0] = 0
  /\ \A i \in 1..Len(rates) :
       best[i] = IF best[i - 1] = 0 THEN rates[i]
                 ELSE usb_find_sample_rate_candidate(BaseOf(r), r, rates[i], best[i - 1])
  /\ BestRateOf(rates, r) = best[Len(rates)]

LEMMA RateLoop ==
    ASSUME NEW rates \in Seq(supported_sample_rates), NEW r \in Nat
    PROVE  \E best : RateRounds(best, rates, r)
<1> DEFINE n == Len(rates)
<1> DEFINE Step(i, b) == IF b = 0 THEN rates[i]
                         ELSE usb_find_sample_rate_candidate(BaseOf(r), r, rates[i], b)
<1> DEFINE F(g) == [i \in 0..n |-> IF i = 0 THEN 0
                                  ELSE IF g[i - 1] = 0 THEN rates[i]
                                  ELSE usb_find_sample_rate_candidate(BaseOf(r), r, rates[i],
                                                                      g[i - 1])]
<1> DEFINE body == [i \in 1..n |-> [b \in Nat |-> Step(i, b)]]
<1> DEFINE best == CHOOSE g : g = F(g)
<1>1. n \in Nat /\ \A i \in 1..n : rates[i] \in Nat
  BY DEF supported_sample_rates
<1>2. 0 \in 0..n /\ \A i \in 0..n : i = 0 \/ i \in 1..n
  BY <1>1
<1>3. \A i \in 1..n : i # 0 /\ i \in 0..n /\ i - 1 \in 0..n
  BY <1>1
<1>4. BestRateOf(rates, r) = best[n]
  BY DEF BestRateOf, BaseOf
<1> HIDE DEF n
<1>5. ASSUME NEW i \in 1..n, NEW b \in Nat PROVE Step(i, b) \in Nat
  <2>1. rates[i] \in Nat
    BY <1>1
  <2>2. usb_find_sample_rate_candidate(BaseOf(r), r, rates[i], b) \in {rates[i], b}
    BY <2>1, BetterKept
  <2> QED  BY <2>1, <2>2
<1>6. body \in [1..n -> [Nat -> Nat]]
  <2> HIDE DEF Step
  <2> QED  BY <1>5
<1>7. ASSUME NEW i \in 1..n, NEW b \in Nat PROVE body[i][b] = Step(i, b)
  <2> HIDE DEF Step
  <2> QED  OBVIOUS
<1> HIDE DEF body
<1>8. PICK g : IsLoop(g, n, Nat, 0, body)
  BY <1>1, <1>6, LoopRuns
<1>9. g \in [0..n -> Nat] /\ g[0] = 0 /\ \A i \in 1..n : g[i] = Step(i, g[i - 1])
  <2> HIDE DEF Step
  <2> QED  BY <1>3, <1>7, <1>8 DEF IsLoop
<1>10. ASSUME NEW i \in 0..n PROVE g[i] = F(g)[i]
  BY <1>2, <1>3, <1>9
<1>11. g = F(g)
  BY <1>9, <1>10
<1>12. best = F(best)
  <2> HIDE DEF F
  <2> QED  BY <1>11
<1> HIDE DEF best
<1>13. best[0] = 0 /\ \A i \in 1..n : best[i] = Step(i, best[i - 1])
  BY <1>2, <1>3, <1>12
<1> DEFINE Good == {i \in 0..n : best[i] \in Nat}
<1>14. \A i \in 0..n : i \in Good
  <2>1. 0 \in Good
    BY <1>2, <1>13
  <2>2. ASSUME NEW i \in 1..n, i - 1 \in Good PROVE i \in Good
    <3> HIDE DEF Step
    <3> QED  BY <1>3, <1>5, <1>13, <2>2
  <2> HIDE DEF Good
  <2> QED  BY <1>1, <2>1, <2>2, RoundByRound
<1>15. best \in [0..n -> Nat]
  <2>1. DOMAIN best = 0..n /\ best = [i \in 0..n |-> best[i]]
    BY <1>12
  <2> QED  BY <1>14, <2>1
<1> QED  BY <1>4, <1>13, <1>15 DEF n, RateRounds

\* The rate chosen of an altset is one of its rates and none suits the stream
\* better; an altset without known rates gives 0.
LEMMA BestRateChosen ==
    ASSUME NEW rates \in Seq(supported_sample_rates), NEW r \in Nat
    PROVE  /\ rates = << >> => BestRateOf(rates, r) = 0
           /\ rates # << >> =>
                /\ \E j \in 1..Len(rates) : rates[j] = BestRateOf(rates, r)
                /\ \A j \in 1..Len(rates) : AsGoodRate(r, BestRateOf(rates, r), rates[j])
<1> DEFINE n == Len(rates)
<1>1. n \in Nat /\ \A i \in 1..n : rates[i] \in Nat /\ rates[i] # 0
  BY DEF supported_sample_rates
<1>0. PICK best : RateRounds(best, rates, r)
  BY RateLoop
<1>2. /\ best \in [0..n -> Nat] /\ best[0] = 0
      /\ \A i \in 1..n :
           best[i] = IF best[i - 1] = 0 THEN rates[i]
                     ELSE usb_find_sample_rate_candidate(BaseOf(r), r, rates[i], best[i - 1])
      /\ BestRateOf(rates, r) = best[n]
  BY <1>0 DEF RateRounds
<1>3. rates = << >> <=> n = 0
  OBVIOUS
<1> HIDE DEF n
<1> DEFINE P(i) == /\ i # 0 => \E j \in 1..i : rates[j] = best[i]
                   /\ \A j \in 1..i : AsGoodRate(r, best[i], rates[j])
<1> DEFINE Good == {i \in 0..n : P(i)}
<1>4. 0 \in Good
  BY <1>1
<1>5. ASSUME NEW i \in 1..n, i - 1 \in Good PROVE i \in Good
  <2> DEFINE b == best[i - 1]
  <2>1. i \in 0..n /\ i - 1 \in 0..n /\ i \in 1..i /\ \A k \in 1..i : k = i \/ k \in 1..(i - 1)
    BY <1>1
  <2>2. \A k \in 1..(i - 1) : k \in 1..i
    BY <2>1
  <2>3. b \in Nat /\ best[i] \in Nat /\ rates[i] \in Nat /\ \A k \in 1..i : rates[k] \in Nat
    BY <1>1, <1>2, <2>1
  <2>4. i - 1 # 0 => b # 0
    <3>1. \A j \in 1..(i - 1) : rates[j] # 0
      BY <1>1
    <3> QED  BY <1>5, <3>1
  <2>5. P(i - 1)
    BY <1>5
  <2>6. CASE b = 0
    <3>1. i - 1 = 0 /\ best[i] = rates[i]
      BY <1>2, <2>4, <2>6
    <3>2. \A j \in 1..i : j = i
      BY <3>1
    <3>3. AsGoodRate(r, best[i], rates[i])
      BY <2>3, <3>1, AsGoodOrder
    <3> QED  BY <2>1, <3>1, <3>2, <3>3
  <2>7. CASE b # 0
    <3>1. best[i] = usb_find_sample_rate_candidate(BaseOf(r), r, rates[i], b)
      BY <1>2, <2>7
    <3>2. i - 1 # 0
      BY <1>2, <2>7
    <3> HIDE DEF b
    <3>3. best[i] \in {rates[i], b} /\ AsGoodRate(r, best[i], rates[i])
          /\ AsGoodRate(r, best[i], b)
      BY <2>3, <3>1, BetterKept
    <3>4. \A j \in 1..(i - 1) : AsGoodRate(r, b, rates[j])
      BY <2>5 DEF b
    <3>5. \E j \in 1..(i - 1) : rates[j] = b
      BY <2>5, <3>2 DEF b
    <3>6. ASSUME NEW j \in 1..i PROVE AsGoodRate(r, best[i], rates[j])
      <4>1. CASE j = i
        BY <3>3, <4>1
      <4>2. CASE j \in 1..(i - 1)
        <5>1. AsGoodRate(r, b, rates[j]) /\ rates[j] \in Nat
          BY <2>3, <3>4, <4>2
        <5> QED  BY <2>3, <3>3, <5>1, AsGoodOrder
      <4> QED  BY <2>1, <4>1, <4>2
    <3>7. \E j \in 1..i : rates[j] = best[i]
      BY <2>1, <2>2, <3>3, <3>5
    <3> QED  BY <2>1, <3>6, <3>7
  <2> QED  BY <2>6, <2>7
<1>6. \A i \in 0..n : i \in Good
  <2> HIDE DEF Good
  <2> QED  BY <1>1, <1>4, <1>5, RoundByRound
<1>7. n \in 0..n
  BY <1>1
<1>8. P(n)
  BY <1>6, <1>7
<1> QED  BY <1>2, <1>3, <1>8 DEF n

\* The greatest member of a bounded set.
LEMMA GreatestIsMember ==
    ASSUME NEW S, S \subseteq Nat, S # {}, NEW b \in Nat, \A x \in S : x <= b
    PROVE  Max(S) \in S /\ \A y \in S : y <= Max(S)
<1> DEFINE T == {b - x : x \in S}
<1>1. T \subseteq Nat /\ T # {}
  <2>1. ASSUME NEW x \in S PROVE b - x \in Nat
    <3>1. x \in Nat /\ x <= b
      OBVIOUS
    <3> QED  BY <3>1
  <2> QED  BY <2>1
<1>2. Min(T) \in T /\ \A y \in T : Min(T) <= y
  <2> HIDE DEF T
  <2> QED  BY <1>1, LeastIsMember
<1>3. PICK x \in S : Min(T) = b - x
  BY <1>2
<1>4. ASSUME NEW y \in S PROVE x >= y
  <2>1. b - y \in T
    OBVIOUS
  <2>2. b - x <= b - y
    BY <1>2, <1>3, <2>1
  <2>3. x \in Nat /\ y \in Nat
    OBVIOUS
  <2> QED  BY <2>2, <2>3
<1>5. Max(S) \in S /\ \A y \in S : Max(S) >= y
  BY <1>4 DEF Max
<1>6. ASSUME NEW y \in S PROVE y <= Max(S)
  <2>1. y \in Nat /\ Max(S) \in Nat /\ Max(S) >= y
    BY <1>5
  <2> QED  BY <2>1
<1> QED  BY <1>5, <1>6

\* A known rate suits a stream of that rate better than any other.
LEMMA ExactIsBest ==
    ASSUME NEW r \in supported_sample_rates, NEW x \in Nat
    PROVE  AsGoodRate(r, r, x)
<1>1. r \in Nat /\ usb_sample_rate_multiple(r, BaseOf(r))
  BY DEF supported_sample_rates, usb_sample_rate_multiple, BaseOf
<1>2. AbsSub(r, r) <= AbsSub(r, x) /\ (AbsSub(r, r) = AbsSub(r, x) => r >= x)
  BY <1>1 DEF AbsSub
<1> QED  BY <1>1, <1>2, AsGoodMeans

\* The rate chosen among the altsets that match: one altset has it, as the best
\* it has to offer, and a rate asked for that is offered is chosen.
RateFrom(list, match, r, q) ==
  /\ \E k \in match :
       IF list[k].rates = << >> THEN q = 0
       ELSE /\ \E j \in DOMAIN list[k].rates : list[k].rates[j] = q
            /\ \A j \in DOMAIN list[k].rates : AsGoodRate(r, q, list[k].rates[j])
  /\ \A k \in match : \A j \in DOMAIN list[k].rates : list[k].rates[j] = r => q = r

LEMMA RateChosen ==
    ASSUME NEW list \in Seq(Altsets), NEW bw, NEW ch, NEW r \in Nat, NEW interval,
           NEW any, Matching(list, bw, ch, interval, any) # {}
    PROVE  RateFrom(list, Matching(list, bw, ch, interval, any), r,
                    usb_get_best_match_for_sample_rate(list, bw, ch, r, interval, any))
<1> DEFINE match == Matching(list, bw, ch, interval, any)
<1> DEFINE q == usb_get_best_match_for_sample_rate(list, bw, ch, r, interval, any)
<1> DEFINE Exact == \E k \in match : \E j \in DOMAIN list[k].rates : list[k].rates[j] = r
<1>1. match \subseteq 1..Len(list) /\ Len(list) \in Nat /\ match # {}
  BY DEF Matching
<1>2. q = IF Exact THEN r ELSE BestRateOf(list[Max(match)].rates, r)
  <2> HIDE DEF match
  <2> QED  BY <1>1 DEF usb_get_best_match_for_sample_rate, match
<1>3. ASSUME NEW k \in match
      PROVE  /\ list[k].rates \in Seq(supported_sample_rates)
             /\ DOMAIN list[k].rates = 1..Len(list[k].rates)
             /\ \A j \in DOMAIN list[k].rates : /\ list[k].rates[j] \in supported_sample_rates
                                                /\ list[k].rates[j] \in Nat
  <2>1. k \in 1..Len(list)
    BY <1>1
  <2>2. list[k].rates \in Seq(supported_sample_rates)
    BY <2>1, AltsetFields
  <2> QED  BY <2>2 DEF supported_sample_rates
<1> HIDE DEF match, q
<1>4. CASE Exact
  <2>1. q = r
    BY <1>2, <1>4
  <2>2. PICK k \in match : \E j \in DOMAIN list[k].rates : list[k].rates[j] = r
    BY <1>4
  <2>3. r \in supported_sample_rates /\ list[k].rates # << >>
    BY <1>3, <2>2
  <2>4. \A j \in DOMAIN list[k].rates : AsGoodRate(r, q, list[k].rates[j])
    BY <1>3, <2>1, <2>3, ExactIsBest
  <2> QED  BY <2>1, <2>2, <2>3, <2>4 DEF match, q, RateFrom
<1>5. CASE ~Exact
  <2> DEFINE k == Max(match)
  <2>1. k \in match
    <3>1. match \subseteq Nat /\ \A x \in match : x <= Len(list)
      BY <1>1
    <3> QED  BY <1>1, <3>1, GreatestIsMember
  <2>2. q = BestRateOf(list[k].rates, r)
    BY <1>2, <1>5
  <2> HIDE DEF k
  <2> DEFINE rates == list[k].rates
  <2>3. rates \in Seq(supported_sample_rates) /\ DOMAIN rates = 1..Len(rates)
    BY <1>3, <2>1
  <2>4. IF rates = << >> THEN q = 0
        ELSE /\ \E j \in DOMAIN rates : rates[j] = q
             /\ \A j \in DOMAIN rates : AsGoodRate(r, q, rates[j])
    <3> HIDE DEF rates
    <3>1. q = BestRateOf(rates, r)
      BY <2>2 DEF rates
    <3> QED  BY <2>3, <3>1, BestRateChosen
  <2> QED  BY <1>5, <2>1, <2>4 DEF match, q, RateFrom
<1> QED  BY <1>4, <1>5

\* What ConfigOffered says of one card and one stream.
Offered(list, asked) ==
  LET c == usb_audio_backend_apply_policy(list, asked)
      same == {k \in DOMAIN list : list[k].bit_width = c.bit_width}
      alts == {k \in same : list[k].channel_count = c.channel_count}
  IN /\ \A k \in DOMAIN list : list[k].bit_width <= c.bit_width
     /\ \A k \in same : AbsSub(asked.channel_count, list[k].channel_count) >=
                        AbsSub(asked.channel_count, c.channel_count)
     /\ \E k \in alts :
          IF list[k].rates = << >> THEN c.rate = 0
          ELSE /\ \E j \in DOMAIN list[k].rates : list[k].rates[j] = c.rate
               /\ \A j \in DOMAIN list[k].rates :
                    AsGoodRate(asked.rate, c.rate, list[k].rates[j])
     /\ \A k \in alts : \A j \in DOMAIN list[k].rates :
          list[k].rates[j] = asked.rate => c.rate = asked.rate

LEMMA PolicyOffers ==
    ASSUME NEW list \in Seq(Altsets), list # << >>, NEW asked \in Streams
    PROVE  /\ Offered(list, asked)
           /\ \E k \in DOMAIN list :
                /\ usb_audio_backend_apply_policy(list, asked).bit_width = list[k].bit_width
                /\ usb_audio_backend_apply_policy(list, asked).channel_count =
                     list[k].channel_count
<1> DEFINE bw == usb_get_best_bit_width(list)
<1> DEFINE ch == usb_get_best_match_for_channels(list, bw, asked.channel_count)
<1> DEFINE q == usb_get_best_match_for_sample_rate(list, bw, ch, asked.rate, 0, TRUE)
<1> DEFINE c == usb_audio_backend_apply_policy(list, asked)
<1> DEFINE match == Matching(list, bw, ch, 0, TRUE)
<1>1. asked.channel_count \in Nat /\ asked.channel_count # 0 /\ asked.rate \in Nat
  BY DEF Streams
<1>2. DOMAIN list = 1..Len(list)
  OBVIOUS
<1>3. c = [bit_width |-> bw, channel_count |-> ch, rate |-> q]
  BY DEF usb_audio_backend_apply_policy
<1>4. /\ bw \in Nat
      /\ \E k \in 1..Len(list) : list[k].bit_width = bw
      /\ \A k \in 1..Len(list) : list[k].bit_width <= bw
  BY WidestChosen
<1>5. match = {k \in DOMAIN list : list[k].bit_width = bw /\ list[k].channel_count = ch}
  BY DEF Matching
<1> HIDE DEF bw
<1>6. /\ \E k \in 1..Len(list) : list[k].bit_width = bw /\ list[k].channel_count = ch
      /\ \A k \in 1..Len(list) : list[k].bit_width = bw =>
           AbsSub(asked.channel_count, list[k].channel_count) >=
             AbsSub(asked.channel_count, ch)
  BY <1>1, <1>4, NearestChosen
<1> HIDE DEF ch
<1>7. match # {}
  <2> HIDE DEF match
  <2> QED  BY <1>2, <1>5, <1>6
<1>8. /\ \E k \in match :
           IF list[k].rates = << >> THEN q = 0
           ELSE /\ \E j \in DOMAIN list[k].rates : list[k].rates[j] = q
                /\ \A j \in DOMAIN list[k].rates : AsGoodRate(asked.rate, q, list[k].rates[j])
      /\ \A k \in match : \A j \in DOMAIN list[k].rates :
           list[k].rates[j] = asked.rate => q = asked.rate
  <2>1. RateFrom(list, match, asked.rate, q)
    BY <1>1, <1>7, RateChosen
  <2> HIDE DEF match, q
  <2> QED  BY <2>1 DEF RateFrom
<1> HIDE DEF q, c, match
<1>9. c.bit_width = bw /\ c.channel_count = ch /\ c.rate = q
  BY <1>3
<1> DEFINE same == {k \in DOMAIN list : list[k].bit_width = c.bit_width}
<1> DEFINE alts == {k \in same : list[k].channel_count = c.channel_count}
<1>10. alts = match
  BY <1>5, <1>9
<1>11. \A k \in DOMAIN list : list[k].bit_width <= c.bit_width
  BY <1>2, <1>4, <1>9
<1>12. \A k \in same : AbsSub(asked.channel_count, list[k].channel_count) >=
                       AbsSub(asked.channel_count, c.channel_count)
  BY <1>2, <1>6, <1>9
<1>13. \E k \in alts :
          IF list[k].rates = << >> THEN c.rate = 0
          ELSE /\ \E j \in DOMAIN list[k].rates : list[k].rates[j] = c.rate
               /\ \A j \in DOMAIN list[k].rates :
                    AsGoodRate(asked.rate, c.rate, list[k].rates[j])
  BY <1>8, <1>9, <1>10
<1>14. \A k \in alts : \A j \in DOMAIN list[k].rates :
          list[k].rates[j] = asked.rate => c.rate = asked.rate
  BY <1>8, <1>9, <1>10
<1>15. Offered(list, asked)
  BY <1>11, <1>12, <1>13, <1>14 DEF Offered, c
<1> QED  BY <1>2, <1>6, <1>9, <1>15 DEF c

-----------------------------------------------------------------------------
(* The parser of a stream file. *)

\* The lines of an altset that are there have their types.
LineOk(a) ==
  /\ "Format" \in DOMAIN a => a.Format \in Nat
  /\ "Channels" \in DOMAIN a => a.Channels \in Nat \ {0}
  /\ "Rates" \in DOMAIN a => a.Rates \in Seq(Nat)
  /\ "Interval" \in DOMAIN a => a.Interval \in Nat

\* A sequence of altsets.
AltsetLines(s) ==
  /\ \E S : s \in Seq(S)
  /\ \A i \in 1..Len(s) : LineOk(s[i])

IsFile(f) ==
  f.accessory \in BOOLEAN /\ AltsetLines(f.playback) /\ AltsetLines(f.capture)

LEMMA FilesTyped ==
    /\ IsFile(NoFile)
    /\ \A f \in StreamFiles : IsFile(f)
<1>1. IsFile(NoFile)
  <2>1. << >> \in Seq({}) /\ 1..Len(<< >>) = {}
    OBVIOUS
  <2> QED  BY <2>1 DEF IsFile, AltsetLines, NoFile
<1>2. ASSUME NEW f \in StreamFiles PROVE IsFile(f)
  <2>1. f.accessory \in BOOLEAN
    BY UsbAssumption
  <2>2. ASSUME NEW t \in {"playback", "capture"} PROVE AltsetLines(f[t])
    <3>1. f[t] \in Seq({f[t][i] : i \in DOMAIN f[t]})
      BY UsbAssumption
    <3>2. DOMAIN f[t] = 1..Len(f[t])
      <4> DEFINE q == f[t]
      <4> DEFINE S == {f[t][i] : i \in DOMAIN f[t]}
      <4>1. q \in Seq(S)
        BY <3>1
      <4> HIDE DEF q, S
      <4>2. DOMAIN q = 1..Len(q)
        BY <4>1
      <4> QED  BY <4>2 DEF q
    <3>3. ASSUME NEW i \in DOMAIN f[t] PROVE LineOk(f[t][i])
      BY UsbAssumption DEF LineOk
    <3> QED  BY <3>1, <3>2, <3>3 DEF AltsetLines
  <2>3. f["playback"] = f.playback /\ f["capture"] = f.capture
    OBVIOUS
  <2> QED  BY <2>1, <2>2, <2>3 DEF IsFile
<1> QED  BY <1>1, <1>2

LEMMA LinesTyped ==
    ASSUME NEW f, IsFile(f), NEW type \in {"playback", "capture"}
    PROVE  AltsetLines(LinesFrom(type, f)) /\ AltsetLines(f[type])
<1>1. AltsetLines(f.playback) /\ AltsetLines(f.capture)
  BY DEF IsFile
<1>2. AltsetLines(f[type])
  BY <1>1
<1> DEFINE p == f.playback
<1> DEFINE c == f.capture
<1>3. AltsetLines(p \o c)
  <2> HIDE DEF p, c
  <2>1. PICK S : p \in Seq(S)
    BY <1>1 DEF AltsetLines, p
  <2>2. PICK T : c \in Seq(T)
    BY <1>1 DEF AltsetLines, c
  <2> DEFINE U == S \cup T
  <2>3. p \in Seq(U) /\ c \in Seq(U) /\ Len(p) \in Nat /\ Len(c) \in Nat
    <3>1. S \subseteq U /\ T \subseteq U
      OBVIOUS
    <3> HIDE DEF U
    <3> QED  BY <2>1, <2>2, <3>1, SeqMonotonic
  <2> HIDE DEF U
  <2>4. p \o c \in Seq(U) /\ Len(p \o c) = Len(p) + Len(c)
        /\ \A i \in 1..(Len(p) + Len(c)) :
             (p \o c)[i] = IF i <= Len(p) THEN p[i] ELSE c[i - Len(p)]
    BY <2>3, ConcatProperties
  <2>5. ASSUME NEW i \in 1..Len(p \o c) PROVE LineOk((p \o c)[i])
    <3>1. CASE i <= Len(p)
      <4>1. i \in 1..Len(p) /\ (p \o c)[i] = p[i]
        BY <2>3, <2>4, <3>1
      <4> QED  BY <1>1, <4>1 DEF AltsetLines, p
    <3>2. CASE ~(i <= Len(p))
      <4>1. i - Len(p) \in 1..Len(c) /\ (p \o c)[i] = c[i - Len(p)]
        BY <2>3, <2>4, <3>2
      <4> QED  BY <1>1, <4>1 DEF AltsetLines, c
    <3> QED  BY <3>1, <3>2
  <2> QED  BY <2>4, <2>5 DEF AltsetLines
<1> QED  BY <1>1, <1>2, <1>3 DEF LinesFrom

\* A line found has the type of its field.
LEMMA FieldTyped ==
    ASSUME NEW lines, AltsetLines(lines), NEW i \in Nat, i # 0
    PROVE  /\ HasField(lines, i, "Format") => FieldAt(lines, i, "Format") \in Nat
           /\ HasField(lines, i, "Channels") => FieldAt(lines, i, "Channels") \in Nat \ {0}
           /\ HasField(lines, i, "Rates") => FieldAt(lines, i, "Rates") \in Seq(Nat)
           /\ HasField(lines, i, "Interval") => FieldAt(lines, i, "Interval") \in Nat
<1>1. Len(lines) \in Nat
  BY DEF AltsetLines
<1>2. ASSUME NEW f, HasField(lines, i, f)
      PROVE  \E j \in 1..Len(lines) : f \in DOMAIN lines[j] /\ FieldAt(lines, i, f) = lines[j][f]
  <2> DEFINE S == {j \in i..Len(lines) : f \in DOMAIN lines[j]}
  <2>1. S # {} /\ S \subseteq Nat
    BY <1>1, <1>2 DEF HasField
  <2>2. FieldAt(lines, i, f) = lines[Min(S)][f]
    BY DEF FieldAt
  <2>3. Min(S) \in S
    <3> HIDE DEF S
    <3> QED  BY <2>1, LeastIsMember
  <2>4. Min(S) \in 1..Len(lines) /\ f \in DOMAIN lines[Min(S)]
    BY <1>1, <2>3
  <2> QED  BY <2>2, <2>4
<1>3. \A j \in 1..Len(lines) : LineOk(lines[j])
  BY DEF AltsetLines
<1>4. HasField(lines, i, "Format") => FieldAt(lines, i, "Format") \in Nat
  BY <1>2, <1>3 DEF LineOk
<1>5. HasField(lines, i, "Channels") => FieldAt(lines, i, "Channels") \in Nat \ {0}
  BY <1>2, <1>3 DEF LineOk
<1>6. HasField(lines, i, "Rates") => FieldAt(lines, i, "Rates") \in Seq(Nat)
  BY <1>2, <1>3 DEF LineOk
<1>7. HasField(lines, i, "Interval") => FieldAt(lines, i, "Interval") \in Nat
  BY <1>2, <1>3 DEF LineOk
<1> QED  BY <1>4, <1>5, <1>6, <1>7

\* Only known rates are kept.
LEMMA RatesKnown ==
    ASSUME NEW line \in Seq(Nat)
    PROVE  usb_get_sample_rates(line) \in Seq(supported_sample_rates)
<1> DEFINE places == {i \in DOMAIN line : line[i] \in supported_sample_rates}
<1> DEFINE q == Kept(line, places)
<1>1. \A i \in places : line[i] \in supported_sample_rates
  OBVIOUS
<1> HIDE DEF places
<1>2. PICK h \in [1..Len(q) -> 1..Len(line)] :
        \A j \in 1..Len(q) : h[j] \in places /\ q[j] = line[h[j]]
  <2>1. KeptFrom(q, line, places)
    BY KeptFacts
  <2> HIDE DEF q
  <2> QED  BY <2>1 DEF KeptFrom
<1>3. q \in Seq(Nat)
  BY KeptFacts
<1> HIDE DEF q
<1>4. \A j \in 1..Len(q) : q[j] \in supported_sample_rates
  BY <1>1, <1>2
<1>5. Len(q) \in Nat /\ q = [j \in 1..Len(q) |-> q[j]]
  BY <1>3
<1>6. q \in Seq(supported_sample_rates)
  <2> HIDE DEF supported_sample_rates
  <2> QED  BY <1>4, <1>5
<1> QED  BY <1>6 DEF q, places, usb_get_sample_rates

\* What the parser has collected: altsets of its direction, one at least when it
\* reports success.
TypedAltsets(type) == {a \in Altsets : a.type = type}

Collected(type) ==
  {a \in [ret : BOOLEAN, list : Seq(TypedAltsets(type))] : a.ret => a.list # << >>}

LEMMA AltsetParsed ==
    ASSUME NEW lines, AltsetLines(lines), NEW i \in Nat, i # 0,
           NEW type \in {"playback", "capture"}, NEW acc \in Collected(type)
    PROVE  ParseAltset(type, lines, i, acc) \in Collected(type)
<1>1. acc = [ret |-> acc.ret, list |-> acc.list] /\ acc.ret \in BOOLEAN
      /\ acc.list \in Seq(TypedAltsets(type))
  BY DEF Collected
<1>2. CASE \E f \in {"Format", "Channels", "Rates"} : ~HasField(lines, i, f)
  BY <1>2 DEF ParseAltset
<1>3. CASE /\ ~ \E f \in {"Format", "Channels", "Rates"} : ~HasField(lines, i, f)
           /\ FieldAt(lines, i, "Rates") = << >>
  <2>1. ParseAltset(type, lines, i, acc) = [ret |-> FALSE, list |-> acc.list]
    BY <1>3 DEF ParseAltset
  <2> QED  BY <1>1, <2>1 DEF Collected
<1>4. CASE /\ ~ \E f \in {"Format", "Channels", "Rates"} : ~HasField(lines, i, f)
           /\ FieldAt(lines, i, "Rates") # << >>
  <2> DEFINE a == [bit_width |-> FieldAt(lines, i, "Format"),
                   channel_count |-> FieldAt(lines, i, "Channels"),
                   rates |-> usb_get_sample_rates(FieldAt(lines, i, "Rates")),
                   service_interval_us |-> usb_get_service_interval(lines, i),
                   type |-> type]
  <2> DEFINE ok == ~(HasField(lines, i, "Interval") /\ FieldAt(lines, i, "Interval") = NoEol)
  <2>1. ParseAltset(type, lines, i, acc) = [ret |-> ok, list |-> Append(acc.list, a)]
    BY <1>4 DEF ParseAltset
  <2>2. /\ FieldAt(lines, i, "Format") \in Nat
        /\ FieldAt(lines, i, "Channels") \in Nat \ {0}
        /\ FieldAt(lines, i, "Rates") \in Seq(Nat)
    BY <1>4, FieldTyped
  <2>3. usb_get_sample_rates(FieldAt(lines, i, "Rates")) \in Seq(supported_sample_rates)
    BY <2>2, RatesKnown
  <2>4. usb_get_service_interval(lines, i) \in Nat
    BY FieldTyped DEF usb_get_service_interval, DEFAULT_SERVICE_INTERVAL_US
  <2>5. a \in Altsets /\ a.type = type
    BY <2>2, <2>3, <2>4 DEF Altsets
  <2>6. a \in TypedAltsets(type)
    <3> HIDE DEF a
    <3> QED  BY <2>5 DEF TypedAltsets
  <2> HIDE DEF a
  <2>7. Append(acc.list, a) \in Seq(TypedAltsets(type)) /\ Append(acc.list, a) # << >>
    BY <1>1, <2>6, AppendProperties
  <2>8. ok \in BOOLEAN
    OBVIOUS
  <2> HIDE DEF ok
  <2> DEFINE q == Append(acc.list, a)
  <2>9. q \in Seq(TypedAltsets(type)) /\ q # << >>
    BY <2>7
  <2> HIDE DEF q
  <2>10. [ret |-> ok, list |-> q] \in Collected(type)
    BY <2>8, <2>9 DEF Collected
  <2> QED  BY <2>1, <2>10 DEF q
<1> QED  BY <1>2, <1>3, <1>4

\* The parser collects altsets of the direction, and finds none where there is
\* no section.
LEMMA CapabilityTyped ==
    ASSUME NEW f, IsFile(f), NEW type \in {"playback", "capture"}
    PROVE  /\ usb_get_capability(type, f) \in Collected(type)
           /\ f[type] = << >> => ~usb_get_capability(type, f).ret
<1> DEFINE lines == LinesFrom(type, f)
<1> DEFINE n == Len(f[type])
<1> DEFINE V == Collected(type)
<1> DEFINE a == [ret |-> FALSE, list |-> << >>]
<1> DEFINE F(g) == [i \in 0..n |-> IF i = 0 THEN a ELSE ParseAltset(type, lines, i, g[i - 1])]
<1> DEFINE body == [i \in 1..n |-> [b \in V |-> ParseAltset(type, lines, i, b)]]
<1> DEFINE upTo == CHOOSE g : g = F(g)
<1>1. n \in Nat /\ AltsetLines(lines) /\ (f[type] = << >> => n = 0)
  BY LinesTyped DEF AltsetLines
<1>2. 0 \in 0..n /\ n \in 0..n /\ \A i \in 0..n : i = 0 \/ i \in 1..n
  BY <1>1
<1>3. \A i \in 1..n : i \in Nat /\ i # 0 /\ i \in 0..n /\ i - 1 \in 0..n
  BY <1>1
<1>4. usb_get_capability(type, f) = upTo[n]
  BY DEF usb_get_capability
<1>5. a \in V
  BY DEF Collected
<1> HIDE DEF n, lines, V
<1>6. ASSUME NEW i \in 1..n, NEW b \in V PROVE ParseAltset(type, lines, i, b) \in V
  BY <1>1, <1>3, AltsetParsed DEF V
<1>7. body \in [1..n -> [V -> V]]
  BY <1>6
<1>8. ASSUME NEW i \in 1..n, NEW b \in V PROVE body[i][b] = ParseAltset(type, lines, i, b)
  OBVIOUS
<1> HIDE DEF body, a
<1>9. PICK g : IsLoop(g, n, V, a, body)
  BY <1>1, <1>5, <1>7, LoopRuns
<1>10. g \in [0..n -> V] /\ g[0] = a
       /\ \A i \in 1..n : g[i] = ParseAltset(type, lines, i, g[i - 1])
  BY <1>3, <1>8, <1>9 DEF IsLoop
<1>11. ASSUME NEW i \in 0..n PROVE g[i] = F(g)[i]
  BY <1>2, <1>3, <1>10
<1>12. g = F(g)
  BY <1>10, <1>11
<1>13. upTo = F(upTo)
  <2> HIDE DEF F
  <2> QED  BY <1>12
<1> HIDE DEF upTo
<1>14. upTo[0] = a /\ \A i \in 1..n : upTo[i] = ParseAltset(type, lines, i, upTo[i - 1])
  BY <1>2, <1>3, <1>13
<1> DEFINE Good == {i \in 0..n : upTo[i] \in V}
<1>15. \A i \in 0..n : i \in Good
  <2>1. 0 \in Good
    BY <1>2, <1>5, <1>14
  <2>2. ASSUME NEW i \in 1..n, i - 1 \in Good PROVE i \in Good
    BY <1>3, <1>6, <1>14, <2>2
  <2> HIDE DEF Good
  <2> QED  BY <1>1, <2>1, <2>2, RoundByRound
<1>16. usb_get_capability(type, f) \in V
  BY <1>2, <1>4, <1>15
<1>17. f[type] = << >> => usb_get_capability(type, f).ret = FALSE
  BY <1>1, <1>4, <1>14 DEF a
<1> QED  BY <1>16, <1>17 DEF V

-----------------------------------------------------------------------------
(* The cards the HAL knows, and what it answers from them. *)

Headsets == {"OUT_USB_HEADSET", "IN_USB_HEADSET"}

\* An entry has an altset to open, and all of them are of its direction.
Entries ==
  {e \in [device : Headsets, card : UsbCards, list : Seq(Altsets)] :
     e.list # << >> /\ \A k \in 1..Len(e.list) : e.list[k].type = Direction(e.device)}

LEMMA EntryFields ==
    ASSUME NEW cards \in Seq(Entries), NEW i \in 1..Len(cards)
    PROVE  /\ cards[i] \in Entries
           /\ cards[i].device \in Headsets /\ cards[i].card \in UsbCards
           /\ cards[i].list \in Seq(Altsets) /\ cards[i].list # << >>
           /\ \A k \in 1..Len(cards[i].list) : cards[i].list[k].type = Direction(cards[i].device)
<1>1. cards[i] \in Entries
  OBVIOUS
<1> QED  BY <1>1 DEF Entries

\* Numbers in a sequence are bounded.
LEMMA SeqBounded ==
    ASSUME NEW n \in Nat, NEW q, \A i \in 1..n : q[i] \in Nat
    PROVE  \E b \in Nat : \A i \in 1..n : q[i] <= b
<1> DEFINE P(m) == \E b \in Nat : \A i \in 1..m : q[i] <= b
<1> DEFINE Good == {m \in 0..n : P(m)}
<1>1. 0 \in Good
  <2>1. \A i \in 1..0 : q[i] <= 0
    OBVIOUS
  <2> QED  BY <2>1
<1>2. ASSUME NEW m \in 1..n, m - 1 \in Good PROVE m \in Good
  <2>1. PICK b \in Nat : \A i \in 1..(m - 1) : q[i] <= b
    BY <1>2
  <2>2. q[m] \in Nat /\ m \in 0..n /\ \A i \in 1..m : i \in 1..n /\ (i = m \/ i \in 1..(m - 1))
    OBVIOUS
  <2>3. ASSUME NEW i \in 1..m PROVE q[i] <= b + q[m]
    <3>1. q[i] \in Nat /\ (i = m \/ q[i] <= b)
      BY <2>1, <2>2
    <3> QED  BY <2>2, <3>1
  <2>4. b + q[m] \in Nat
    BY <2>2
  <2> QED  BY <2>2, <2>3, <2>4
<1>3. \A m \in 0..n : m \in Good
  <2> HIDE DEF Good
  <2> QED  BY <1>1, <1>2, RoundByRound
<1>4. n \in 0..n
  OBVIOUS
<1>5. n \in Good
  <2> HIDE DEF Good
  <2> QED  BY <1>3, <1>4
<1> QED  BY <1>5

\* The largest value of a field is at least that of every altset of the
\* direction.
LEMMA LargestBounds ==
    ASSUME usb_card_conf_list \in Seq(Entries), NEW least \in Nat, NEW type,
           NEW field \in {"bit_width", "channel_count"},
           NEW i \in 1..Len(usb_card_conf_list),
           Direction(usb_card_conf_list[i].device) = type,
           NEW k \in 1..Len(usb_card_conf_list[i].list)
    PROVE  usb_card_conf_list[i].list[k][field] <= Largest(type, field, least)
<1> DEFINE cl == usb_card_conf_list
<1> DEFINE n == Len(cl)
<1> DEFINE cards == {m \in DOMAIN cl : Direction(cl[m].device) = type}
<1> DEFINE vals(m) == {cl[m].list[j][field] : j \in DOMAIN cl[m].list}
<1> DEFINE all == {least} \cup UNION {vals(m) : m \in cards}
<1>1. Largest(type, field, least) = Max(all)
  BY DEF Largest
<1>2. n \in Nat /\ DOMAIN cl = 1..n
  OBVIOUS
<1>3. ASSUME NEW m \in 1..n
      PROVE  /\ DOMAIN cl[m].list = 1..Len(cl[m].list)
             /\ \A j \in 1..Len(cl[m].list) : cl[m].list[j][field] \in Nat
             /\ Len(cl[m].list) \in Nat
  <2>1. cl[m].list \in Seq(Altsets)
    BY EntryFields
  <2> QED  BY <2>1, AltsetFields
<1>4. ASSUME NEW m \in 1..n
      PROVE  \E b \in Nat : \A j \in 1..Len(cl[m].list) : cl[m].list[j][field] <= b
  <2> DEFINE q == [j \in 1..Len(cl[m].list) |-> cl[m].list[j][field]]
  <2>1. \A j \in 1..Len(cl[m].list) : q[j] = cl[m].list[j][field] /\ q[j] \in Nat
    BY <1>3
  <2> HIDE DEF q
  <2>2. PICK b \in Nat : \A j \in 1..Len(cl[m].list) : q[j] <= b
    BY <1>3, <2>1, SeqBounded
  <2> QED  BY <2>1, <2>2
<1> DEFINE bs == [m \in 1..n |-> CHOOSE b \in Nat :
                                 \A j \in 1..Len(cl[m].list) : cl[m].list[j][field] <= b]
<1>5. ASSUME NEW m \in 1..n
      PROVE  bs[m] \in Nat /\ \A j \in 1..Len(cl[m].list) : cl[m].list[j][field] <= bs[m]
  BY <1>4
<1> HIDE DEF bs
<1>6. PICK b \in Nat : \A m \in 1..n : bs[m] <= b
  <2> HIDE DEF n
  <2> QED  BY <1>2, <1>5, SeqBounded
<1>7. ASSUME NEW m \in 1..n, NEW j \in 1..Len(cl[m].list)
      PROVE  cl[m].list[j][field] \in Nat /\ cl[m].list[j][field] <= least + b
  <2> DEFINE v == cl[m].list[j][field]
  <2> DEFINE top == bs[m]
  <2>1. top \in Nat /\ v \in Nat /\ v <= top /\ top <= b
    BY <1>3, <1>5, <1>6
  <2> HIDE DEF v, top
  <2>2. v <= least + b
    BY <2>1
  <2> QED  BY <2>1, <2>2 DEF v
<1>8. ASSUME NEW v \in all PROVE v \in Nat /\ v <= least + b
  <2>1. CASE v = least
    BY <2>1
  <2>2. CASE v # least
    <3>1. PICK m \in cards : v \in vals(m)
      BY <2>2
    <3>2. PICK j \in DOMAIN cl[m].list : v = cl[m].list[j][field]
      BY <3>1
    <3>3. m \in 1..n
      BY <1>2, <3>1
    <3>4. j \in 1..Len(cl[m].list)
      BY <1>3, <3>2, <3>3
    <3> HIDE DEF cl, n
    <3> QED  BY <1>7, <3>2, <3>3, <3>4
  <2> QED  BY <2>1, <2>2
<1>9. least + b \in Nat
  OBVIOUS
<1>10. cl[i].list[k][field] \in all
  <2>1. i \in cards /\ k \in DOMAIN cl[i].list
    BY <1>2, <1>3
  <2>2. cl[i].list[k][field] \in vals(i)
    BY <2>1
  <2> HIDE DEF cards, vals
  <2> QED  BY <2>1, <2>2
<1>11. all # {}
  BY <1>10
<1> HIDE DEF all
<1>12. \A y \in all : y <= Max(all)
  BY <1>8, <1>9, <1>11, GreatestIsMember
<1> QED  BY <1>1, <1>10, <1>12

\* What is opened is within what is advertised.
LEMMA AnswersWithin ==
    ASSUME usb_card_conf_list \in Seq(Entries)
    PROVE  WithinAdvertised
<1> DEFINE cl == usb_card_conf_list
<1>1. ASSUME NEW i \in DOMAIN cl, NEW asked \in Streams, NEW type,
             type = Direction(cl[i].device)
      PROVE  LET c == audio_extn_usb_is_config_supported(asked, type)
             IN /\ c.bit_width <= audio_extn_usb_get_max_bit_width(type)
                /\ c.channel_count <= audio_extn_usb_get_max_channels(type)
  <2> DEFINE cards == {m \in DOMAIN cl : Direction(cl[m].device) = type}
  <2> DEFINE f == Min(cards)
  <2> DEFINE c == usb_audio_backend_apply_policy(cl[f].list, asked)
  <2>1. cards # {} /\ cards \subseteq Nat /\ DOMAIN cl = 1..Len(cl)
    BY <1>1
  <2>2. f \in cards
    <3> HIDE DEF cards
    <3> QED  BY <2>1, LeastIsMember
  <2>3. audio_extn_usb_is_config_supported(asked, type) = c
    BY <2>1 DEF audio_extn_usb_is_config_supported
  <2>4. f \in 1..Len(cl) /\ Direction(cl[f].device) = type
    BY <2>1, <2>2
  <2> HIDE DEF f
  <2>5. cl[f].list \in Seq(Altsets) /\ cl[f].list # << >>
    BY <2>4, EntryFields
  <2>6. PICK k \in DOMAIN cl[f].list :
          c.bit_width = cl[f].list[k].bit_width /\ c.channel_count = cl[f].list[k].channel_count
    BY <2>5, PolicyOffers
  <2>7. k \in 1..Len(cl[f].list)
    BY <2>5, <2>6
  <2>8. /\ cl[f].list[k]["bit_width"] <= Largest(type, "bit_width", 16)
        /\ cl[f].list[k]["channel_count"] <= Largest(type, "channel_count", 1)
    BY <2>4, <2>7, LargestBounds
  <2>9. /\ cl[f].list[k].bit_width <= Largest(type, "bit_width", 16)
        /\ cl[f].list[k].channel_count <= Largest(type, "channel_count", 1)
    BY <2>8
  <2> HIDE DEF c, cl
  <2> QED  BY <2>3, <2>6, <2>9 DEF audio_extn_usb_get_max_bit_width,
                                    audio_extn_usb_get_max_channels
<1> QED  BY <1>1 DEF WithinAdvertised

\* What is chosen for an interval is an altset of that interval.
LEMMA AnswersInterval ==
    ASSUME usb_card_conf_list \in Seq(Entries)
    PROVE  IntervalOffered
<1> DEFINE list == usb_card_conf_list[1].list
<1>1. ASSUME NEW type \in {"playback", "capture"}, NEW interval,
             NEW c \in audio_extn_usb_altset_for_service_interval(type, interval)
      PROVE  \E k \in DOMAIN list :
               /\ list[k].service_interval_us = interval /\ list[k].type = type
               /\ list[k].bit_width = c.bit_width /\ list[k].channel_count = c.channel_count
               /\ \E j \in DOMAIN list[k].rates : list[k].rates[j] = c.rate
  <2> DEFINE alts == AltsetsForInterval(type, interval)
  <2> DEFINE bw == Max({a.bit_width : a \in alts})
  <2> DEFINE ch == Max({a.channel_count : a \in {b \in alts : b.bit_width = bw}})
  <2> DEFINE rate == usb_get_best_match_for_sample_rate(list, bw, ch, 0, interval, FALSE)
  <2>1. /\ alts # {} /\ rate # 0
        /\ c = [bit_width |-> bw, channel_count |-> ch, rate |-> rate]
    BY <1>1 DEF audio_extn_usb_altset_for_service_interval
  <2>2. /\ usb_card_conf_list # << >>
        /\ alts = {a \in {list[k] : k \in DOMAIN list} :
                     a.type = type /\ a.service_interval_us = interval}
    BY <2>1 DEF AltsetsForInterval
  <2>3. 1 \in 1..Len(usb_card_conf_list)
    BY <2>2
  <2>4. list \in Seq(Altsets) /\ \A k \in 1..Len(list) :
                                    list[k].type = Direction(usb_card_conf_list[1].device)
    BY <2>3, EntryFields
  <2> HIDE DEF list, alts
  <2>5. DOMAIN list = 1..Len(list) /\ Len(list) \in Nat
    BY <2>4
  <2>6. \A a \in alts : \E k \in 1..Len(list) :
          a = list[k] /\ list[k].type = type /\ list[k].service_interval_us = interval
    BY <2>2, <2>5
  <2>7. \A k \in 1..Len(list) : list[k].bit_width \in Nat /\ list[k].channel_count \in Nat
    BY <2>4, AltsetFields
  <2>8. \E b \in Nat : \A k \in 1..Len(list) : list[k].bit_width <= b
    <3> DEFINE q == [k \in 1..Len(list) |-> list[k].bit_width]
    <3>1. \A k \in 1..Len(list) : q[k] = list[k].bit_width /\ q[k] \in Nat
      BY <2>7
    <3> HIDE DEF q
    <3>2. PICK b \in Nat : \A k \in 1..Len(list) : q[k] <= b
      BY <2>5, <3>1, SeqBounded
    <3> QED  BY <3>1, <3>2
  <2>9. \E b \in Nat : \A k \in 1..Len(list) : list[k].channel_count <= b
    <3> DEFINE q == [k \in 1..Len(list) |-> list[k].channel_count]
    <3>1. \A k \in 1..Len(list) : q[k] = list[k].channel_count /\ q[k] \in Nat
      BY <2>7
    <3> HIDE DEF q
    <3>2. PICK b \in Nat : \A k \in 1..Len(list) : q[k] <= b
      BY <2>5, <3>1, SeqBounded
    <3> QED  BY <3>1, <3>2
  <2> DEFINE W == {a.bit_width : a \in alts}
  <2>10. bw \in W
    <3>1. W # {} /\ W \subseteq Nat
      BY <2>1, <2>6, <2>7
    <3>2. PICK b \in Nat : \A k \in 1..Len(list) : list[k].bit_width <= b
      BY <2>8
    <3>3. \A w \in W : w <= b
      BY <2>6, <3>2
    <3> HIDE DEF W
    <3>4. Max(W) \in W
      BY <3>1, <3>3, GreatestIsMember
    <3> QED  BY <3>4 DEF W
  <2> HIDE DEF bw
  <2> DEFINE C == {a.channel_count : a \in {b \in alts : b.bit_width = bw}}
  <2>11. ch \in C
    <3>1. C # {} /\ C \subseteq Nat
      BY <2>6, <2>7, <2>10
    <3>2. PICK b \in Nat : \A k \in 1..Len(list) : list[k].channel_count <= b
      BY <2>9
    <3>3. \A w \in C : w <= b
      BY <2>6, <3>2
    <3> HIDE DEF C
    <3>4. Max(C) \in C
      BY <3>1, <3>3, GreatestIsMember
    <3> QED  BY <3>4 DEF C
  <2> HIDE DEF ch
  <2>12. PICK a \in alts : a.bit_width = bw /\ a.channel_count = ch
    BY <2>11
  <2>13. PICK m \in 1..Len(list) : /\ a = list[m] /\ list[m].type = type
                                   /\ list[m].service_interval_us = interval
    BY <2>6
  <2> DEFINE match == Matching(list, bw, ch, interval, FALSE)
  <2>14. match = {k \in DOMAIN list : /\ list[k].bit_width = bw /\ list[k].channel_count = ch
                                      /\ list[k].service_interval_us = interval}
    BY DEF Matching
  <2>15. match # {}
    <3> HIDE DEF match
    <3> QED  BY <2>5, <2>12, <2>13, <2>14
  <2>16. RateFrom(list, match, 0, rate)
    BY <2>4, <2>15, RateChosen
  <2> HIDE DEF match, rate
  <2>17. PICK k \in match : /\ list[k].rates # << >>
                            /\ \E j \in DOMAIN list[k].rates : list[k].rates[j] = rate
    BY <2>1, <2>16 DEF RateFrom
  <2>18. k \in 1..Len(list) /\ list[k].type = type
    <3>1. k \in 1..Len(list)
      BY <2>5, <2>14
    <3> QED  BY <2>4, <2>13, <3>1
  <2>19. c.bit_width = bw /\ c.channel_count = ch /\ c.rate = rate
    BY <2>1
  <2> QED  BY <2>5, <2>14, <2>17, <2>18, <2>19
<1> QED  BY <1>1 DEF IntervalOffered

-----------------------------------------------------------------------------
(* Announcements and the table of cards. *)

Events ==
  [what : {"connect", "disconnect"}, device : UsbDevices, card : UsbCards]

Files == StreamFiles \cup {NoFile}

For(e, d, c) == e.device = d /\ e.card = c

\* t says, after each announcement, whether the HAL has been told that the device
\* is there: announcements for one device of one card alternate.
Told(t, q, d, c) ==
  /\ t \in [0..Len(q) -> {0, 1}]
  /\ \A i \in 1..Len(q) :
       IF For(q[i], d, c)
       THEN /\ t[i] = 1 <=> q[i].what = "connect"
            /\ t[i - 1] # t[i]
       ELSE t[i] = t[i - 1]

\* A plugged card is announced as the device.
Announced(d, f) == ~f.accessory /\ f[Direction(d)] # << >>

Known(R, d, c) == \E e \in R : For(e, d, c)

\* The entry of a device is what the card under its number says now.
EntryTrue(R, plugged, d, c) ==
  /\ Known(R, d, c) <=> /\ Announced(d, plugged[c])
                        /\ usb_get_capability(Direction(d), plugged[c]).ret
  /\ \A e \in R : For(e, d, c) =>
       e.list = usb_get_capability(Direction(d), plugged[c]).list

NonePending(q, d, c) == \A i \in 1..Len(q) : ~For(q[i], d, c)

\* The announcements not yet handled lead from what the HAL has been told to what
\* is plugged in; a device it was told is gone has no entry; once none is pending
\* the entry is true.
QueueTrue(q, R, plugged, d, c) ==
  \E t : /\ Told(t, q, d, c)
         /\ t[Len(q)] = 1 <=> Announced(d, plugged[c])
         /\ t[0] = 0 => ~Known(R, d, c)
         /\ NonePending(q, d, c) => EntryTrue(R, plugged, d, c)

LEMMA ToldConstant ==
    ASSUME NEW q \in Seq(Events), NEW d, NEW c, NEW t, Told(t, q, d, c),
           NonePending(q, d, c)
    PROVE  t[0] = t[Len(q)]
<1> DEFINE n == Len(q)
<1>1. n \in Nat /\ \A i \in 1..n : t[i] = t[i - 1]
  BY DEF Told, NonePending
<1> HIDE DEF n
<1> DEFINE Good == {i \in 0..n : t[i] = t[0]}
<1>2. 0 \in Good
  BY <1>1
<1>3. ASSUME NEW i \in 1..n, i - 1 \in Good PROVE i \in Good
  BY <1>1, <1>3
<1>4. \A i \in 0..n : i \in Good
  <2> HIDE DEF Good
  <2> QED  BY <1>1, <1>2, <1>3, RoundByRound
<1>5. n \in 0..n
  BY <1>1
<1> QED  BY <1>4, <1>5 DEF n

\* Handling the first announcement.
LEMMA ToldTail ==
    ASSUME NEW q \in Seq(Events), q # << >>, NEW d, NEW c, NEW t, Told(t, q, d, c)
    PROVE  \E u : /\ Told(u, Tail(q), d, c)
                  /\ u[0] = t[1] /\ u[Len(Tail(q))] = t[Len(q)]
<1> DEFINE n == Len(q)
<1> DEFINE r == Tail(q)
<1>1. n \in Nat /\ n # 0 /\ Len(r) = n - 1 /\ \A i \in 1..(n - 1) : r[i] = q[i + 1]
  BY HeadTailProperties
<1>2. /\ t \in [0..n -> {0, 1}]
      /\ \A i \in 1..n : IF For(q[i], d, c) THEN /\ t[i] = 1 <=> q[i].what = "connect"
                                                 /\ t[i - 1] # t[i]
                         ELSE t[i] = t[i - 1]
  BY DEF Told
<1> HIDE DEF n, r
<1> DEFINE u == [i \in 0..(n - 1) |-> t[i + 1]]
<1>3. u \in [0..(n - 1) -> {0, 1}]
  BY <1>1, <1>2
<1>4. ASSUME NEW i \in 1..(n - 1)
      PROVE  IF For(r[i], d, c) THEN /\ u[i] = 1 <=> r[i].what = "connect"
                                     /\ u[i - 1] # u[i]
             ELSE u[i] = u[i - 1]
  <2>1. i + 1 \in 1..n /\ i \in 0..(n - 1) /\ i - 1 \in 0..(n - 1) /\ (i - 1) + 1 = i
        /\ (i + 1) - 1 = i
    BY <1>1
  <2>2. r[i] = q[i + 1] /\ u[i] = t[i + 1] /\ u[i - 1] = t[i]
    BY <1>1, <2>1
  <2>3. IF For(q[i + 1], d, c) THEN /\ t[i + 1] = 1 <=> q[i + 1].what = "connect"
                                    /\ t[i] # t[i + 1]
        ELSE t[i + 1] = t[i]
    BY <1>2, <2>1
  <2> HIDE DEF u
  <2> QED  BY <2>2, <2>3
<1>5. u[0] = t[1] /\ u[n - 1] = t[n]
  BY <1>1
<1> HIDE DEF u
<1>6. Told(u, r, d, c)
  BY <1>1, <1>3, <1>4 DEF Told
<1> QED  BY <1>1, <1>5, <1>6 DEF n, r

\* Announcements are added at the end, at most one of them for the device.
LEMMA ToldMore ==
    ASSUME NEW q \in Seq(Events), NEW a \in Seq(Events), NEW d, NEW c,
           NEW t, Told(t, q, d, c),
           \A k \in 1..Len(a) : For(a[k], d, c) => (a[k].what = "connect" <=> t[Len(q)] = 0),
           \A j, k \in 1..Len(a) : For(a[j], d, c) /\ For(a[k], d, c) => j = k
    PROVE  \E u : /\ Told(u, q \o a, d, c) /\ u[0] = t[0]
                  /\ u[Len(q \o a)] = IF NonePending(a, d, c) THEN t[Len(q)] ELSE 1 - t[Len(q)]
<1> DEFINE n == Len(q)
<1> DEFINE m == Len(a)
<1> DEFINE r == q \o a
<1> DEFINE b == t[n]
<1> DEFINE Some(k) == \E j \in 1..k : For(a[j], d, c)
<1>1. /\ n \in Nat /\ m \in Nat /\ Len(r) = n + m
      /\ \A i \in 1..(n + m) : r[i] = IF i <= n THEN q[i] ELSE a[i - n]
  BY ConcatProperties
<1>2. /\ t \in [0..n -> {0, 1}]
      /\ \A i \in 1..n : IF For(q[i], d, c) THEN /\ t[i] = 1 <=> q[i].what = "connect"
                                                 /\ t[i - 1] # t[i]
                         ELSE t[i] = t[i - 1]
  BY DEF Told
<1>3. \A k \in 1..m : For(a[k], d, c) => (a[k].what = "connect" <=> b = 0)
  OBVIOUS
<1>4. NonePending(a, d, c) <=> ~Some(m)
  BY DEF NonePending
<1> HIDE DEF n, m, r, b
<1>5. b \in {0, 1} /\ b = t[n] /\ 1 - b \in {0, 1} /\ 1 - b # b
  BY <1>1, <1>2 DEF b
<1> DEFINE u == [i \in 0..(n + m) |-> IF i <= n THEN t[i] ELSE IF Some(i - n) THEN 1 - b ELSE b]
<1>6. ASSUME NEW i \in 0..n PROVE u[i] = t[i] /\ t[i] \in {0, 1}
  <2>1. i \in 0..(n + m) /\ i <= n
    BY <1>1
  <2> QED  BY <1>2, <2>1
<1>7. ASSUME NEW k \in 0..m PROVE u[n + k] = IF Some(k) THEN 1 - b ELSE b
  <2>1. n + k \in 0..(n + m) /\ (n + k) - n = k /\ (n + k <= n <=> k = 0)
    BY <1>1
  <2>2. CASE k = 0
    <3>1. ~Some(k)
      BY <2>2
    <3>2. n + k = n /\ n \in 0..n
      BY <1>1, <2>2
    <3>3. u[n] = t[n]
      BY <1>6, <3>2
    <3> HIDE DEF u, Some
    <3> QED  BY <1>5, <3>1, <3>2, <3>3
  <2>3. CASE k # 0
    <3> HIDE DEF Some
    <3> QED  BY <2>1, <2>3
  <2> QED  BY <2>2, <2>3
<1>8. ASSUME NEW i \in 0..(n + m) PROVE u[i] \in {0, 1}
  <2>1. CASE i \in 0..n
    BY <1>6, <2>1
  <2>2. CASE i \notin 0..n
    <3>1. i - n \in 0..m /\ n + (i - n) = i
      BY <1>1, <2>2
    <3> HIDE DEF u, Some
    <3> QED  BY <1>5, <1>7, <3>1
  <2> QED  BY <2>1, <2>2
<1>9. u \in [0..(n + m) -> {0, 1}]
  BY <1>8
<1> HIDE DEF u
<1>10. ASSUME NEW k \in 1..m
       PROVE  IF For(a[k], d, c) THEN /\ u[n + k] = 1 <=> a[k].what = "connect"
                                      /\ u[n + (k - 1)] # u[n + k]
              ELSE u[n + k] = u[n + (k - 1)]
  <2>1. k \in 0..m /\ k - 1 \in 0..m
    BY <1>1
  <2>2. u[n + k] = (IF Some(k) THEN 1 - b ELSE b)
        /\ u[n + (k - 1)] = (IF Some(k - 1) THEN 1 - b ELSE b)
    BY <1>7, <2>1
  <2>3. \A j \in 1..k : j = k \/ j \in 1..(k - 1)
    BY <1>1
  <2>4. k \in 1..k /\ \A j \in 1..(k - 1) : j \in 1..k /\ j # k /\ j \in 1..m
    BY <1>1
  <2>5. Some(k) <=> Some(k - 1) \/ For(a[k], d, c)
    BY <2>3, <2>4
  <2>6. For(a[k], d, c) => ~Some(k - 1)
    <3>1. \A j \in 1..m : For(a[j], d, c) /\ For(a[k], d, c) => j = k
      BY DEF m
    <3> QED  BY <2>4, <3>1
  <2>7. For(a[k], d, c) => (a[k].what = "connect" <=> b = 0)
    BY <1>3
  <2>8. b = 0 \/ b = 1
    BY <1>5
  <2> HIDE DEF Some
  <2>9. CASE For(a[k], d, c)
    <3>1. u[n + k] = 1 - b /\ u[n + (k - 1)] = b
      BY <2>2, <2>5, <2>6, <2>9
    <3> QED  BY <1>5, <2>7, <2>8, <2>9, <3>1
  <2>10. CASE ~For(a[k], d, c)
    BY <2>2, <2>5, <2>10
  <2> QED  BY <2>9, <2>10
<1>11. ASSUME NEW i \in 1..(n + m)
       PROVE  IF For(r[i], d, c) THEN /\ u[i] = 1 <=> r[i].what = "connect"
                                      /\ u[i - 1] # u[i]
              ELSE u[i] = u[i - 1]
  <2>1. CASE i <= n
    <3>1. i \in 1..n /\ i \in 0..n /\ i - 1 \in 0..n /\ r[i] = q[i]
      BY <1>1, <2>1
    <3>2. u[i] = t[i] /\ u[i - 1] = t[i - 1]
      BY <1>6, <3>1
    <3> QED  BY <1>2, <3>1, <3>2
  <2>2. CASE ~(i <= n)
    <3> DEFINE k == i - n
    <3>1. k \in 1..m /\ n + k = i /\ n + (k - 1) = i - 1 /\ r[i] = a[k]
      BY <1>1, <2>2
    <3> HIDE DEF k
    <3>2. IF For(a[k], d, c) THEN /\ u[n + k] = 1 <=> a[k].what = "connect"
                                  /\ u[n + (k - 1)] # u[n + k]
          ELSE u[n + k] = u[n + (k - 1)]
      BY <1>10, <3>1
    <3> QED  BY <3>1, <3>2
  <2> QED  BY <2>1, <2>2
<1>12. Told(u, r, d, c)
  BY <1>1, <1>9, <1>11 DEF Told
<1>13. u[0] = t[0]
  BY <1>1, <1>6
<1>14. u[n + m] = IF Some(m) THEN 1 - b ELSE b
  <2>1. m \in 0..m
    BY <1>1
  <2> QED  BY <1>7, <2>1
<1>15. u[Len(r)] = IF NonePending(a, d, c) THEN b ELSE 1 - b
  <2> HIDE DEF Some
  <2> QED  BY <1>1, <1>4, <1>14
<1> QED  BY <1>12, <1>13, <1>15 DEF r, b, n

\* A card is announced once as each device it has.
LEMMA AnnounceFacts ==
    ASSUME NEW f, NEW card \in UsbCards, NEW what \in {"connect", "disconnect"}
    PROVE  LET a == Announce(what, card, f)
           IN /\ a \in Seq(Events)
              /\ \A k \in 1..Len(a) : a[k].what = what /\ a[k].card = card
              /\ \A j, k \in 1..Len(a) : a[j].device = a[k].device => j = k
              /\ \A d \in Headsets :
                   (\E k \in 1..Len(a) : a[k].device = d) <=> Announced(d, f)
<1> DEFINE E(d) == [what |-> what, device |-> d, card |-> card]
<1> DEFINE a == Announce(what, card, f)
<1> DEFINE ds == DevicesOf(f)
<1>1. a = [i \in DOMAIN ds |-> E(ds[i])]
  BY DEF Announce
<1>2. \A d \in UsbDevices : E(d) \in Events
  BY DEF Events
<1>3. /\ ds \in Seq(UsbDevices) /\ DOMAIN ds = 1..Len(ds)
      /\ \A j, k \in 1..Len(ds) : ds[j] = ds[k] => j = k
      /\ \A d \in Headsets : (\E k \in 1..Len(ds) : ds[k] = d) <=> Announced(d, f)
  <2>1. CASE f.accessory
    <3>1. ds = <<"OUT_USB_ACCESSORY">>
      BY <2>1 DEF DevicesOf
    <3> QED  BY <2>1, <3>1 DEF UsbDevices, Headsets, Announced
  <2>2. CASE ~f.accessory /\ f.playback = << >> /\ f.capture = << >>
    <3>1. ds = << >>
      BY <2>2 DEF DevicesOf
    <3> QED  BY <2>2, <3>1 DEF UsbDevices, Headsets, Announced, Direction
  <2>3. CASE ~f.accessory /\ f.playback # << >> /\ f.capture = << >>
    <3>1. ds = <<"OUT_USB_HEADSET">>
      BY <2>3 DEF DevicesOf
    <3> QED  BY <2>3, <3>1 DEF UsbDevices, Headsets, Announced, Direction
  <2>4. CASE ~f.accessory /\ f.playback = << >> /\ f.capture # << >>
    <3>1. ds = <<"IN_USB_HEADSET">>
      BY <2>4 DEF DevicesOf
    <3> QED  BY <2>4, <3>1 DEF UsbDevices, Headsets, Announced, Direction
  <2>5. CASE ~f.accessory /\ f.playback # << >> /\ f.capture # << >>
    <3>1. ds = <<"OUT_USB_HEADSET", "IN_USB_HEADSET">>
      <4>1. ds = <<"OUT_USB_HEADSET">> \o <<"IN_USB_HEADSET">>
        BY <2>5 DEF DevicesOf
      <4>2. <<"OUT_USB_HEADSET">> \o <<"IN_USB_HEADSET">> =
              <<"OUT_USB_HEADSET", "IN_USB_HEADSET">>
        <5> DEFINE x == <<"OUT_USB_HEADSET">>
        <5> DEFINE y == <<"IN_USB_HEADSET">>
        <5> DEFINE z == <<"OUT_USB_HEADSET", "IN_USB_HEADSET">>
        <5>1. /\ x \in Seq(UsbDevices) /\ y \in Seq(UsbDevices) /\ z \in Seq(UsbDevices)
              /\ Len(x) = 1 /\ Len(y) = 1 /\ Len(z) = 2
              /\ x[1] = z[1] /\ y[1] = z[2]
          BY DEF UsbDevices
        <5> HIDE DEF x, y, z
        <5>2. /\ x \o y \in Seq(UsbDevices) /\ Len(x \o y) = Len(x) + Len(y)
              /\ \A i \in 1..(Len(x) + Len(y)) :
                   (x \o y)[i] = IF i <= Len(x) THEN x[i] ELSE y[i - Len(x)]
          BY <5>1, ConcatProperties
        <5>3. Len(x \o y) = 2 /\ (x \o y)[1] = z[1] /\ (x \o y)[2] = z[2]
          BY <5>1, <5>2
        <5>4. \A i \in 1..2 : i = 1 \/ i = 2
          OBVIOUS
        <5>5. \A i \in 1..Len(x \o y) : (x \o y)[i] = z[i]
          BY <5>3, <5>4
        <5>6. x \o y = z
          BY <5>1, <5>2, <5>3, <5>5, SeqEqual
        <5> QED  BY <5>6 DEF x, y, z
      <4> QED  BY <4>1, <4>2
    <3> QED  BY <2>5, <3>1 DEF UsbDevices, Headsets, Announced, Direction
  <2> QED  BY <2>1, <2>2, <2>3, <2>4, <2>5
<1> HIDE DEF ds, a
<1>4. \A i \in 1..Len(ds) : ds[i] \in UsbDevices
  BY <1>3
<1>5. /\ Len(ds) \in Nat /\ a \in [1..Len(ds) -> Events]
      /\ \A i \in 1..Len(ds) : a[i] = E(ds[i])
  <2>1. Len(ds) \in Nat
    BY <1>3
  <2> HIDE DEF E
  <2> QED  BY <1>1, <1>2, <1>3, <1>4, <2>1
<1>6. a \in Seq(Events) /\ Len(a) = Len(ds)
  BY <1>5
<1>7. \A i \in 1..Len(ds) : a[i].what = what /\ a[i].card = card /\ a[i].device = ds[i]
  BY <1>5
<1> QED  BY <1>3, <1>6, <1>7 DEF a

\* Nothing is announced of a card that is not there.
LEMMA NothingAnnounced ==
    \A d \in Headsets : ~Announced(d, NoFile)
  BY DEF Announced, NoFile, Headsets, Direction

\* A card announced or withdrawn.
LEMMA AnnouncementKeepsQueue ==
    ASSUME NEW q \in Seq(Events), NEW R, NEW plugged, NEW plugged2,
           NEW f, NEW card \in UsbCards, NEW what \in {"connect", "disconnect"},
           NEW d \in Headsets, NEW c \in UsbCards,
           QueueTrue(q, R, plugged, d, c),
           c # card => plugged2[c] = plugged[c],
           c = card => IF what = "connect"
                       THEN plugged[c] = NoFile /\ plugged2[c] = f
                       ELSE plugged[c] = f /\ plugged2[c] = NoFile
    PROVE  QueueTrue(q \o Announce(what, card, f), R, plugged2, d, c)
<1> DEFINE a == Announce(what, card, f)
<1>1. /\ a \in Seq(Events)
      /\ \A k \in 1..Len(a) : a[k].what = what /\ a[k].card = card
      /\ \A j, k \in 1..Len(a) : a[j].device = a[k].device => j = k
      /\ (\E k \in 1..Len(a) : a[k].device = d) <=> Announced(d, f)
  BY AnnounceFacts
<1> HIDE DEF a
<1>2. PICK t : /\ Told(t, q, d, c)
               /\ t[Len(q)] = 1 <=> Announced(d, plugged[c])
               /\ t[0] = 0 => ~Known(R, d, c)
               /\ NonePending(q, d, c) => EntryTrue(R, plugged, d, c)
  BY DEF QueueTrue
<1>3. t[Len(q)] \in {0, 1}
  <2>1. Len(q) \in 0..Len(q)
    OBVIOUS
  <2> QED  BY <1>2, <2>1 DEF Told
<1>4. NonePending(a, d, c) <=> ~(c = card /\ Announced(d, f))
  BY <1>1 DEF NonePending, For
<1>5. ~Announced(d, NoFile)
  BY NothingAnnounced
<1>6. \A k \in 1..Len(a) : For(a[k], d, c) => (a[k].what = "connect" <=> t[Len(q)] = 0)
  <2>1. SUFFICES ASSUME NEW k \in 1..Len(a), For(a[k], d, c)
                 PROVE  a[k].what = "connect" <=> t[Len(q)] = 0
    OBVIOUS
  <2>2. c = card /\ a[k].what = what /\ Announced(d, f)
    BY <1>1, <2>1 DEF For
  <2> QED  BY <1>2, <1>3, <1>5, <2>2
<1>7. \A j, k \in 1..Len(a) : For(a[j], d, c) /\ For(a[k], d, c) => j = k
  BY <1>1 DEF For
<1>8. PICK u : /\ Told(u, q \o a, d, c) /\ u[0] = t[0]
               /\ u[Len(q \o a)] =
                    IF NonePending(a, d, c) THEN t[Len(q)] ELSE 1 - t[Len(q)]
  BY <1>1, <1>2, <1>6, <1>7, ToldMore
<1>9. u[Len(q \o a)] = 1 <=> Announced(d, plugged2[c])
  <2>1. CASE c = card /\ Announced(d, f)
    <3>1. u[Len(q \o a)] = 1 - t[Len(q)]
      BY <1>4, <1>8, <2>1
    <3>2. Announced(d, plugged2[c]) <=> ~Announced(d, plugged[c])
      BY <1>5, <2>1
    <3> QED  BY <1>2, <1>3, <3>1, <3>2
  <2>2. CASE ~(c = card /\ Announced(d, f))
    <3>1. u[Len(q \o a)] = t[Len(q)]
      BY <1>4, <1>8, <2>2
    <3>2. Announced(d, plugged2[c]) <=> Announced(d, plugged[c])
      BY <1>5, <2>2
    <3> QED  BY <1>2, <3>1, <3>2
  <2> QED  BY <2>1, <2>2
<1>10. NonePending(q \o a, d, c) => NonePending(q, d, c) /\ NonePending(a, d, c)
  <2>1. /\ Len(q) \in Nat /\ Len(a) \in Nat /\ Len(q \o a) = Len(q) + Len(a)
        /\ \A i \in 1..(Len(q) + Len(a)) : (q \o a)[i] = IF i <= Len(q) THEN q[i]
                                                          ELSE a[i - Len(q)]
    BY <1>1, ConcatProperties
  <2>2. ASSUME NonePending(q \o a, d, c), NEW i \in 1..Len(q) PROVE ~For(q[i], d, c)
    <3>1. i \in 1..(Len(q) + Len(a)) /\ (q \o a)[i] = q[i]
      BY <2>1
    <3> QED  BY <2>1, <2>2, <3>1 DEF NonePending
  <2>3. ASSUME NonePending(q \o a, d, c), NEW i \in 1..Len(a) PROVE ~For(a[i], d, c)
    <3> DEFINE k == Len(q) + i
    <3>1. k \in 1..(Len(q) + Len(a)) /\ ~(k <= Len(q)) /\ k - Len(q) = i
      BY <2>1
    <3>2. (q \o a)[k] = a[i]
      BY <2>1, <3>1
    <3> HIDE DEF k
    <3> QED  BY <2>1, <2>3, <3>1, <3>2 DEF NonePending
  <2> QED  BY <2>2, <2>3 DEF NonePending
<1>11. NonePending(q \o a, d, c) => EntryTrue(R, plugged2, d, c)
  <2>1. SUFFICES ASSUME NonePending(q \o a, d, c) PROVE EntryTrue(R, plugged2, d, c)
    OBVIOUS
  <2>2. /\ NonePending(q, d, c) /\ EntryTrue(R, plugged, d, c)
        /\ ~(c = card /\ Announced(d, f))
    BY <1>2, <1>4, <1>10, <2>1
  <2>3. CASE c # card
    <3>1. plugged2[c] = plugged[c]
      BY <2>3
    <3> QED  BY <2>2, <3>1 DEF EntryTrue
  <2>4. CASE c = card
    <3>1. ~Announced(d, plugged[c]) /\ ~Announced(d, plugged2[c])
      BY <1>5, <2>2, <2>4
    <3>2. ~Known(R, d, c)
      BY <2>2, <3>1 DEF EntryTrue
    <3> QED  BY <3>1, <3>2 DEF EntryTrue, Known
  <2> QED  BY <2>3, <2>4
<1>12. u[0] = 0 => ~Known(R, d, c)
  BY <1>2, <1>8
<1> QED  BY <1>8, <1>9, <1>11, <1>12 DEF QueueTrue, a

\* An announcement for another device is handled.
LEMMA OtherHandled ==
    ASSUME NEW q \in Seq(Events), q # << >>, NEW R, NEW R2, NEW plugged,
           NEW d, NEW c, QueueTrue(q, R, plugged, d, c), ~For(Head(q), d, c),
           {e \in R2 : For(e, d, c)} = {e \in R : For(e, d, c)}
    PROVE  QueueTrue(Tail(q), R2, plugged, d, c)
<1>1. PICK t : /\ Told(t, q, d, c)
               /\ t[Len(q)] = 1 <=> Announced(d, plugged[c])
               /\ t[0] = 0 => ~Known(R, d, c)
               /\ NonePending(q, d, c) => EntryTrue(R, plugged, d, c)
  BY DEF QueueTrue
<1>2. PICK u : /\ Told(u, Tail(q), d, c)
               /\ u[0] = t[1] /\ u[Len(Tail(q))] = t[Len(q)]
  BY <1>1, ToldTail
<1>3. /\ Len(q) \in Nat /\ Len(q) # 0 /\ Head(q) = q[1] /\ Len(Tail(q)) = Len(q) - 1
      /\ \A i \in 1..Len(Tail(q)) : Tail(q)[i] = q[i + 1]
  BY HeadTailProperties
<1>4. t[1] = t[0]
  <2>1. 1 \in 1..Len(q) /\ 1 - 1 = 0 /\ ~For(q[1], d, c)
    BY <1>3
  <2>2. IF For(q[1], d, c) THEN /\ t[1] = 1 <=> q[1].what = "connect"
                                /\ t[1 - 1] # t[1]
        ELSE t[1] = t[1 - 1]
    BY <1>1, <2>1 DEF Told
  <2> QED  BY <2>1, <2>2
<1>5. Known(R2, d, c) <=> Known(R, d, c)
  BY DEF Known
<1>6. NonePending(Tail(q), d, c) => NonePending(q, d, c)
  <2>1. SUFFICES ASSUME NonePending(Tail(q), d, c), NEW i \in 1..Len(q)
                 PROVE  ~For(q[i], d, c)
    BY DEF NonePending
  <2>2. CASE i = 1
    BY <1>3, <2>2
  <2>3. CASE i # 1
    <3>1. i - 1 \in 1..Len(Tail(q)) /\ (i - 1) + 1 = i
      BY <1>3, <2>3
    <3>2. Tail(q)[i - 1] = q[i]
      BY <1>3, <3>1
    <3> QED  BY <2>1, <3>1, <3>2 DEF NonePending
  <2> QED  BY <2>2, <2>3
<1>7. EntryTrue(R, plugged, d, c) => EntryTrue(R2, plugged, d, c)
  BY <1>5 DEF EntryTrue
<1> QED  BY <1>1, <1>2, <1>4, <1>5, <1>6, <1>7 DEF QueueTrue

\* The announcement for the device itself is handled: it had no entry if it is now
\* told to be there, and has none if it is told to be gone.
LEMMA OwnHandled ==
    ASSUME NEW q \in Seq(Events), q # << >>, NEW R, NEW R2, NEW plugged,
           NEW d, NEW c, QueueTrue(q, R, plugged, d, c), For(Head(q), d, c),
           Head(q).what \in {"connect", "disconnect"},
           Head(q).what = "disconnect" => ~Known(R2, d, c),
           Head(q).what = "connect" /\ ~Known(R, d, c) =>
             /\ Known(R2, d, c) <=> usb_get_capability(Direction(d), plugged[c]).ret
             /\ \A e \in R2 : For(e, d, c) =>
                  e.list = usb_get_capability(Direction(d), plugged[c]).list
    PROVE  /\ QueueTrue(Tail(q), R2, plugged, d, c)
           /\ Head(q).what = "connect" => ~Known(R, d, c)
<1>1. PICK t : /\ Told(t, q, d, c)
               /\ t[Len(q)] = 1 <=> Announced(d, plugged[c])
               /\ t[0] = 0 => ~Known(R, d, c)
  BY DEF QueueTrue
<1>2. PICK u : /\ Told(u, Tail(q), d, c)
               /\ u[0] = t[1] /\ u[Len(Tail(q))] = t[Len(q)]
  BY <1>1, ToldTail
<1>3. Len(q) \in Nat /\ Len(q) # 0 /\ Head(q) = q[1] /\ Tail(q) \in Seq(Events)
  BY HeadTailProperties
<1>4. t[0] \in {0, 1} /\ t[1] \in {0, 1} /\ t[0] # t[1]
      /\ (t[1] = 1 <=> Head(q).what = "connect")
  <2>1. 1 \in 1..Len(q) /\ 1 - 1 = 0 /\ For(q[1], d, c) /\ 0 \in 0..Len(q) /\ 1 \in 0..Len(q)
    BY <1>3
  <2>2. IF For(q[1], d, c) THEN /\ t[1] = 1 <=> q[1].what = "connect"
                                /\ t[1 - 1] # t[1]
        ELSE t[1] = t[1 - 1]
    BY <1>1, <2>1 DEF Told
  <2>3. t[0] \in {0, 1} /\ t[1] \in {0, 1}
    BY <1>1, <2>1 DEF Told
  <2> QED  BY <1>3, <2>1, <2>2, <2>3
<1>5. NonePending(Tail(q), d, c) => (t[1] = 1 <=> Announced(d, plugged[c]))
  <2>1. NonePending(Tail(q), d, c) => u[0] = u[Len(Tail(q))]
    BY <1>2, <1>3, ToldConstant
  <2> QED  BY <1>1, <1>2, <2>1
<1>6. CASE Head(q).what = "connect"
  <2>1. t[1] = 1 /\ t[0] = 0
    BY <1>4, <1>6
  <2>2. ~Known(R, d, c)
    BY <1>1, <2>1
  <2>3. NonePending(Tail(q), d, c) => EntryTrue(R2, plugged, d, c)
    BY <1>5, <1>6, <2>1, <2>2 DEF EntryTrue
  <2>4. u[0] # 0
    BY <1>2, <2>1
  <2> QED  BY <1>1, <1>2, <2>2, <2>3, <2>4 DEF QueueTrue
<1>7. CASE Head(q).what = "disconnect"
  <2>1. ~Known(R2, d, c) /\ t[1] # 1
    BY <1>4, <1>7
  <2>2. NonePending(Tail(q), d, c) => EntryTrue(R2, plugged, d, c)
    BY <1>5, <2>1 DEF EntryTrue, Known
  <2> QED  BY <1>1, <1>2, <1>7, <2>1, <2>2 DEF QueueTrue
<1> QED  BY <1>6, <1>7

-----------------------------------------------------------------------------
(* The invariant. *)

UsbTypes ==
  /\ usbmod \in {"null", "live"}
  /\ usb_card_conf_list \in Seq(Entries)
  /\ is_capture_supported \in BOOLEAN
  /\ usb_plugged \in [UsbCards -> Files]
  /\ usb_events \in Seq(Events)
  /\ usbmod = "null" => usb_card_conf_list = << >> /\ usb_events = << >>

\* No device of a card has two entries.
Distinct(cl) ==
  \A i, k \in 1..Len(cl) : i # k => ~For(cl[i], cl[k].device, cl[k].card)

\* A microphone is reported only of a known input card.
CaptureKnown ==
  is_capture_supported => \E e \in Range(usb_card_conf_list) : e.device = "IN_USB_HEADSET"

QueuesTrue ==
  usbmod = "live" => \A d \in Headsets : \A c \in UsbCards :
    QueueTrue(usb_events, Range(usb_card_conf_list), usb_plugged, d, c)

UsbInv == UsbTypes /\ Distinct(usb_card_conf_list) /\ CaptureKnown /\ QueuesTrue

LEMMA RangeFacts ==
    ASSUME NEW S, NEW q \in Seq(S)
    PROVE  /\ Range(q) = {q[i] : i \in 1..Len(q)} /\ Range(q) \subseteq S
           /\ \A e \in S : Range(Append(q, e)) = Range(q) \cup {e}
<1>1. DOMAIN q = 1..Len(q) /\ Len(q) \in Nat
  OBVIOUS
<1>2. Range(q) = {q[i] : i \in 1..Len(q)}
  BY <1>1 DEF Range
<1>3. Range(q) \subseteq S
  BY <1>2
<1>4. ASSUME NEW e \in S PROVE Range(Append(q, e)) = Range(q) \cup {e}
  <2> DEFINE r == Append(q, e)
  <2>1. /\ r \in Seq(S) /\ Len(r) = Len(q) + 1 /\ r[Len(q) + 1] = e
        /\ \A i \in 1..Len(q) : r[i] = q[i]
    BY AppendProperties
  <2> HIDE DEF r
  <2>2. Range(r) = {r[i] : i \in 1..(Len(q) + 1)}
    BY <2>1 DEF Range
  <2>3. /\ \A i \in 1..(Len(q) + 1) : i = Len(q) + 1 \/ i \in 1..Len(q)
        /\ Len(q) + 1 \in 1..(Len(q) + 1) /\ \A i \in 1..Len(q) : i \in 1..(Len(q) + 1)
    BY <1>1
  <2>4. ASSUME NEW x \in Range(r) PROVE x \in Range(q) \cup {e}
    BY <1>2, <2>1, <2>2, <2>3
  <2>5. ASSUME NEW x \in Range(q) \cup {e} PROVE x \in Range(r)
    BY <1>2, <2>1, <2>2, <2>3
  <2>6. Range(r) = Range(q) \cup {e}
    BY <2>4, <2>5
  <2> QED  BY <2>6 DEF r
<1> QED  BY <1>2, <1>3, <1>4

LEMMA KnownIsCached ==
    ASSUME usb_card_conf_list \in Seq(Entries), NEW d, NEW c
    PROVE  Cached(d, c) <=> Known(Range(usb_card_conf_list), d, c)
  BY RangeFacts DEF Cached, Known, For, Range

\* What a card is entered with.
LEMMA NewEntry ==
    ASSUME NEW d \in Headsets, NEW c \in UsbCards, NEW f, IsFile(f),
           usb_get_capability(Direction(d), f).ret
    PROVE  [device |-> d, card |-> c, list |-> usb_get_capability(Direction(d), f).list]
             \in Entries
<1> DEFINE type == Direction(d)
<1> DEFINE l == usb_get_capability(type, f).list
<1>1. type \in {"playback", "capture"}
  BY DEF Headsets, Direction
<1>2. usb_get_capability(type, f) \in Collected(type)
  <2> HIDE DEF type
  <2> QED  BY <1>1, CapabilityTyped
<1>3. l \in Seq(TypedAltsets(type)) /\ l # << >>
  BY <1>2 DEF Collected
<1> HIDE DEF l, type
<1>4. \A k \in 1..Len(l) : l[k].type = type
  <2>1. \A k \in 1..Len(l) : l[k] \in TypedAltsets(type)
    BY <1>3
  <2> QED  BY <2>1 DEF TypedAltsets
<1>5. l \in Seq(Altsets)
  <2>1. TypedAltsets(type) \subseteq Altsets
    BY DEF TypedAltsets
  <2> QED  BY <1>3, <2>1, SeqMonotonic
<1> DEFINE e == [device |-> d, card |-> c, list |-> l]
<1>6. /\ e \in [device : Headsets, card : UsbCards, list : Seq(Altsets)]
      /\ e.list = l /\ e.device = d
  BY <1>5
<1> HIDE DEF e
<1>7. e \in Entries
  BY <1>3, <1>4, <1>6 DEF Entries, type
<1> QED  BY <1>7 DEF e, l, type

LEMMA PluggedFile ==
    ASSUME UsbTypes, NEW c \in UsbCards
    PROVE  IsFile(usb_plugged[c])
<1>1. usb_plugged[c] \in StreamFiles \cup {NoFile}
  BY DEF UsbTypes, Files
<1> QED  BY <1>1, FilesTyped

LEMMA UsbStart == UsbInit => UsbInv
<1>1. SUFFICES ASSUME UsbInit PROVE UsbInv
  OBVIOUS
<1>2. UsbTypes
  <2>1. usb_plugged \in [UsbCards -> Files]
    BY <1>1 DEF UsbInit, Files
  <2>2. usb_card_conf_list \in Seq(Entries) /\ usb_events \in Seq(Events)
    BY <1>1 DEF UsbInit
  <2>3. usbmod = "null" /\ is_capture_supported \in BOOLEAN
        /\ usb_card_conf_list = << >> /\ usb_events = << >>
    BY <1>1 DEF UsbInit
  <2> QED  BY <2>1, <2>2, <2>3 DEF UsbTypes
<1>3. Distinct(usb_card_conf_list) /\ CaptureKnown /\ QueuesTrue
  BY <1>1 DEF UsbInit, Distinct, CaptureKnown, QueuesTrue
<1> QED  BY <1>2, <1>3 DEF UsbInv

LEMMA PlugKeeps ==
    ASSUME UsbInv, NEW card \in UsbCards, NEW f \in StreamFiles, Plug(card, f)
    PROVE  UsbInv'
<1> DEFINE a == Announce("connect", card, f)
<1>1. a \in Seq(Events)
  BY AnnounceFacts
<1>2. UsbTypes'
  <2>1. usb_events' \in Seq(Events)
    <3> HIDE DEF a
    <3>1. usb_events \in Seq(Events) /\ usb_events \o a \in Seq(Events)
      BY <1>1, ConcatProperties DEF UsbInv, UsbTypes
    <3> QED  BY <3>1 DEF Plug, a
  <2>2. usb_plugged' \in [UsbCards -> Files]
    BY DEF UsbInv, UsbTypes, Plug, Files
  <2> QED  BY <2>1, <2>2 DEF UsbInv, UsbTypes, Plug
<1>3. Distinct(usb_card_conf_list)' /\ CaptureKnown'
  BY DEF UsbInv, Distinct, CaptureKnown, Plug
<1>4. QueuesTrue'
  <2>1. SUFFICES ASSUME usbmod' = "live", NEW d \in Headsets, NEW c \in UsbCards
                 PROVE  QueueTrue(usb_events, Range(usb_card_conf_list), usb_plugged, d, c)'
    BY DEF QueuesTrue
  <2> DEFINE R == Range(usb_card_conf_list)
  <2>2. /\ usb_events' = usb_events \o a /\ usb_card_conf_list' = usb_card_conf_list
        /\ usb_plugged[card] = NoFile /\ usbmod = "live"
        /\ usb_plugged' = [usb_plugged EXCEPT ![card] = f]
    BY <2>1 DEF Plug
  <2>3. usb_plugged'[card] = f /\ (c # card => usb_plugged'[c] = usb_plugged[c])
    BY <2>2 DEF UsbInv, UsbTypes
  <2>4. QueueTrue(usb_events, R, usb_plugged, d, c) /\ usb_events \in Seq(Events)
    BY <2>2 DEF UsbInv, QueuesTrue, UsbTypes
  <2> DEFINE p == usb_plugged
  <2> DEFINE p2 == usb_plugged'
  <2>5. c = card => p[c] = NoFile /\ p2[c] = f
    BY <2>2, <2>3
  <2>6. c # card => p2[c] = p[c]
    BY <2>3
  <2>7. QueueTrue(usb_events, R, p, d, c)
    BY <2>4
  <2> HIDE DEF R, p, p2
  <2>8. QueueTrue(usb_events \o a, R, p2, d, c)
    BY <2>4, <2>5, <2>6, <2>7, AnnouncementKeepsQueue
  <2> QED  BY <2>2, <2>8 DEF R, p2
<1> QED  BY <1>2, <1>3, <1>4 DEF UsbInv

LEMMA UnplugKeeps ==
    ASSUME UsbInv, NEW card \in UsbCards, Unplug(card)
    PROVE  UsbInv'
<1> DEFINE f == usb_plugged[card]
<1> DEFINE a == Announce("disconnect", card, f)
<1>1. a \in Seq(Events)
  BY AnnounceFacts
<1>2. UsbTypes'
  <2>1. usb_events' \in Seq(Events)
    <3> HIDE DEF a
    <3>1. usb_events \in Seq(Events) /\ usb_events \o a \in Seq(Events)
      BY <1>1, ConcatProperties DEF UsbInv, UsbTypes
    <3> QED  BY <3>1 DEF Unplug, a
  <2>2. usb_plugged' \in [UsbCards -> Files]
    BY DEF UsbInv, UsbTypes, Unplug, Files
  <2> QED  BY <2>1, <2>2 DEF UsbInv, UsbTypes, Unplug
<1>3. Distinct(usb_card_conf_list)' /\ CaptureKnown'
  BY DEF UsbInv, Distinct, CaptureKnown, Unplug
<1>4. QueuesTrue'
  <2>1. SUFFICES ASSUME usbmod' = "live", NEW d \in Headsets, NEW c \in UsbCards
                 PROVE  QueueTrue(usb_events, Range(usb_card_conf_list), usb_plugged, d, c)'
    BY DEF QueuesTrue
  <2> DEFINE R == Range(usb_card_conf_list)
  <2>2. /\ usb_events' = usb_events \o a /\ usb_card_conf_list' = usb_card_conf_list
        /\ usbmod = "live" /\ usb_plugged' = [usb_plugged EXCEPT ![card] = NoFile]
    BY <2>1 DEF Unplug
  <2>3. usb_plugged'[card] = NoFile /\ (c # card => usb_plugged'[c] = usb_plugged[c])
    BY <2>2 DEF UsbInv, UsbTypes
  <2>4. QueueTrue(usb_events, R, usb_plugged, d, c) /\ usb_events \in Seq(Events)
    BY <2>2 DEF UsbInv, QueuesTrue, UsbTypes
  <2> DEFINE p == usb_plugged
  <2> DEFINE p2 == usb_plugged'
  <2>5. c = card => p[c] = f /\ p2[c] = NoFile
    BY <2>3
  <2>6. c # card => p2[c] = p[c]
    BY <2>3
  <2>7. QueueTrue(usb_events, R, p, d, c)
    BY <2>4
  <2> HIDE DEF R, p, p2, f
  <2>8. QueueTrue(usb_events \o a, R, p2, d, c)
    BY <2>4, <2>5, <2>6, <2>7, AnnouncementKeepsQueue
  <2> QED  BY <2>2, <2>8 DEF R, p2
<1> QED  BY <1>2, <1>3, <1>4 DEF UsbInv

LEMMA ConnectKeeps ==
    ASSUME UsbInv, Connect
    PROVE  UsbInv'
<1> DEFINE q == usb_events
<1> DEFINE cl == usb_card_conf_list
<1> DEFINE d0 == Head(q).device
<1> DEFINE c0 == Head(q).card
<1> DEFINE type == Direction(d0)
<1> DEFINE cap == usb_get_capability(type, usb_plugged[c0])
<1> DEFINE new == [device |-> d0, card |-> c0, list |-> cap.list]
<1> DEFINE skip == ~usb_valid_device(d0) \/ Cached(d0, c0)
<1>1. /\ usbmod = "live" /\ usbmod' = "live" /\ q # << >> /\ q \in Seq(Events)
      /\ Head(q).what = "connect" /\ usb_events' = Tail(q) /\ usb_plugged' = usb_plugged
      /\ cl \in Seq(Entries) /\ is_capture_supported \in BOOLEAN
  BY DEF Connect, UsbInv, UsbTypes
<1>2. Head(q) \in Events /\ Tail(q) \in Seq(Events)
  BY <1>1, HeadTailProperties
<1>3. d0 \in UsbDevices /\ c0 \in UsbCards
  BY <1>2 DEF Events
<1>4. usb_valid_device(d0) <=> d0 \in Headsets
  BY DEF usb_valid_device, usb_output_device, usb_input_device, Headsets
<1>5. Cached(d0, c0) <=> Known(Range(cl), d0, c0)
  BY <1>1, KnownIsCached
<1>6. IsFile(usb_plugged[c0])
  BY <1>3, PluggedFile DEF UsbInv
<1>7. skip => usb_card_conf_list' = cl /\ is_capture_supported' = is_capture_supported
  BY DEF Connect, audio_extn_usb_add_device
<1>8. ~skip => /\ usb_card_conf_list' = IF cap.ret THEN Append(cl, new) ELSE cl
               /\ is_capture_supported' =
                    (is_capture_supported \/ (cap.ret /\ type = "capture"))
  BY DEF Connect, audio_extn_usb_add_device
<1>9. ~skip /\ cap.ret => new \in Entries
  BY <1>3, <1>4, <1>6, NewEntry
<1>10. new.device = d0 /\ new.card = c0 /\ new.list = cap.list
  OBVIOUS
<1>11. type = "capture" <=> d0 = "IN_USB_HEADSET"
  BY DEF Direction
<1>12. ASSUME NEW d, NEW c PROVE For(Head(q), d, c) <=> d0 = d /\ c0 = c
  BY DEF For
<1> HIDE DEF new, cap, skip
<1>13. UsbTypes'
  <2>1. usb_card_conf_list' \in Seq(Entries)
    <3>1. CASE ~skip /\ cap.ret
      BY <1>1, <1>8, <1>9, <3>1, AppendProperties
    <3>2. CASE ~(~skip /\ cap.ret)
      BY <1>1, <1>7, <1>8, <3>2
    <3> QED  BY <3>1, <3>2
  <2>2. is_capture_supported' \in BOOLEAN
    BY <1>1, <1>7, <1>8
  <2> QED  BY <1>1, <1>2, <2>1, <2>2 DEF UsbInv, UsbTypes
<1>14. \/ usb_card_conf_list' = cl
       \/ /\ usb_card_conf_list' = Append(cl, new) /\ new \in Entries
          /\ ~skip /\ cap.ret
  BY <1>7, <1>8, <1>9
<1> DEFINE R == Range(cl)
<1> DEFINE R2 == Range(usb_card_conf_list')
<1>0. new \in Entries => Range(Append(cl, new)) = Range(cl) \cup {new}
  <2> HIDE DEF cl
  <2> QED  BY <1>1, RangeFacts
<1>15. \/ R2 = R
       \/ R2 = R \cup {new} /\ ~skip /\ cap.ret
  BY <1>14, <1>0
<1>16. ~skip => R2 = IF cap.ret THEN R \cup {new} ELSE R
  <2>1. CASE cap.ret
    BY <1>8, <1>9, <1>0, <2>1
  <2>2. CASE ~cap.ret
    BY <1>8, <2>2
  <2> QED  BY <2>1, <2>2
<1>17. Distinct(usb_card_conf_list)'
  <2>1. Distinct(cl)
    BY DEF UsbInv
  <2>2. CASE usb_card_conf_list' = cl
    BY <2>1, <2>2 DEF Distinct
  <2>3. CASE usb_card_conf_list' = Append(cl, new) /\ new \in Entries /\ ~skip
    <3> DEFINE r == usb_card_conf_list'
    <3>1. ~Known(Range(cl), d0, c0)
      BY <1>5, <2>3 DEF skip
    <3>2. \A i \in 1..Len(cl) : ~For(cl[i], d0, c0)
      BY <1>1, <3>1, RangeFacts DEF Known
    <3>3. /\ Len(r) = Len(cl) + 1 /\ r[Len(cl) + 1] = new /\ Len(cl) \in Nat
          /\ \A i \in 1..Len(cl) : r[i] = cl[i]
      BY <1>1, <2>3, AppendProperties
    <3> HIDE DEF r, cl
    <3>4. ASSUME NEW i \in 1..Len(r), NEW k \in 1..Len(r), i # k,
                 For(r[i], r[k].device, r[k].card)
          PROVE  FALSE
      <4>1. \A j \in 1..Len(r) : j = Len(cl) + 1 \/ j \in 1..Len(cl)
        BY <3>3
      <4>2. CASE i \in 1..Len(cl) /\ k \in 1..Len(cl)
        BY <2>1, <3>3, <3>4, <4>2 DEF Distinct
      <4>3. CASE i \in 1..Len(cl) /\ k = Len(cl) + 1
        BY <1>10, <3>2, <3>3, <3>4, <4>3 DEF For
      <4>4. CASE i = Len(cl) + 1 /\ k \in 1..Len(cl)
        BY <1>10, <3>2, <3>3, <3>4, <4>4 DEF For
      <4> QED  BY <3>4, <4>1, <4>2, <4>3, <4>4
    <3> QED  BY <3>4 DEF Distinct, r
  <2> QED  BY <1>14, <2>2, <2>3
<1>18. CaptureKnown'
  <2>1. is_capture_supported => \E e \in R : e.device = "IN_USB_HEADSET"
    BY DEF UsbInv, CaptureKnown
  <2>2. R \subseteq R2
    BY <1>15
  <2>3. is_capture_supported' =>
          is_capture_supported \/ (~skip /\ cap.ret /\ d0 = "IN_USB_HEADSET")
    BY <1>1, <1>7, <1>8, <1>11
  <2>4. ~skip /\ cap.ret => new \in R2
    BY <1>16
  <2>5. is_capture_supported' => \E e \in R2 : e.device = "IN_USB_HEADSET"
    <3> HIDE DEF R, R2, d0
    <3> QED  BY <1>10, <2>1, <2>2, <2>3, <2>4
  <2> QED  BY <2>5 DEF CaptureKnown
<1>19. QueuesTrue'
  <2>1. SUFFICES ASSUME NEW d \in Headsets, NEW c \in UsbCards
                 PROVE  QueueTrue(usb_events, Range(usb_card_conf_list), usb_plugged, d, c)'
    BY DEF QueuesTrue
  <2> DEFINE p == usb_plugged
  <2>2. QueueTrue(q, R, p, d, c)
    BY <1>1 DEF UsbInv, QueuesTrue
  <2> HIDE DEF R, R2
  <2>3. QueueTrue(Tail(q), R2, p, d, c)
    <3>1. CASE ~For(Head(q), d, c)
      <4>1. ~For(new, d, c)
        BY <1>10, <1>12, <3>1 DEF For
      <4>2. {e \in R2 : For(e, d, c)} = {e \in R : For(e, d, c)}
        BY <1>15, <4>1
      <4> HIDE DEF q, p
      <4> QED  BY <1>1, <2>2, <3>1, <4>2, OtherHandled
    <3>2. CASE For(Head(q), d, c)
      <4>1. d0 = d /\ c0 = c
        BY <1>12, <3>2
      <4>2. usb_valid_device(d0)
        BY <1>4, <4>1
      <4>3. ~Known(R, d, c) => ~skip
        BY <1>5, <4>1, <4>2 DEF skip, R
      <4>4. cap = usb_get_capability(Direction(d), p[c])
        BY <4>1 DEF cap
      <4>5. For(new, d, c)
        BY <1>10, <4>1 DEF For
      <4>6. ~Known(R, d, c) => /\ Known(R2, d, c) <=> cap.ret
                               /\ \A e \in R2 : For(e, d, c) => e.list = cap.list
        <5> HIDE DEF q, cl
        <5> QED  BY <1>10, <1>16, <4>3, <4>5 DEF Known
      <4> HIDE DEF q, p
      <4> QED  BY <1>1, <2>2, <3>2, <4>4, <4>6, OwnHandled
    <3> QED  BY <3>1, <3>2
  <2> QED  BY <1>1, <2>3 DEF R2
<1> QED  BY <1>13, <1>17, <1>18, <1>19 DEF UsbInv

LEMMA DisconnectKeeps ==
    ASSUME UsbInv, Disconnect
    PROVE  UsbInv'
<1> DEFINE q == usb_events
<1> DEFINE cl == usb_card_conf_list
<1> DEFINE d0 == Head(q).device
<1> DEFINE c0 == Head(q).card
<1> DEFINE places == {i \in DOMAIN cl : cl[i].device # d0 \/ cl[i].card # c0}
<1> DEFINE kept == Kept(cl, places)
<1> DEFINE R == Range(cl)
<1> DEFINE R2 == Range(usb_card_conf_list')
<1>1. /\ usbmod = "live" /\ usbmod' = "live" /\ q # << >> /\ q \in Seq(Events)
      /\ Head(q).what = "disconnect" /\ usb_events' = Tail(q) /\ usb_plugged' = usb_plugged
      /\ cl \in Seq(Entries) /\ is_capture_supported \in BOOLEAN
  BY DEF Disconnect, UsbInv, UsbTypes
<1>2. Head(q) \in Events /\ Tail(q) \in Seq(Events)
  BY <1>1, HeadTailProperties
<1>3. ASSUME NEW d, NEW c PROVE For(Head(q), d, c) <=> d0 = d /\ c0 = c
  BY DEF For
<1>4. usb_valid_device(d0) <=> d0 \in Headsets
  BY DEF usb_valid_device, usb_output_device, usb_input_device, Headsets
<1>5. d0 \notin Headsets =>
        usb_card_conf_list' = cl /\ is_capture_supported' = is_capture_supported
  BY <1>4 DEF Disconnect, audio_extn_usb_remove_device
<1>6. d0 \in Headsets =>
        /\ usb_card_conf_list' = kept
        /\ is_capture_supported' = (is_capture_supported /\ ~usb_input_device(d0))
  BY <1>4 DEF Disconnect, audio_extn_usb_remove_device
<1>7. DOMAIN cl = 1..Len(cl) /\ Len(cl) \in Nat
  BY <1>1
<1>8. \A i \in 1..Len(cl) : i \in places <=> ~For(cl[i], d0, c0)
  BY <1>7 DEF For
<1> HIDE DEF places, d0, c0
<1> HIDE DEF cl
<1>9. kept \in Seq(Entries) /\ KeptFrom(kept, cl, places)
  BY <1>1, KeptFacts
<1> HIDE DEF kept
<1>10. PICK h \in [1..Len(kept) -> 1..Len(cl)] :
           /\ \A j \in 1..Len(kept) : h[j] \in places /\ kept[j] = cl[h[j]]
           /\ \A j, k \in 1..Len(kept) : j < k => h[j] < h[k]
           /\ \A i \in 1..Len(cl) : i \in places => \E j \in 1..Len(kept) : h[j] = i
  BY <1>9 DEF KeptFrom
<1>11. Range(kept) = {kept[j] : j \in 1..Len(kept)} /\ R = {cl[i] : i \in 1..Len(cl)}
  <2>1. cl \in Seq(Entries) /\ kept \in Seq(Entries)
    BY <1>1, <1>9
  <2>2. Range(kept) = {kept[j] : j \in 1..Len(kept)}
    BY <2>1, RangeFacts
  <2>3. Range(cl) = {cl[i] : i \in 1..Len(cl)}
    BY <2>1, RangeFacts
  <2> QED  BY <2>2, <2>3
<1>12. Range(kept) = {e \in R : ~For(e, d0, c0)}
  <2>1. ASSUME NEW e \in Range(kept) PROVE e \in R /\ ~For(e, d0, c0)
    <3>1. PICK j \in 1..Len(kept) : e = kept[j]
      BY <1>11
    <3>2. h[j] \in 1..Len(cl) /\ h[j] \in places /\ e = cl[h[j]]
      BY <1>10, <3>1
    <3> QED  BY <1>8, <1>11, <3>2
  <2>2. ASSUME NEW e \in R, ~For(e, d0, c0) PROVE e \in Range(kept)
    <3>1. PICK i \in 1..Len(cl) : e = cl[i]
      BY <1>11
    <3>2. PICK j \in 1..Len(kept) : h[j] = i
      BY <1>8, <1>10, <2>2, <3>1
    <3> QED  BY <1>10, <1>11, <3>1, <3>2
  <2> HIDE DEF R
  <2> QED  BY <2>1, <2>2
<1>13. Distinct(cl)
  BY DEF UsbInv, cl
<1>14. Distinct(kept)
  <2>1. SUFFICES ASSUME NEW i \in 1..Len(kept), NEW k \in 1..Len(kept), i # k,
                        For(kept[i], kept[k].device, kept[k].card)
                 PROVE  FALSE
    BY DEF Distinct
  <2>2. kept[i] = cl[h[i]] /\ kept[k] = cl[h[k]] /\ h[i] \in 1..Len(cl) /\ h[k] \in 1..Len(cl)
    BY <1>10
  <2>3. h[i] # h[k]
    <3>1. i < k \/ k < i
      BY <2>1
    <3>2. h[i] < h[k] \/ h[k] < h[i]
      BY <1>10, <3>1
    <3>3. h[i] \in Nat /\ h[k] \in Nat
      BY <2>2
    <3> QED  BY <3>2, <3>3
  <2> QED  BY <1>13, <2>1, <2>2, <2>3 DEF Distinct
<1>15. UsbTypes'
  <2>1. usb_card_conf_list' \in Seq(Entries)
    BY <1>1, <1>5, <1>6, <1>9
  <2>2. is_capture_supported' \in BOOLEAN
    BY <1>1, <1>5, <1>6
  <2> QED  BY <1>1, <1>2, <2>1, <2>2 DEF UsbInv, UsbTypes
<1>16. Distinct(usb_card_conf_list)'
  <2>1. Distinct(usb_card_conf_list')
    BY <1>5, <1>6, <1>13, <1>14
  <2> QED  BY <2>1 DEF Distinct
<1>17. R2 = IF d0 \in Headsets THEN {e \in R : ~For(e, d0, c0)} ELSE R
  BY <1>5, <1>6, <1>12
<1>18. CaptureKnown'
  <2>1. is_capture_supported => \E e \in R : e.device = "IN_USB_HEADSET"
    BY DEF UsbInv, CaptureKnown, cl
  <2>2. is_capture_supported' => /\ is_capture_supported
                                 /\ d0 \in Headsets => d0 # "IN_USB_HEADSET"
    BY <1>1, <1>5, <1>6 DEF usb_input_device
  <2> HIDE DEF R, R2
  <2>3. is_capture_supported' => \E e \in R2 : e.device = "IN_USB_HEADSET"
    BY <1>17, <2>1, <2>2 DEF For
  <2> QED  BY <2>3 DEF CaptureKnown, R2
<1>19. QueuesTrue'
  <2>1. SUFFICES ASSUME NEW d \in Headsets, NEW c \in UsbCards
                 PROVE  QueueTrue(usb_events, Range(usb_card_conf_list), usb_plugged, d, c)'
    BY DEF QueuesTrue
  <2> DEFINE p == usb_plugged
  <2>2. QueueTrue(q, R, p, d, c)
    BY <1>1 DEF UsbInv, QueuesTrue, cl
  <2> HIDE DEF R, R2, q, p
  <2>3. QueueTrue(Tail(q), R2, p, d, c)
    <3>1. CASE ~For(Head(q), d, c)
      <4>1. \A e : For(e, d, c) => ~For(e, d0, c0)
        BY <1>3, <3>1 DEF For
      <4>2. {e \in R2 : For(e, d, c)} = {e \in R : For(e, d, c)}
        BY <1>17, <4>1
      <4> QED  BY <1>1, <2>2, <3>1, <4>2, OtherHandled
    <3>2. CASE For(Head(q), d, c)
      <4>1. d0 = d /\ c0 = c
        BY <1>3, <3>2
      <4>2. ~Known(R2, d, c)
        BY <1>17, <4>1 DEF Known
      <4> QED  BY <1>1, <2>2, <3>2, <4>2, OwnHandled
    <3> QED  BY <3>1, <3>2
  <2> QED  BY <1>1, <2>3 DEF R2, p, q
<1> QED  BY <1>15, <1>16, <1>18, <1>19 DEF UsbInv

\* The announcements to a HAL just opened.
LEMMA PluggedDevicesFacts ==
    ASSUME UsbTypes
    PROVE  /\ IsFiniteSet(PluggedDevices) /\ PluggedDevices \subseteq Events
           /\ \A e \in PluggedDevices : e.what = "connect"
           /\ \A d \in Headsets : \A c \in UsbCards :
                (\E e \in PluggedDevices : For(e, d, c)) <=> Announced(d, usb_plugged[c])
<1> DEFINE a(c) == Announce("connect", c, usb_plugged[c])
<1>1. ASSUME NEW c \in UsbCards
      PROVE  /\ a(c) \in Seq(Events)
             /\ \A k \in 1..Len(a(c)) : a(c)[k].what = "connect" /\ a(c)[k].card = c
             /\ \A d \in Headsets : (\E k \in 1..Len(a(c)) : a(c)[k].device = d) <=>
                                      Announced(d, usb_plugged[c])
  BY AnnounceFacts
<1>2. PluggedDevices = UNION {Range(a(c)) : c \in UsbCards}
  BY DEF PluggedDevices
<1> HIDE DEF a
<1>3. ASSUME NEW c \in UsbCards
      PROVE  Range(a(c)) = {a(c)[k] : k \in 1..Len(a(c))} /\ Range(a(c)) \subseteq Events
  BY <1>1, RangeFacts
<1>4. ASSUME NEW e \in PluggedDevices
      PROVE  \E c \in UsbCards : \E k \in 1..Len(a(c)) : e = a(c)[k] /\ e \in Events
  BY <1>2, <1>3
<1>5. \A c \in UsbCards : \A k \in 1..Len(a(c)) : a(c)[k] \in PluggedDevices
  BY <1>2, <1>3
<1>6. PluggedDevices \subseteq Events /\ \A e \in PluggedDevices : e.what = "connect"
  BY <1>1, <1>4
<1>7. ASSUME NEW d \in Headsets, NEW c \in UsbCards
      PROVE  (\E e \in PluggedDevices : For(e, d, c)) <=> Announced(d, usb_plugged[c])
  <2>1. ASSUME NEW e \in PluggedDevices, For(e, d, c) PROVE Announced(d, usb_plugged[c])
    <3>1. PICK b \in UsbCards : \E k \in 1..Len(a(b)) : e = a(b)[k]
      BY <1>4
    <3>2. PICK k \in 1..Len(a(b)) : e = a(b)[k]
      BY <3>1
    <3>3. b = c /\ a(b)[k].device = d
      BY <1>1, <2>1, <3>2 DEF For
    <3> QED  BY <1>1, <3>2, <3>3
  <2>2. ASSUME Announced(d, usb_plugged[c]) PROVE \E e \in PluggedDevices : For(e, d, c)
    <3>1. PICK k \in 1..Len(a(c)) : a(c)[k].device = d
      BY <1>1, <2>2
    <3>2. a(c)[k].card = c /\ a(c)[k] \in PluggedDevices
      BY <1>1, <1>5
    <3> QED  BY <3>1, <3>2 DEF For
  <2> QED  BY <2>1, <2>2
<1>8. IsFiniteSet(PluggedDevices)
  <2> DEFINE X == UsbDevices \X UsbCards
  <2> DEFINE E(x) == [what |-> "connect", device |-> x[1], card |-> x[2]]
  <2> DEFINE T == {E(x) : x \in X}
  <2> DEFINE g == [x \in X |-> E(x)]
  <2>1. IsFiniteSet({"OUT_USB_HEADSET"}) /\ IsFiniteSet({"IN_USB_HEADSET"})
        /\ IsFiniteSet({"OUT_USB_ACCESSORY"})
    BY FS_Singleton
  <2>2. IsFiniteSet({"OUT_USB_HEADSET"} \cup {"IN_USB_HEADSET"})
    BY <2>1, FS_Union
  <2>3. IsFiniteSet(({"OUT_USB_HEADSET"} \cup {"IN_USB_HEADSET"}) \cup {"OUT_USB_ACCESSORY"})
    BY <2>1, <2>2, FS_Union
  <2>4. UsbDevices = ({"OUT_USB_HEADSET"} \cup {"IN_USB_HEADSET"}) \cup {"OUT_USB_ACCESSORY"}
    BY DEF UsbDevices
  <2>5. IsFiniteSet(X)
    <3>1. IsFiniteSet(UsbDevices) /\ IsFiniteSet(UsbCards)
      BY <2>3, <2>4, UsbAssumption
    <3> QED  BY <3>1, FS_Product
  <2>6. g \in Surjection(X, T)
    <3> HIDE DEF X, E
    <3> QED  BY DEF Surjection
  <2>7. IsFiniteSet(T)
    <3> HIDE DEF g, T, X
    <3> QED  BY <2>5, <2>6, FS_Surjection
  <2>8. ASSUME NEW e \in PluggedDevices PROVE e \in T
    <3>1. e \in Events /\ e.what = "connect"
      BY <1>6
    <3>2. e = [what |-> e.what, device |-> e.device, card |-> e.card]
          /\ e.device \in UsbDevices /\ e.card \in UsbCards
      BY <3>1 DEF Events
    <3> DEFINE x == <<e.device, e.card>>
    <3>3. x \in X /\ x[1] = e.device /\ x[2] = e.card
      BY <3>2
    <3>4. E(x) = e
      BY <3>1, <3>2
    <3> HIDE DEF x, X, E
    <3> QED  BY <3>3, <3>4
  <2>9. PluggedDevices \in SUBSET T
    <3> HIDE DEF T
    <3> QED  BY <2>8
  <2> HIDE DEF T
  <2> QED  BY <2>7, <2>9, FS_Subset
<1> QED  BY <1>6, <1>7, <1>8

\* The announcements to a HAL just opened lead from nothing to what is plugged in.
LEMMA FirstAnnouncements ==
    ASSUME UsbTypes, NEW N \in Nat, NEW q \in Bijection(1..N, PluggedDevices)
    PROVE  /\ q \in Seq(Events)
           /\ \A d \in Headsets : \A c \in UsbCards : QueueTrue(q, {}, usb_plugged, d, c)
<1>1. /\ PluggedDevices \subseteq Events
      /\ \A e \in PluggedDevices : e.what = "connect"
      /\ \A d \in Headsets : \A c \in UsbCards :
           (\E e \in PluggedDevices : For(e, d, c)) <=> Announced(d, usb_plugged[c])
  BY PluggedDevicesFacts
<1>2. /\ q \in [1..N -> PluggedDevices]
      /\ \A i, k \in 1..N : q[i] = q[k] => i = k
      /\ \A e \in PluggedDevices : \E i \in 1..N : q[i] = e
  BY DEF Bijection, Injection, Surjection, IsInjective
<1>3. \A i \in 1..N : q[i] \in PluggedDevices /\ q[i] \in Events /\ q[i].what = "connect"
  BY <1>1, <1>2
<1>4. q \in [1..N -> Events]
  BY <1>2, <1>3
<1>5. q \in Seq(Events) /\ Len(q) = N
  BY <1>4
<1>6. ASSUME NEW d \in Headsets, NEW c \in UsbCards
      PROVE  QueueTrue(q, {}, usb_plugged, d, c)
  <2> DEFINE Seen(i) == \E k \in 1..N : k <= i /\ For(q[k], d, c)
  <2> DEFINE t == [i \in 0..N |-> IF Seen(i) THEN 1 ELSE 0]
  <2>1. ASSUME NEW i \in 1..N, NEW k \in 1..N, For(q[i], d, c), For(q[k], d, c)
        PROVE  i = k
    <3>1. q[i] \in Events /\ q[k] \in Events /\ q[i].what = q[k].what
          /\ q[i].device = q[k].device /\ q[i].card = q[k].card
      BY <1>3, <2>1 DEF For
    <3>2. q[i] = q[k]
      BY <3>1 DEF Events
    <3> QED  BY <1>2, <3>2
  <2>2. ~Seen(0)
    OBVIOUS
  <2>3. ASSUME NEW i \in 1..N PROVE Seen(i) <=> Seen(i - 1) \/ For(q[i], d, c)
    <3>1. \A k \in 1..N : k <= i <=> k <= i - 1 \/ k = i
      OBVIOUS
    <3> QED  BY <3>1
  <2>4. ASSUME NEW i \in 1..N, For(q[i], d, c) PROVE ~Seen(i - 1)
    <3>1. \A k \in 1..N : k <= i - 1 => k # i
      OBVIOUS
    <3> QED  BY <2>1, <2>4, <3>1
  <2>5. Seen(N) <=> \E k \in 1..N : For(q[k], d, c)
    OBVIOUS
  <2>6. Seen(N) <=> Announced(d, usb_plugged[c])
    <3>1. (\E k \in 1..N : For(q[k], d, c)) <=> \E e \in PluggedDevices : For(e, d, c)
      BY <1>2
    <3> QED  BY <1>1, <2>5, <3>1
  <2> HIDE DEF Seen
  <2>7. t \in [0..N -> {0, 1}] /\ \A i \in 0..N : t[i] = 1 <=> Seen(i)
    OBVIOUS
  <2> HIDE DEF t
  <2>8. \A i \in 1..N : i - 1 \in 0..N /\ i \in 0..N
    OBVIOUS
  <2>9. \A i \in 0..N : t[i] \in {0, 1}
    BY <2>7
  <2>10. Told(t, q, d, c)
    <3>1. ASSUME NEW i \in 1..N, For(q[i], d, c)
          PROVE  (t[i] = 1 <=> q[i].what = "connect") /\ t[i - 1] # t[i]
      <4>1. Seen(i) /\ ~Seen(i - 1)
        BY <2>3, <2>4, <3>1
      <4> QED  BY <1>3, <2>7, <2>8, <4>1
    <3>2. ASSUME NEW i \in 1..N, ~For(q[i], d, c) PROVE t[i] = t[i - 1]
      <4>1. Seen(i) <=> Seen(i - 1)
        BY <2>3, <3>2
      <4> QED  BY <2>7, <2>8, <2>9, <4>1
    <3> QED  BY <1>5, <2>7, <3>1, <3>2 DEF Told
  <2>11. (t[Len(q)] = 1 <=> Announced(d, usb_plugged[c])) /\ 0 \in 0..N /\ N \in 0..N
    BY <1>5, <2>6, <2>7
  <2>12. NonePending(q, d, c) => EntryTrue({}, usb_plugged, d, c)
    <3>1. NonePending(q, d, c) => ~Announced(d, usb_plugged[c])
      BY <1>5, <2>5, <2>6 DEF NonePending, Seen
    <3> QED  BY <3>1 DEF EntryTrue, Known
  <2>13. ~Known({}, d, c)
    BY DEF Known
  <2> QED  BY <2>10, <2>11, <2>12, <2>13 DEF QueueTrue
<1> QED  BY <1>5, <1>6

LEMMA UsbInitKeeps ==
    ASSUME UsbInv, audio_extn_usb_init
    PROVE  UsbInv'
<1> DEFINE N == Cardinality(PluggedDevices)
<1>1. UsbTypes
  BY DEF UsbInv
<1>2. N \in Nat
  BY <1>1, PluggedDevicesFacts, FS_CardinalityType
<1>3. /\ usbmod' = "live" /\ usb_card_conf_list' = << >> /\ is_capture_supported' = FALSE
      /\ usb_events' \in Bijection(1..N, PluggedDevices) /\ usb_plugged' = usb_plugged
  BY DEF audio_extn_usb_init
<1> HIDE DEF N
<1>4. /\ usb_events' \in Seq(Events)
      /\ \A d \in Headsets : \A c \in UsbCards :
           QueueTrue(usb_events', {}, usb_plugged, d, c)
  <2> DEFINE q == usb_events'
  <2>1. q \in Bijection(1..N, PluggedDevices)
    BY <1>3
  <2> HIDE DEF q
  <2>2. /\ q \in Seq(Events)
        /\ \A d \in Headsets : \A c \in UsbCards : QueueTrue(q, {}, usb_plugged, d, c)
    BY <1>1, <1>2, <2>1, FirstAnnouncements
  <2> QED  BY <2>2 DEF q
<1>5. UsbTypes'
  <2>1. usb_plugged' \in [UsbCards -> Files]
    BY <1>1, <1>3 DEF UsbTypes
  <2>2. usb_card_conf_list' \in Seq(Entries)
    BY <1>3
  <2> QED  BY <1>3, <1>4, <2>1, <2>2 DEF UsbTypes
<1>6. Distinct(usb_card_conf_list)' /\ CaptureKnown'
  BY <1>3 DEF Distinct, CaptureKnown
<1>7. Range(usb_card_conf_list)' = {}
  BY <1>3 DEF Range
<1>8. QueuesTrue'
  <2>1. SUFFICES ASSUME NEW d \in Headsets, NEW c \in UsbCards
                 PROVE  QueueTrue(usb_events', Range(usb_card_conf_list)', usb_plugged', d, c)
    BY DEF QueuesTrue
  <2> QED  BY <1>3, <1>4, <1>7
<1> QED  BY <1>5, <1>6, <1>8 DEF UsbInv

LEMMA DeinitKeeps ==
    ASSUME UsbInv, audio_extn_usb_deinit
    PROVE  UsbInv'
<1>1. /\ usbmod' = "null" /\ usb_card_conf_list' = << >> /\ is_capture_supported' = FALSE
      /\ usb_events' = << >> /\ usb_plugged' = usb_plugged
  BY DEF audio_extn_usb_deinit
<1>2. UsbTypes'
  <2>1. usb_plugged' \in [UsbCards -> Files]
    BY <1>1 DEF UsbInv, UsbTypes
  <2>2. usb_card_conf_list' \in Seq(Entries) /\ usb_events' \in Seq(Events)
    BY <1>1
  <2> QED  BY <1>1, <2>1, <2>2 DEF UsbTypes
<1>3. Distinct(usb_card_conf_list)' /\ CaptureKnown' /\ QueuesTrue'
  BY <1>1 DEF Distinct, CaptureKnown, QueuesTrue
<1> QED  BY <1>2, <1>3 DEF UsbInv

\* A step that leaves the cards, the table and the queue alone.
LEMMA ViewUnchanged ==
    ASSUME UsbInv,
           UNCHANGED <<usbmod, usb_card_conf_list, is_capture_supported, usb_plugged,
                       usb_events>>
    PROVE  UsbInv'
<1>1. UsbTypes'
  BY DEF UsbInv, UsbTypes
<1>2. Distinct(usb_card_conf_list)' /\ CaptureKnown'
  BY DEF UsbInv, Distinct, CaptureKnown
<1>3. QueuesTrue'
  BY DEF UsbInv, QueuesTrue
<1> QED  BY <1>1, <1>2, <1>3 DEF UsbInv

LEMMA UsbStep == UsbInv /\ [UsbNext]_usbVars => UsbInv'
<1>1. SUFFICES ASSUME UsbInv, [UsbNext]_usbVars PROVE UsbInv'
  OBVIOUS
<1>2. ASSUME NEW c \in UsbCards, Unplug(c) PROVE UsbInv'
  BY <1>1, <1>2, UnplugKeeps
<1>3. ASSUME NEW c \in UsbCards, NEW f \in StreamFiles, Plug(c, f) PROVE UsbInv'
  BY <1>1, <1>3, PlugKeeps
<1>4. CASE Connect
  BY <1>1, <1>4, ConnectKeeps
<1>5. CASE Disconnect
  BY <1>1, <1>5, DisconnectKeeps
<1>6. ASSUME NEW on \in BOOLEAN, audio_extn_usb_enable_sidetone(on) PROVE UsbInv'
  <2>1. UNCHANGED <<usbmod, usb_card_conf_list, is_capture_supported, usb_plugged,
                    usb_events>>
    BY <1>6 DEF audio_extn_usb_enable_sidetone
  <2> QED  BY <1>1, <2>1, ViewUnchanged
<1>7. CASE audio_extn_usb_init
  BY <1>1, <1>7, UsbInitKeeps
<1>8. CASE audio_extn_usb_deinit
  BY <1>1, <1>8, DeinitKeeps
<1>9. CASE UNCHANGED usbVars
  <2>1. UNCHANGED <<usbmod, usb_card_conf_list, is_capture_supported, usb_plugged,
                    usb_events>>
    BY <1>9 DEF usbVars
  <2> QED  BY <1>1, <2>1, ViewUnchanged
<1> QED  BY <1>1, <1>2, <1>3, <1>4, <1>5, <1>6, <1>7, <1>8, <1>9 DEF UsbNext

\* Once every announcement is handled the table is what is plugged in.
LEMMA TableCurrent == UsbInv => CardsCurrent
<1>1. SUFFICES ASSUME UsbInv, usbmod = "live", usb_events = << >> PROVE CardsCurrent
  BY DEF CardsCurrent
<1> DEFINE cl == usb_card_conf_list
<1> DEFINE p == usb_plugged
<1> DEFINE cap(d, c) == usb_get_capability(Direction(d), p[c])
<1> DEFINE E(x) == [device |-> x[1], card |-> x[2], list |-> cap(x[1], x[2]).list]
<1> DEFINE Y == {y \in Headsets \X UsbCards : ~p[y[2]].accessory /\ cap(y[1], y[2]).ret}
<1> DEFINE R == Range(cl)
<1>2. cl \in Seq(Entries) /\ Distinct(cl) /\ UsbTypes
  BY <1>1 DEF UsbInv, UsbTypes
<1>3. DOMAIN cl = 1..Len(cl) /\ R = {cl[i] : i \in DOMAIN cl} /\ R \subseteq Entries
  BY <1>2, RangeFacts
<1>4. ASSUME NEW d \in Headsets, NEW c \in UsbCards
      PROVE  /\ Known(R, d, c) <=> ~p[c].accessory /\ cap(d, c).ret
             /\ \A e \in R : For(e, d, c) => e.list = cap(d, c).list
  <2>1. QueueTrue(usb_events, R, p, d, c)
    BY <1>1 DEF UsbInv, QueuesTrue
  <2>2. NonePending(usb_events, d, c)
    BY <1>1 DEF NonePending
  <2>3. EntryTrue(R, p, d, c)
    <3> HIDE DEF R, p
    <3> QED  BY <2>1, <2>2 DEF QueueTrue
  <2>4. cap(d, c).ret => p[c][Direction(d)] # << >>
    <3>1. IsFile(p[c])
      BY <1>2, PluggedFile
    <3>2. Direction(d) \in {"playback", "capture"}
      BY DEF Direction
    <3> HIDE DEF p
    <3> QED  BY <3>1, <3>2, CapabilityTyped
  <2> HIDE DEF R, p
  <2> QED  BY <2>3, <2>4 DEF EntryTrue, Announced
<1>5. \A i, k \in DOMAIN cl : i # k => cl[i].device # cl[k].device \/ cl[i].card # cl[k].card
  BY <1>2, <1>3 DEF Distinct, For
<1> HIDE DEF cap
<1>6. ASSUME NEW e \in R PROVE e \in {E(x) : x \in Y}
  <2>1. e \in Entries
    BY <1>3
  <2>2. /\ e.device \in Headsets /\ e.card \in UsbCards
        /\ e = [device |-> e.device, card |-> e.card, list |-> e.list]
    BY <2>1 DEF Entries
  <2>3. For(e, e.device, e.card) /\ Known(R, e.device, e.card)
    BY DEF For, Known
  <2>4. ~p[e.card].accessory /\ cap(e.device, e.card).ret
        /\ e.list = cap(e.device, e.card).list
    BY <1>4, <2>2, <2>3
  <2> DEFINE x == <<e.device, e.card>>
  <2>5. x \in Headsets \X UsbCards /\ x[1] = e.device /\ x[2] = e.card
    BY <2>2
  <2> HIDE DEF x, p, R
  <2>6. x \in Y
    BY <2>4, <2>5
  <2>7. e = E(x)
    BY <2>2, <2>4, <2>5
  <2> HIDE DEF Y, E
  <2> QED  BY <2>6, <2>7
<1>7. ASSUME NEW x \in Y PROVE E(x) \in R
  <2>1. x[1] \in Headsets /\ x[2] \in UsbCards /\ ~p[x[2]].accessory /\ cap(x[1], x[2]).ret
    BY DEF Y
  <2> HIDE DEF Y, p, R
  <2>2. PICK e \in R : For(e, x[1], x[2])
    BY <1>4, <2>1 DEF Known
  <2>3. e \in Entries /\ e.list = cap(x[1], x[2]).list
    BY <1>3, <1>4, <2>1, <2>2
  <2>4. e = [device |-> e.device, card |-> e.card, list |-> e.list]
    BY <2>3 DEF Entries
  <2>5. e = E(x)
    BY <2>2, <2>3, <2>4 DEF For
  <2> QED  BY <2>2, <2>5
<1>8. R = {E(x) : x \in Y}
  <2> HIDE DEF R, Y, E
  <2> QED  BY <1>6, <1>7
<1> QED  BY <1>3, <1>5, <1>8 DEF CardsCurrent, cap, Headsets

LEMMA InvView == UsbInv => UsbViewTrue
<1>1. SUFFICES ASSUME UsbInv PROVE UsbViewTrue
  OBVIOUS
<1> DEFINE cl == usb_card_conf_list
<1>2. cl \in Seq(Entries)
  BY <1>1 DEF UsbInv, UsbTypes
<1>3. DOMAIN cl = 1..Len(cl) /\ Range(cl) = {cl[i] : i \in 1..Len(cl)}
  BY <1>2, RangeFacts
<1>4. \A i \in DOMAIN cl : cl[i].list \in Seq(Altsets) /\ cl[i].list # << >>
  <2> HIDE DEF cl
  <2> QED  BY <1>2, <1>3, EntryFields
<1>5. CaptureHasCard
  <2>1. is_capture_supported => \E e \in Range(cl) : e.device = "IN_USB_HEADSET"
    BY <1>1 DEF UsbInv, CaptureKnown
  <2>2. is_capture_supported => \E i \in DOMAIN cl : cl[i].device = "IN_USB_HEADSET"
    BY <1>3, <2>1
  <2> QED  BY <1>4, <2>2 DEF CaptureHasCard, usb_input_device
<1>6. ConfigOffered
  <2>1. ASSUME NEW i \in DOMAIN cl, NEW asked \in Streams PROVE Offered(cl[i].list, asked)
    BY <1>4, PolicyOffers
  <2> QED  BY <2>1 DEF ConfigOffered, Offered
<1> QED  BY <1>1, <1>2, <1>5, <1>6, TableCurrent, AnswersWithin, AnswersInterval DEF UsbViewTrue

\* The HAL's copy of the USB cards is true and what it chooses from it exists, for
\* any cards and any stream files: however announcements are delayed, the table is
\* what is plugged in once they are handled (usb.c:1084, 1164), a configuration to
\* open is the best one altset of the card offers (usb.c:872), and it stays within
\* what the framework is told the direction can do.
THEOREM UsbViewStaysTrue == UsbSpec => []UsbViewTrue
<1>1. UsbInit => UsbInv
  BY UsbStart
<1>2. UsbInv /\ [UsbNext]_usbVars => UsbInv'
  BY UsbStep
<1>3. UsbInv => UsbViewTrue
  BY InvView
<1> QED  BY <1>1, <1>2, <1>3, PTL DEF UsbSpec

=============================================================================
