-------------------------- MODULE PeripheralClient --------------------------
(***************************************************************************)
(* The Peripheral Manager client library (peripheral-manager/              *)
(* peripheral_client.cpp).  A user registers for a peripheral, votes for   *)
(* it with connect and disconnect, is told of its state on a binder        *)
(* thread, acknowledges, and unregisters, which deletes the client.  The   *)
(* client's lock is held across a transaction and in three short sections, *)
(* but not while the user's notifier runs, so the notifier may             *)
(* acknowledge; the delete does not take it.                               *)
(*                                                                         *)
(* The manager is external: it answers one transaction at a time, may      *)
(* refuse a registration, may die and be restarted under a new number, and *)
(* sends notifications one way, so they arrive late and the callback they  *)
(* arrive at keeps a plain pointer to its client.                          *)
(***************************************************************************)
EXTENDS Integers, Sequences, FiniteSets

CONSTANTS
  MaxClients,   \* bound: registrations attempted
  MaxManagers,  \* bound: incarnations of the manager
  MaxInFlight   \* bound: notifications not yet delivered

Clients == 1..MaxClients

VARIABLES
  pm_manager,   \* the running incarnation, 0 while there is none
  pm_started,   \* incarnations started
  pm_table,     \* clients the manager has registered
  pm_votes,     \* of those, the ones that are connected
  pm_inflight,  \* clients to notify, oldest first
  pm_object,    \* of each client: "none", "live" or "freed"
  mService,     \* of each client: the incarnation its handle refers to, or 0
  mLock,        \* of each client: "free", "user" or "binder"
  pm_handle,    \* the handle the user holds, or 0
  pm_user,      \* [pc, op, client, service]: what the user's thread is doing
  pm_binder,    \* [pc, client]: what the binder thread is doing
  pm_crashed    \* a freed client was used

pmVars == <<pm_manager, pm_started, pm_table, pm_votes, pm_inflight, pm_object,
            mService, mLock, pm_handle, pm_user, pm_binder, pm_crashed>>

Ops == {"connect", "disconnect", "acknowledge", "unregister"}

Idle == [pc |-> "idle", op |-> "none", client |-> 0, service |-> 0]

---------------------------------------------------------------------------
(* The manager.                                                            *)

ManagerStarts ==
  /\ pm_manager = 0 /\ pm_started < MaxManagers
  /\ pm_manager' = pm_started + 1 /\ pm_started' = pm_started + 1
  /\ UNCHANGED <<pm_table, pm_votes, pm_inflight, pm_object, mService, mLock,
                 pm_handle, pm_user, pm_binder, pm_crashed>>

ManagerDies ==
  /\ pm_manager # 0
  /\ pm_manager' = 0 /\ pm_table' = {} /\ pm_votes' = {}
  /\ UNCHANGED <<pm_started, pm_inflight, pm_object, mService, mLock,
                 pm_handle, pm_user, pm_binder, pm_crashed>>

Notify(c) ==
  /\ c \in pm_table /\ Len(pm_inflight) < MaxInFlight
  /\ pm_inflight' = Append(pm_inflight, c)
  /\ UNCHANGED <<pm_manager, pm_started, pm_table, pm_votes, pm_object, mService,
                 mLock, pm_handle, pm_user, pm_binder, pm_crashed>>

\* What a transaction does when it reaches the incarnation it was meant for;
\* to a dead one it fails and changes nothing.
Transact(op, c) ==
  LET reaches == mService[c] = pm_manager /\ pm_manager # 0 /\ c \in pm_table
  IN /\ pm_table' = IF reaches /\ op = "unregister" THEN pm_table \ {c} ELSE pm_table
     /\ pm_votes' = IF ~reaches THEN pm_votes
                    ELSE IF op = "connect" THEN pm_votes \cup {c}
                    ELSE IF op = "acknowledge" THEN pm_votes
                    ELSE pm_votes \ {c}

---------------------------------------------------------------------------
(* pm_client_register.                                                     *)

\* A new client; without a manager it is deleted at once, and the user may try
\* again with another.
RegisterBegin(c) ==
  /\ pm_user = Idle /\ pm_handle = 0 /\ pm_object[c] = "none"
  /\ \A d \in Clients : d < c => pm_object[d] # "none"
  /\ IF pm_manager = 0
     THEN pm_object' = [pm_object EXCEPT ![c] = "freed"] /\ UNCHANGED pm_user
     ELSE /\ pm_object' = [pm_object EXCEPT ![c] = "live"]
          /\ pm_user' = [pc |-> "registering", op |-> "register", client |-> c,
                         service |-> pm_manager]
  /\ UNCHANGED <<pm_manager, pm_started, pm_table, pm_votes, pm_inflight, mService,
                 mLock, pm_handle, pm_binder, pm_crashed>>

\* Accepted: the manager has the callback from here on, although the client has
\* not stored its answer.
RegisterAccepted ==
  /\ pm_user.pc = "registering" /\ pm_manager = pm_user.service
  /\ pm_table' = pm_table \cup {pm_user.client}
  /\ pm_user' = [pm_user EXCEPT !.pc = "accepted"]
  /\ UNCHANGED <<pm_manager, pm_started, pm_votes, pm_inflight, pm_object, mService,
                 mLock, pm_handle, pm_binder, pm_crashed>>

\* Refused, or the manager died before or after it accepted and the answer never
\* came: the client is deleted.
RegisterFailed ==
  /\ \/ pm_user.pc = "registering"
     \/ pm_user.pc = "accepted" /\ pm_manager # pm_user.service
  /\ pm_object' = [pm_object EXCEPT ![pm_user.client] = "freed"]
  /\ pm_user' = Idle
  /\ UNCHANGED <<pm_manager, pm_started, pm_table, pm_votes, pm_inflight, mService,
                 mLock, pm_handle, pm_binder, pm_crashed>>

\* The user's thread takes its client's lock and goes on at pc.
UserLocks(pc) ==
  /\ mLock[pm_user.client] = "free"
  /\ mLock' = [mLock EXCEPT ![pm_user.client] = "user"]
  /\ pm_user' = [pm_user EXCEPT !.pc = pc]
  /\ UNCHANGED <<pm_manager, pm_started, pm_table, pm_votes, pm_inflight, pm_object,
                 mService, pm_handle, pm_binder, pm_crashed>>

RegisterLock == pm_user.pc = "accepted" /\ UserLocks("storing")

\* mService and mClientId are stored under the lock; the handle is returned.
RegisterStore ==
  /\ pm_user.pc = "storing"
  /\ mService' = [mService EXCEPT ![pm_user.client] = pm_user.service]
  /\ mLock' = [mLock EXCEPT ![pm_user.client] = "free"]
  /\ pm_handle' = pm_user.client
  /\ pm_user' = Idle
  /\ UNCHANGED <<pm_manager, pm_started, pm_table, pm_votes, pm_inflight, pm_object,
                 pm_binder, pm_crashed>>

---------------------------------------------------------------------------
(* The calls on a handle.                                                  *)

\* transactClientId and acknowledge take the lock; without a service they would
\* return at once, but a handle has one until its own thread drops it.  mDead is
\* never set.
CallBegin(op) ==
  /\ pm_user = Idle /\ pm_handle # 0 /\ mLock[pm_handle] = "free"
  /\ mService[pm_handle] # 0
  /\ mLock' = [mLock EXCEPT ![pm_handle] = "user"]
  /\ pm_user' = [pc |-> "transact", op |-> op, client |-> pm_handle, service |-> 0]
  /\ UNCHANGED <<pm_manager, pm_started, pm_table, pm_votes, pm_inflight, pm_object,
                 mService, pm_handle, pm_binder, pm_crashed>>

CallEnd ==
  /\ pm_user.pc = "transact"
  /\ Transact(pm_user.op, pm_user.client)
  /\ mLock' = [mLock EXCEPT ![pm_user.client] = "free"]
  /\ pm_user' = IF pm_user.op = "unregister" THEN [pm_user EXCEPT !.pc = "clearing"]
                ELSE Idle
  /\ UNCHANGED <<pm_manager, pm_started, pm_inflight, pm_object, mService, pm_handle,
                 pm_binder, pm_crashed>>

\* Mutant: the service is dropped without the lock.
UnregisterLockNot ==
  /\ pm_user.pc = "clearing"
  /\ pm_user' = [pm_user EXCEPT !.pc = "cleared"]
  /\ UNCHANGED <<pm_manager, pm_started, pm_table, pm_votes, pm_inflight, pm_object,
                 mService, mLock, pm_handle, pm_binder, pm_crashed>>

\* unregister takes the lock again to drop the service.
UnregisterLock == pm_user.pc = "clearing" /\ UserLocks("cleared")

UnregisterClear ==
  /\ pm_user.pc = "cleared"
  /\ mService' = [mService EXCEPT ![pm_user.client] = 0]
  /\ mLock' = [mLock EXCEPT ![pm_user.client] = "free"]
  /\ pm_user' = [pm_user EXCEPT !.pc = "deleting"]
  /\ UNCHANGED <<pm_manager, pm_started, pm_table, pm_votes, pm_inflight, pm_object,
                 pm_handle, pm_binder, pm_crashed>>

\* pm_client_unregister deletes the client, whoever else is using it.
UnregisterDelete ==
  /\ pm_user.pc = "deleting"
  /\ pm_object' = [pm_object EXCEPT ![pm_user.client] = "freed"]
  /\ pm_handle' = 0 /\ pm_user' = Idle
  /\ UNCHANGED <<pm_manager, pm_started, pm_table, pm_votes, pm_inflight, mService,
                 mLock, pm_binder, pm_crashed>>

---------------------------------------------------------------------------
(* The binder thread.                                                      *)

\* PeripheralCallback::onTransact: mClient is used whether or not it exists.
onTransact ==
  /\ pm_binder.pc = "idle" /\ pm_inflight # << >>
  /\ pm_inflight' = Tail(pm_inflight)
  /\ pm_binder' = [pc |-> "notify", client |-> Head(pm_inflight)]
  /\ UNCHANGED <<pm_manager, pm_started, pm_table, pm_votes, pm_object, mService,
                 mLock, pm_handle, pm_user, pm_crashed>>

\* The binder thread takes the lock of the client it serves and goes on at pc;
\* it lets go of a lock and goes on at pc.
BinderLocks(pc) ==
  /\ mLock[pm_binder.client] = "free" /\ pm_object[pm_binder.client] # "freed"
  /\ mLock' = [mLock EXCEPT ![pm_binder.client] = "binder"]
  /\ pm_binder' = [pm_binder EXCEPT !.pc = pc]

BinderUnlocks == mLock' = [mLock EXCEPT ![pm_binder.client] = "free"]

BinderIdle == pm_binder' = [pc |-> "idle", client |-> 0]

UnchangedByNotify ==
  UNCHANGED <<pm_manager, pm_started, pm_table, pm_votes, pm_inflight, pm_object,
              mService, pm_handle, pm_user>>

\* notify: the lock is held while the notifier is copied, and no longer.
NotifyLock ==
  /\ pm_binder.pc = "notify" /\ BinderLocks("copying")
  /\ UnchangedByNotify /\ UNCHANGED pm_crashed

NotifyCopy ==
  /\ pm_binder.pc = "copying" /\ pm_object[pm_binder.client] # "freed"
  /\ BinderUnlocks
  /\ pm_binder' = [pm_binder EXCEPT !.pc = "notifier"]
  /\ UnchangedByNotify /\ UNCHANGED pm_crashed

\* The client is gone before the thread took its lock, or under the lock:
\* undefined, the call is lost or the process dies.
UseFreed ==
  /\ pm_binder.pc \in {"notify", "copying", "ack", "acking"}
  /\ pm_object[pm_binder.client] = "freed"
  /\ BinderUnlocks /\ BinderIdle
  /\ pm_crashed' \in BOOLEAN
  /\ UnchangedByNotify

\* The user's notifier returns without a word, or has nothing to acknowledge with.
NotifierReturns ==
  /\ pm_binder.pc = "notifier"
  /\ BinderIdle
  /\ UnchangedByNotify /\ UNCHANGED <<mLock, pm_crashed>>

\* pm_client_event_acknowledge from the notifier, with the handle the user has.
AckCall ==
  /\ pm_binder.pc = "notifier" /\ pm_handle = pm_binder.client
  /\ pm_binder' = [pm_binder EXCEPT !.pc = "ack"]
  /\ UnchangedByNotify /\ UNCHANGED <<mLock, pm_crashed>>

AckLock ==
  /\ pm_binder.pc = "ack" /\ BinderLocks("acking")
  /\ UnchangedByNotify /\ UNCHANGED pm_crashed

\* Without a service the acknowledgement fails at once.
AckRefused ==
  /\ pm_binder.pc = "acking" /\ pm_object[pm_binder.client] # "freed"
  /\ mService[pm_binder.client] = 0
  /\ BinderUnlocks /\ BinderIdle
  /\ UnchangedByNotify /\ UNCHANGED pm_crashed

AckBegin ==
  /\ pm_binder.pc = "acking" /\ pm_object[pm_binder.client] # "freed"
  /\ mService[pm_binder.client] # 0
  /\ pm_binder' = [pm_binder EXCEPT !.pc = "transact"]
  /\ UnchangedByNotify /\ UNCHANGED <<mLock, pm_crashed>>

AckEnd ==
  /\ pm_binder.pc = "transact"
  /\ Transact("acknowledge", pm_binder.client)
  /\ BinderUnlocks /\ BinderIdle
  /\ UNCHANGED <<pm_manager, pm_started, pm_inflight, pm_object, mService, pm_handle,
                 pm_user, pm_crashed>>

PmInit ==
  /\ pm_manager = 0 /\ pm_started = 0 /\ pm_table = {} /\ pm_votes = {}
  /\ pm_inflight = << >> /\ pm_object = [c \in Clients |-> "none"]
  /\ mService = [c \in Clients |-> 0] /\ mLock = [c \in Clients |-> "free"]
  /\ pm_handle = 0 /\ pm_user = Idle /\ pm_binder = [pc |-> "idle", client |-> 0]
  /\ pm_crashed = FALSE

PmNext ==
  /\ ~pm_crashed
  /\ \/ ManagerStarts \/ ManagerDies \/ \E c \in Clients : Notify(c)
     \/ \E c \in Clients : RegisterBegin(c)
     \/ RegisterAccepted \/ RegisterFailed \/ RegisterLock \/ RegisterStore
     \/ \E op \in Ops : CallBegin(op)
     \/ CallEnd \/ UnregisterLock \/ UnregisterClear \/ UnregisterDelete
     \/ onTransact \/ NotifyLock \/ NotifyCopy \/ UseFreed \/ NotifierReturns
     \/ AckCall \/ AckLock \/ AckRefused \/ AckBegin \/ AckEnd

PmSpec == PmInit /\ [][PmNext]_pmVars

---------------------------------------------------------------------------
(* Properties.                                                             *)

\* The manager never holds a registration of a client that has been deleted, so
\* it starts no new notification or vote for one: a failed registration leaves
\* nothing behind, and unregister reaches the manager before the delete.
NoLeakedRegistration ==
  /\ \A c \in pm_table : pm_object[c] = "live"
  /\ pm_votes \subseteq pm_table

\* A handle outside unregister names a live client whose manager, while it is
\* the one that accepted it, still has it registered.
HandleNamesRegistration ==
  pm_handle # 0 /\ pm_user.op # "unregister" =>
    /\ pm_object[pm_handle] = "live" /\ mService[pm_handle] # 0
    /\ mService[pm_handle] = pm_manager => pm_handle \in pm_table

\* The lock of a client is held by the one thread that is in a section of it,
\* never while the notifier runs, so that the notifier may acknowledge.  The user's
\* thread deletes no client it has locked and none with a transaction under way: an
\* acknowledgement keeps its client and its service to the end.  The delete takes
\* no lock, so a client may be freed under the binder thread's, but only while that
\* thread copies the notifier or is about to be turned away for want of a service.
LockDiscipline ==
  /\ \A c \in Clients :
       /\ mLock[c] = "user" <=>
            pm_user.client = c /\ pm_user.pc \in {"storing", "transact", "cleared"}
       /\ mLock[c] = "binder" <=>
            pm_binder.client = c /\ pm_binder.pc \in {"copying", "acking", "transact"}
       /\ mLock[c] = "user" => pm_object[c] = "live"
  /\ pm_binder.pc = "acking" =>
       pm_object[pm_binder.client] = "live" \/ mService[pm_binder.client] = 0
  /\ pm_binder.pc = "transact" =>
       pm_object[pm_binder.client] = "live" /\ mService[pm_binder.client] # 0

\* Registrations, handles and locks agree with the clients that exist.
ClientsSound == NoLeakedRegistration /\ HandleNamesRegistration /\ LockDiscipline

=============================================================================
