--------------------------- MODULE OffloadStream ---------------------------
(***************************************************************************)
(* One compress-offload output stream of the audio HAL (audio_hw.c): the   *)
(* framework's playback thread writes, pauses, drains, flushes and closes  *)
(* it, and the stream's callback thread makes the blocking calls on the    *)
(* compress handle and reports their completion.                           *)
(*                                                                         *)
(* The two threads share the fields below under out->lock.  The callback   *)
(* thread gives the lock up around a blocking call, and marks that with    *)
(* offload_thread_blocked; stop_compressed_output_l waits on out->cond     *)
(* until the mark is gone.  out->pre_lock only decides who gets the lock   *)
(* next, and appears as fairness.  One field, send_new_metadata, is also   *)
(* written without the lock.                                               *)
(*                                                                         *)
(* The framework has set the callback; one playback thread makes all calls *)
(* of a stream.  The ERROR command is sent for the sound-card monitor,     *)
(* which this build leaves out.                                            *)
(*                                                                         *)
(* The compress device is external.  It starts once data were written,     *)
(* pauses when it runs, resumes when it is paused, and may refuse any of   *)
(* these, and a stop, with an error, upon which it stays as it is; the     *)
(* code never looks at the result.  A blocking call ends once the data is  *)
(* played or the device is stopped, and may last while it does not run.    *)
(***************************************************************************)
EXTENDS Naturals, Sequences

CONSTANT MaxCmds    \* bound on the length of the command list

ASSUME MaxCmdsAssumption == MaxCmds \in Nat \ {0}

VARIABLES
    standby, offload_state, playback_started, send_new_metadata,
    offload_cmd_list, offload_thread_blocked,   \* fields of struct stream_out
    compr,      \* out->compr and the state of the device behind it
    lock,       \* the owner of out->lock
    thread,     \* where the callback thread is
    cmd,        \* the command it has taken
    client,     \* where the playback thread is
    purpose,    \* the operation the playback thread is stopping the device for
    freed,      \* history: the handle of the blocking call under way was closed
    titled,     \* history: this session's gapless metadata has been sent
    owed,       \* history: events the client waits for
    apart       \* history: what set the stream's state and the device's apart: a call
                \* the device refused, or the callback thread's late reset

stream == <<standby, offload_state, playback_started, compr>>
worker == <<offload_thread_blocked, thread, cmd>>
caller == <<client, purpose>>
history == <<freed, titled, owed, apart>>
vars == <<stream, send_new_metadata, offload_cmd_list, worker, lock, caller, history>>

Commands == {"WAIT_FOR_BUFFER", "PARTIAL_DRAIN", "DRAIN", "EXIT"}
Event(c) == IF c = "WAIT_FOR_BUFFER" THEN "WRITE_READY" ELSE "DRAIN_READY"

TypeOK ==
    /\ standby \in BOOLEAN /\ playback_started \in BOOLEAN
    /\ send_new_metadata \in BOOLEAN /\ offload_thread_blocked \in BOOLEAN
    /\ freed \in BOOLEAN /\ titled \in BOOLEAN
    /\ apart \in {"none", "start", "pause", "resume", "stop", "reset"}
    /\ offload_state \in {"IDLE", "PLAYING", "PAUSED"}
    /\ compr \in {"NULL", "setup", "prepared", "running", "paused"}
    /\ offload_cmd_list \in Seq(Commands)
    /\ lock \in {"free", "thread", "client"}
    /\ thread \in {"created", "loop", "asleep", "woken", "call", "return", "ended"}
    /\ cmd \in Commands
    /\ client \in {"idle", "titling", "writing", "stopping", "waiting", "woken",
                   "closing", "joining", "closed"}
    /\ purpose \in {"flush", "standby", "close", "destroy"}
    /\ owed \subseteq {"WRITE_READY", "DRAIN_READY"}

\* adev_open_output_stream has created the callback thread.
Init ==
    /\ standby = TRUE /\ offload_state = "IDLE" /\ playback_started = FALSE
    /\ send_new_metadata = TRUE
    /\ offload_cmd_list = <<>> /\ offload_thread_blocked = FALSE
    /\ compr = "NULL" /\ lock = "free"
    /\ thread = "created" /\ cmd = "EXIT"
    /\ client = "idle" /\ purpose = "flush"
    /\ freed = FALSE /\ titled = FALSE /\ owed = {} /\ apart = "none"
-----------------------------------------------------------------------------
(* The callback thread: offload_thread_loop. *)

\* pthread_cond_signal(&out->cond): only the playback thread ever waits on it.
SignalClient == client' = IF client = "waiting" THEN "woken" ELSE client

\* The thread's own first section resets the state, whenever it gets to run.
ThreadStart ==
    /\ thread = "created" /\ lock = "free"
    /\ lock' = "thread" /\ thread' = "loop"
    /\ offload_state' = "IDLE" /\ playback_started' = FALSE
    /\ apart' = IF offload_state # "IDLE" THEN "reset" ELSE apart
    /\ UNCHANGED <<standby, compr, send_new_metadata, offload_cmd_list,
                   offload_thread_blocked, cmd, caller, freed, titled, owed>>

ThreadSleep ==
    /\ thread = "loop" /\ offload_cmd_list = <<>>
    /\ thread' = "asleep" /\ lock' = "free"
    /\ UNCHANGED <<stream, send_new_metadata, offload_cmd_list,
                   offload_thread_blocked, cmd, caller, history>>

ThreadWake ==
    /\ thread = "woken" /\ lock = "free"
    /\ thread' = "loop" /\ lock' = "thread"
    /\ UNCHANGED <<stream, send_new_metadata, offload_cmd_list,
                   offload_thread_blocked, cmd, caller, history>>

\* EXIT: leave the loop, free what is left of the list and end.
ThreadExit ==
    /\ thread = "loop" /\ offload_cmd_list # <<>> /\ Head(offload_cmd_list) = "EXIT"
    /\ SignalClient
    /\ offload_cmd_list' = <<>>
    /\ thread' = "ended" /\ lock' = "free"
    /\ UNCHANGED <<stream, send_new_metadata, offload_thread_blocked, cmd, purpose,
                   history>>

\* Any other command: dropped when the handle is gone, else the thread marks
\* itself blocked and gives the lock up.
ThreadTake ==
    /\ thread = "loop" /\ offload_cmd_list # <<>> /\ Head(offload_cmd_list) # "EXIT"
    /\ offload_cmd_list' = Tail(offload_cmd_list)
    /\ \/ /\ compr = "NULL"
          /\ SignalClient
          /\ UNCHANGED <<worker, lock>>
       \/ /\ compr # "NULL"
          /\ offload_thread_blocked' = TRUE
          /\ cmd' = Head(offload_cmd_list)
          /\ thread' = "call" /\ lock' = "free"
          /\ UNCHANGED client
    /\ UNCHANGED <<stream, send_new_metadata, purpose, history>>

\* The blocking call ends.  After a partial drain the thread asks for new
\* metadata, without the lock.
CallReturns ==
    /\ thread = "call"
    /\ thread' = "return"
    /\ send_new_metadata' = (send_new_metadata \/ cmd = "PARTIAL_DRAIN")
    /\ UNCHANGED <<stream, offload_cmd_list, offload_thread_blocked, cmd, lock,
                   caller, history>>

\* Mutant: the playback thread is not signalled.
ThreadReportSilent ==
    /\ thread = "return" /\ lock = "free"
    /\ thread' = "loop" /\ lock' = "thread"
    /\ offload_thread_blocked' = FALSE
    /\ owed' = owed \ {Event(cmd)}
    /\ freed' = FALSE
    /\ UNCHANGED <<stream, send_new_metadata, offload_cmd_list, cmd, caller,
                   titled, apart>>

\* With the lock again: unmark, signal, call back, next command.
ThreadReport ==
    /\ thread = "return" /\ lock = "free"
    /\ thread' = "loop" /\ lock' = "thread"
    /\ offload_thread_blocked' = FALSE
    /\ SignalClient
    /\ owed' = owed \ {Event(cmd)}
    /\ freed' = FALSE
    /\ UNCHANGED <<stream, send_new_metadata, offload_cmd_list, cmd, purpose,
                   titled, apart>>

OffloadThread ==
    \/ ThreadStart \/ ThreadSleep \/ ThreadWake \/ ThreadExit \/ ThreadTake
    \/ CallReturns \/ ThreadReport
-----------------------------------------------------------------------------
(* The playback thread.  An operation runs under the lock to its end, so it  *)
(* is one step, unless it waits or something outside the lock can interfere. *)

\* Mutant: the callback thread is not signalled.
send_offload_cmd_silent(c) ==
    /\ offload_cmd_list' = Append(offload_cmd_list, c)
    /\ UNCHANGED worker

send_offload_cmd_l(c) ==
    /\ offload_cmd_list' = Append(offload_cmd_list, c)
    /\ thread' = IF thread = "asleep" THEN "woken" ELSE thread
    /\ UNCHANGED <<offload_thread_blocked, cmd>>

Called == client = "idle" /\ lock = "free"

\* The first half of out_write: leave standby (start_output_stream opens the
\* handle) and send the metadata, if they are new; the flag is cleared after.
WriteBegins ==
    /\ Called
    /\ lock' = "client"
    /\ client' = IF send_new_metadata THEN "titling" ELSE "writing"
    /\ standby' = FALSE
    /\ compr' = IF standby THEN "setup" ELSE compr
    /\ titled' = (send_new_metadata \/ (titled /\ ~standby))
    /\ UNCHANGED <<offload_state, playback_started, send_new_metadata,
                   offload_cmd_list, worker, purpose, freed, owed, apart>>

\* start_output_stream failed: back to standby, out_on_error finds nothing to
\* do, and the write claims success.
WriteFailsToStart ==
    /\ Called /\ standby
    /\ UNCHANGED vars

\* compress_start: a device that has its data runs, unless it refuses; one that
\* runs or is paused already refuses.
compress_start ==
    \/ compr \in {"setup", "prepared"} /\ compr' = "running" /\ apart' = "none"
    \/ compr \in {"setup", "prepared"} /\ compr' = "prepared" /\ apart' = "start"
    \/ compr \in {"running", "paused"} /\ compr' = compr
       /\ apart' = IF compr = "paused" THEN "resume" ELSE "none"

\* The second half: a flag that was found set is cleared, the data written; a
\* short write asks for a callback, the first data start the device.
WriteEnds(result) ==
    /\ client \in {"titling", "writing"}
    /\ send_new_metadata' = (send_new_metadata /\ client = "writing")
    /\ result = "none" => compr \in {"prepared", "running", "paused"}
    /\ IF result \in {"none", "short"}
       THEN /\ Len(offload_cmd_list) < MaxCmds
            /\ send_offload_cmd_l("WAIT_FOR_BUFFER")
            /\ owed' = owed \cup {"WRITE_READY"}
       ELSE UNCHANGED <<offload_cmd_list, worker, owed>>
    /\ IF result \in {"short", "all"} /\ ~playback_started
       THEN /\ compress_start
            /\ playback_started' = TRUE /\ offload_state' = "PLAYING"
       ELSE UNCHANGED <<compr, apart, playback_started, offload_state>>
    /\ lock' = "free" /\ client' = "idle"
    /\ UNCHANGED <<standby, purpose, freed, titled>>

\* compress_pause and compress_resume: the device goes from one state to the
\* other, or refuses; in any other state it refuses.  One that never started
\* stays so.
compress_turn(call, from, to) ==
    \/ compr = from /\ compr' = to /\ apart' = "none"
    \/ compr = from /\ compr' = from /\ apart' = call
    \/ compr # from /\ compr' = compr
       /\ apart' = IF compr = to THEN "none" ELSE apart

out_pause ==
    /\ Called /\ compr # "NULL" /\ offload_state = "PLAYING"
    /\ compress_turn("pause", "running", "paused")
    /\ offload_state' = "PAUSED"
    /\ UNCHANGED <<standby, playback_started, send_new_metadata,
                   offload_cmd_list, worker, lock, caller, freed, titled, owed>>

out_resume ==
    /\ Called /\ compr # "NULL" /\ offload_state = "PAUSED"
    /\ compress_turn("resume", "paused", "running")
    /\ offload_state' = "PLAYING"
    /\ UNCHANGED <<standby, playback_started, send_new_metadata,
                   offload_cmd_list, worker, lock, caller, freed, titled, owed>>

offload_cmd(type) == IF type = "EARLY_NOTIFY" THEN "PARTIAL_DRAIN" ELSE "DRAIN"

\* Accepted in every state; a stream in standby has nothing to drain and the
\* thread drops the command.
out_drain(type) ==
    /\ Called /\ Len(offload_cmd_list) < MaxCmds
    /\ send_offload_cmd_l(offload_cmd(type))
    /\ owed' = IF compr = "NULL" THEN owed ELSE owed \cup {"DRAIN_READY"}
    /\ UNCHANGED <<stream, send_new_metadata, lock, caller, freed, titled, apart>>

\* compress_stop: without a handle it is not called; a device that refuses goes
\* on as before.
compress_stop ==
    \/ compr = "NULL" /\ compr' = "NULL" /\ apart' = "none"
    \/ compr # "NULL" /\ compr' = "setup" /\ apart' = "none"
    \/ compr \in {"prepared", "running", "paused"} /\ compr' = compr /\ apart' = "stop"

\* Mutants: a field is not reset.
stop_keeps_state ==
    /\ send_new_metadata' = TRUE
    /\ compress_stop
    /\ lock' = "client" /\ client' = "stopping"
    /\ titled' = FALSE /\ owed' = {}
    /\ UNCHANGED <<offload_state, playback_started, offload_cmd_list, worker, freed>>
stop_keeps_metadata ==
    /\ offload_state' = "IDLE" /\ playback_started' = FALSE
    /\ compress_stop
    /\ lock' = "client" /\ client' = "stopping"
    /\ titled' = FALSE /\ owed' = {}
    /\ UNCHANGED <<send_new_metadata, offload_cmd_list, worker, freed>>

\* stop_compressed_output_l, up to its wait.
stop_compressed_output_l ==
    /\ offload_state' = "IDLE" /\ playback_started' = FALSE
    /\ send_new_metadata' = TRUE
    /\ compress_stop
    /\ lock' = "client" /\ client' = "stopping"
    /\ titled' = FALSE /\ owed' = {}
    /\ UNCHANGED <<offload_cmd_list, worker, freed>>

out_flush ==
    /\ Called
    /\ purpose' = "flush" /\ UNCHANGED standby
    /\ stop_compressed_output_l

out_standby(why) ==
    /\ Called /\ ~standby
    /\ purpose' = why /\ standby' = TRUE
    /\ stop_compressed_output_l

\* destroy_offload_callback_thread: adev_close_output_stream calls it after
\* out_standby.
destroy_offload_callback_thread ==
    /\ client \in {"idle", "closing"} /\ lock = "free" /\ standby
    /\ purpose' = "destroy" /\ UNCHANGED standby
    /\ stop_compressed_output_l

\* Mutant: the handle is closed without a look at the callback thread.
StopNeedNotWait == FALSE

\* The wait of stop_compressed_output_l: pthread_cond_wait in a loop.
StopMustWait == compr # "NULL" /\ offload_thread_blocked

StopWaits ==
    /\ client = "stopping" /\ StopMustWait
    /\ client' = "waiting" /\ lock' = "free"
    /\ UNCHANGED <<stream, send_new_metadata, offload_cmd_list, worker, purpose,
                   history>>

StopWoken ==
    /\ client = "woken" /\ lock = "free"
    /\ client' = "stopping" /\ lock' = "client"
    /\ UNCHANGED <<stream, send_new_metadata, offload_cmd_list, worker, purpose,
                   history>>

\* What the operation does once the device is quiet: nothing more for a flush;
\* standby closes the handle; the end of the callback thread is requested.
Stopped ==
    /\ client = "stopping" /\ ~StopMustWait
    /\ \/ /\ purpose = "flush"
          /\ client' = "idle" /\ lock' = "free"
          /\ UNCHANGED <<compr, freed, apart, offload_cmd_list, worker, purpose>>
       \/ /\ purpose \in {"standby", "close"}
          /\ compr' = "NULL" /\ apart' = "none"
          /\ freed' = (compr # "NULL" /\ thread \in {"call", "return"})
          /\ client' = IF purpose = "standby" THEN "idle" ELSE "closing"
          /\ lock' = "free"
          /\ UNCHANGED <<offload_cmd_list, worker, purpose>>
       \/ /\ purpose = "destroy"
          /\ send_offload_cmd_l("EXIT")
          /\ client' = "joining" /\ lock' = "free"
          /\ UNCHANGED <<compr, freed, apart, purpose>>
    /\ UNCHANGED <<standby, offload_state, playback_started, send_new_metadata, titled,
                   owed>>

\* pthread_join, then the stream is freed.
Joined ==
    /\ client = "joining" /\ thread = "ended"
    /\ client' = "closed"
    /\ UNCHANGED <<stream, send_new_metadata, offload_cmd_list, worker, lock, purpose,
                   history>>

StopSteps == StopWaits \/ StopWoken \/ Stopped \/ Joined

PlaybackThread ==
    \/ WriteBegins \/ WriteFailsToStart
    \/ \E r \in {"none", "short", "all", "error"} : WriteEnds(r)
    \/ out_pause \/ out_resume
    \/ \E t \in {"EARLY_NOTIFY", "ALL"} : out_drain(t)
    \/ out_flush \/ \E why \in {"standby", "close"} : out_standby(why)
    \/ destroy_offload_callback_thread
    \/ StopSteps

\* out_get_render_position and out_get_presentation_position, from any thread
\* of the framework: a look at the handle under the lock.
GetPosition == client # "closed" /\ lock = "free" /\ UNCHANGED vars

\* The stream is gone.
Gone == client = "closed" /\ UNCHANGED vars

Next == OffloadThread \/ PlaybackThread \/ GetPosition \/ Gone

Spec == Init /\ [][Next]_vars
-----------------------------------------------------------------------------
(* Fairness.  Both threads are scheduled, an operation under way goes on,    *)
(* and out->pre_lock lets the callback thread have the lock between two      *)
(* operations.  A call on a device that plays or is stopped comes to an end; *)
(* nothing makes a client call again.                                        *)

Fairness ==
    /\ SF_vars(ThreadStart) /\ SF_vars(ThreadWake) /\ SF_vars(ThreadReport)
    /\ WF_vars(ThreadSleep \/ ThreadExit \/ ThreadTake)
    /\ WF_vars(CallReturns /\ compr \notin {"prepared", "paused"})
    /\ WF_vars(\E r \in {"all", "error"} : WriteEnds(r))
    /\ WF_vars(StopWaits \/ Stopped \/ Joined) /\ SF_vars(StopWoken)
    /\ SF_vars(client = "closing" /\ destroy_offload_callback_thread)

FairSpec == Spec /\ Fairness
-----------------------------------------------------------------------------
(* Properties. *)

\* The handle is never closed under a blocking call of the callback thread:
\* stop_compressed_output_l waits until the thread is out of it, also when the
\* thread goes straight on to the next queued command.
HandleAlive == ~freed /\ (thread = "call" => compr # "NULL")

\* The stream's state and the device's drift apart only by a call that the device
\* refused, whose result the code ignores, or by the callback thread's reset of a
\* stream that plays already.  After a refused pause or resume they are one call
\* apart and the next resume or pause, or an accepted stop, brings them together;
\* a device that refused to start stays unstarted; a refused stop and a reset
\* leave the stream idle.  Otherwise they agree.
StateAgrees ==
    CASE apart = "none" -> /\ compr = "paused" <=> offload_state = "PAUSED"
                           /\ compr = "running" <=> offload_state = "PLAYING"
      [] apart = "pause" -> compr = "running" /\ offload_state = "PAUSED"
      [] apart = "resume" -> compr = "paused" /\ offload_state = "PLAYING"
      [] apart = "start" -> compr = "prepared" /\ offload_state # "IDLE"
      [] OTHER -> compr \notin {"NULL", "setup"} /\ offload_state = "IDLE"

\* A device that plays was told the gapless metadata of this session first,
\* however often the stream was flushed or closed and opened before; one that
\* refused to stop still plays the last session's data.
MetadataSent == compr \in {"running", "paused"} => titled \/ apart = "stop"

\* Every flush, standby and close comes to its end, whatever the callback
\* thread was blocked in and whatever is left in the command list, unless a
\* device that does not play refuses to stop.
StopReturns ==
    client \in {"stopping", "closing", "joining"}
        ~> \/ client \in {"idle", "closed"}
           \/ apart = "stop" /\ compr \in {"prepared", "paused"}

\* A client that was told to wait for room, or that asked for a drain, is
\* called back, unless it pauses the stream or stops it, or the device never
\* started.
RequestsAnswered ==
    \A e \in {"WRITE_READY", "DRAIN_READY"} :
        e \in owed ~> (e \notin owed \/ compr \in {"prepared", "paused"})
=============================================================================
