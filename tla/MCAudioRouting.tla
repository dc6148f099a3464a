--------------------------- MODULE MCAudioRouting ---------------------------
(***************************************************************************)
(* AudioRouting for TLC.  Three uses of the HAL, each rich in one respect: *)
(* two outputs with a combination of devices; two inputs with changing     *)
(* sources; two voice sessions that are put on hold as well.               *)
(***************************************************************************)
EXTENDS AudioRouting

Outs == [outputs |-> {"LOW_LATENCY", "VOIP"}, inputs |-> {"RECORD"},
         sessions |-> <<"VOICE_CALL">>,
         modes |-> {"NORMAL", "IN_CALL", "IN_COMMUNICATION"},
         out_devices |-> {{"EARPIECE"}, {"SCO"}, {"SPEAKER", "SCO"}},
         in_devices |-> {"MIC"}, sources |-> {"MIC"},
         call_states |-> {"INACTIVE", "ACTIVE"}]

Ins == [outputs |-> {"LOW_LATENCY"}, inputs |-> {"RECORD", "RECORD_VOIP"},
        sessions |-> <<"VOICE_CALL">>,
        modes |-> {"NORMAL", "IN_CALL", "IN_COMMUNICATION"},
        out_devices |-> {{"SPEAKER"}},
        in_devices |-> {"MIC", "SCO_MIC"},
        sources |-> {"MIC", "VOICE_COMMUNICATION"},
        call_states |-> {"INACTIVE", "ACTIVE"}]

Calls == [outputs |-> {"LOW_LATENCY"}, inputs |-> {},
          sessions |-> <<"VOICE_CALL", "VOICE2_CALL">>,
          modes |-> {"NORMAL", "RINGTONE", "IN_CALL", "IN_COMMUNICATION"},
          out_devices |-> {{"EARPIECE"}, {"WIRED_HEADSET"}},
          in_devices |-> {}, sources |-> {},
          call_states |-> {"INACTIVE", "ACTIVE", "LOCAL_HOLD"}]

AllSetups == {Outs, Ins, Calls}
=============================================================================
