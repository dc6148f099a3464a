------------------------------- MODULE MCParts -------------------------------
(***************************************************************************)
(* Seven parts of the system that share no state, checked in one run: the  *)
(* part that moves is chosen at the start and the others stand still, so   *)
(* the states are the sum of theirs and not the product.                   *)
(***************************************************************************)
EXTENDS HwcRoute, AudioRoute, HwcLayers, PlatformInfo, UsbAudio, PeripheralClient,
        SndMonitor, TLC

VARIABLE part

---------------------------------------------------------------------------
(* AudioRoute: five controls, one of each type and one that is not          *)
(* supported; two documents.  The first shares controls between paths,     *)
(* directly and nested, and names a control, a path and an enum value that *)
(* do not exist; the second repeats a path, nests a path in itself, and    *)
(* gives too few, too many and out-of-range values.                        *)

MCCtlType == [vol |-> "INT", sw |-> "BOOL", mux |-> "ENUM", eq |-> "BYTE", iec |-> "IEC958"]

MCNumValues == [vol |-> 2, sw |-> 1, mux |-> 2, eq |-> 1, iec |-> 1]

Ctl(c, id, v) ==
  <<[tag |-> "ctl", name |-> c, id |-> id, value |-> v], [tag |-> "end"]>>

Nested(p) == <<[tag |-> "path", name |-> p], [tag |-> "end"]>>

Path(p, body) == <<[tag |-> "path", name |-> p]>> \o body \o <<[tag |-> "end"]>>

Doc(body) == <<[tag |-> "mixer"]>> \o body \o <<[tag |-> "end"]>>

MCDocuments ==
  {Doc(Ctl("sw", NoId, <<0>>) \o Ctl("vol", 1, <<3>>) \o Ctl("vol", 2, <<9>>)
       \o Ctl("iec", NoId, <<1>>) \o Ctl("gone", NoId, <<1>>)
       \o Path("spk", Ctl("sw", NoId, <<1>>) \o Ctl("vol", 1, <<5>>))
       \o Path("hs", Ctl("mux", NoId, <<2>>) \o Nested("spk") \o Nested("none"))
       \o Path("mix", Ctl("vol", NoId, <<4, 6>>) \o Nested("spk")
                      \o Ctl("mux", NoId, <<7>>) \o Ctl("iec", NoId, <<1>>))),
   Doc(Ctl("mux", NoId, <<1>>) \o Ctl("vol", NoId, <<3>>) \o Ctl("eq", NoId, <<300>>)
       \o Path("spk", Ctl("sw", NoId, <<>>) \o Ctl("eq", 0, <<7>>) \o Ctl("eq", 3, <<8>>))
       \o Path("spk", Ctl("mux", NoId, <<2>>))
       \o Path("hs", Nested("hs") \o Ctl("eq", NoId, <<9>>) \o Nested("spk")
                     \o Ctl("sw", 0, <<1>>)))}

---------------------------------------------------------------------------
(* UsbAudio: a headset with altsets of several widths and intervals; one    *)
(* with a missing line, an unknown rate and a line the buffer cut; one     *)
(* whose last altset has no rate; an accessory.                            *)

Alt(fmt, ch, rates) == [Format |-> fmt, Channels |-> ch, Rates |-> rates]

Every(us) == [Interval |-> us]

StreamFile(play, capt, acc) == [playback |-> play, capture |-> capt, accessory |-> acc]

MCStreamFiles ==
  {StreamFile(<<Alt(16, 2, <<44100, 48000, 96000>>) @@ Every(125),
                Alt(24, 3, <<48000, 44100>>),
                Alt(24, 5, <<96000, 176400>>) @@ Every(250),
                Alt(24, 5, <<64000>>)>>,
              <<Alt(16, 1, <<8000, 44100, 48000>>)>>, FALSE),
   StreamFile(<<[Format |-> 32, Rates |-> <<11025>>],
                Alt(16, 2, <<48000>>) @@ Every(NoEol)>>,
              <<Alt(16, 2, <<44100>>), [Format |-> 16]>>, FALSE),
   StreamFile(<<Alt(16, 2, <<48000>>), Alt(16, 2, << >>)>>, << >>, FALSE),
   StreamFile(<<Alt(16, 1, <<44100, 48000>>)>>, << >>, TRUE)}

---------------------------------------------------------------------------
(* SndMonitor: the card in use, another card, a codec processor and a       *)
(* switch.                                                                 *)

MCSmSources == {SndCard, [kind |-> "card", num |-> 1], [kind |-> "cpe", num |-> 0],
                [kind |-> "dev", num |-> 0]}

---------------------------------------------------------------------------

PartsInit ==
  /\ part \in {"frames", "route", "layers", "info", "usb", "peripheral", "monitor"}
  /\ Init /\ ArInit /\ HlInit /\ PiInit /\ UsbInit /\ PmInit /\ SmInit
  \* One initial state for the parts that stand still.
  /\ part # "route" => \A c \in Ctls : mixer[c] = Zeroes(c)
  /\ part # "monitor" => sm_actual[SndCard] = "ONLINE"

PartsNext ==
  \/ /\ part = "frames" /\ Next
     /\ UNCHANGED <<part, arVars, hlVars, piVars, usbVars, pmVars, smVars>>
  \/ /\ part = "route" /\ ArNext
     /\ UNCHANGED <<part, vars, hlVars, piVars, usbVars, pmVars, smVars>>
  \/ /\ part = "layers" /\ HlNext
     /\ UNCHANGED <<part, vars, arVars, piVars, usbVars, pmVars, smVars>>
  \/ /\ part = "info" /\ PiNext
     /\ UNCHANGED <<part, vars, arVars, hlVars, usbVars, pmVars, smVars>>
  \/ /\ part = "usb" /\ UsbNext
     /\ UNCHANGED <<part, vars, arVars, hlVars, piVars, pmVars, smVars>>
  \/ /\ part = "peripheral" /\ PmNext
     /\ UNCHANGED <<part, vars, arVars, hlVars, piVars, usbVars, smVars>>
  \/ /\ part = "monitor" /\ SmNext
     /\ UNCHANGED <<part, vars, arVars, hlVars, piVars, usbVars, pmVars>>

partsVars == <<part, vars, arVars, hlVars, piVars, usbVars, pmVars, smVars>>

PartsSpec == PartsInit /\ [][PartsNext]_partsVars

=============================================================================
