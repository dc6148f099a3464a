------------------------------ MODULE UsbAudio ------------------------------
(***************************************************************************)
(* USB sound cards in the audio HAL (audio/qcom/hal/audio_extn/usb.c).     *)
(* The framework announces a card when it is plugged in; the HAL reads the *)
(* card's /proc/asound/cardN/stream0, keeps the alternate settings it      *)
(* offers, and from then on answers from that copy: the configuration to   *)
(* open, the rates it may advertise, whether there is a microphone.        *)
(* Announcements arrive in order but late: by the time one is handled the  *)
(* card may be gone, or another one may have its number.                   *)
(*                                                                         *)
(* A stream file is its two sections, Playback before Capture as the       *)
(* kernel writes them, each a sequence of altsets; an altset has the lines *)
(* it has, any of which may be missing.  A Rates line is the numbers on    *)
(* it: strtok_r ends the string after the first one before "continuous" is *)
(* looked for, so "44100 - 96000 (continuous)" reads as its two ends.      *)
(* An Interval is in microseconds; NoEol is a line the read buffer cut.    *)
(***************************************************************************)
EXTENDS Integers, Sequences, FiniteSets, FiniteSetsExt, Functions

CONSTANTS
  UsbCards,     \* ALSA card numbers
  StreamFiles,  \* contents /proc/asound/cardN/stream0 may have
  MaxPlugs,     \* bound: cards plugged in
  MaxInits      \* bound: platform_init calls

\* Card numbers are finitely many.  The lines of an altset that are there have a
\* width (0 for an unknown format), at least one channel, numbers, an interval.
ASSUME UsbAssumption ==
  /\ IsFiniteSet(UsbCards)
  /\ \A f \in StreamFiles :
       /\ f.accessory \in BOOLEAN
       /\ \A t \in {"playback", "capture"} :
            /\ f[t] \in Seq({f[t][i] : i \in DOMAIN f[t]})
            /\ \A i \in DOMAIN f[t] :
                 /\ "Format" \in DOMAIN f[t][i] => f[t][i].Format \in Nat
                 /\ "Channels" \in DOMAIN f[t][i] => f[t][i].Channels \in Nat \ {0}
                 /\ "Rates" \in DOMAIN f[t][i] => f[t][i].Rates \in Seq(Nat)
                 /\ "Interval" \in DOMAIN f[t][i] => f[t][i].Interval \in Nat

\* No card; a card without either section reads the same.
NoFile == [playback |-> << >>, capture |-> << >>, accessory |-> FALSE]
NoEol == 0

\* supported_sample_rates
supported_sample_rates == {192000, 176400, 96000, 88200, 64000, 48000, 44100}
DEFAULT_SERVICE_INTERVAL_US == 1000

UsbDevices == {"OUT_USB_HEADSET", "IN_USB_HEADSET", "OUT_USB_ACCESSORY"}

VARIABLES
  usbmod,               \* "null" or "live"
  usb_card_conf_list,
  is_capture_supported,
  supported_sample_rates_mask,
  dev_token,            \* the card each AFE port was last pointed at
  usb_sidetone,         \* cards whose own sidetone switch is on
  usb_plugged,          \* what is plugged in, by card number
  usb_events,           \* announcements not yet handled
  usb_plugs, usb_inits

usbVars == <<usbmod, usb_card_conf_list, is_capture_supported,
             supported_sample_rates_mask, dev_token, usb_sidetone,
             usb_plugged, usb_events, usb_plugs, usb_inits>>

usb_output_device(device) == device = "OUT_USB_HEADSET"
usb_input_device(device) == device = "IN_USB_HEADSET"
usb_valid_device(device) == usb_output_device(device) \/ usb_input_device(device)

Direction(device) == IF device = "IN_USB_HEADSET" THEN "capture" ELSE "playback"

\* What a loop over s that keeps the members at some places leaves, in their order.
Kept(s, places) ==
  LET kept[i \in 0..Len(s)] ==
        IF i = 0 THEN << >>
        ELSE IF i \in places THEN Append(kept[i - 1], s[i]) ELSE kept[i - 1]
  IN kept[Len(s)]

---------------------------------------------------------------------------
(* Reading a stream file.                                                  *)

\* Every altset of the file from the section on: a field is searched for from
\* its altset to the end of the file, the other section included.
LinesFrom(type, file) ==
  IF type = "playback" THEN file.playback \o file.capture ELSE file.capture

HasField(lines, i, f) == \E j \in i..Len(lines) : f \in DOMAIN lines[j]

FieldAt(lines, i, f) ==
  lines[Min({j \in i..Len(lines) : f \in DOMAIN lines[j]})][f]

\* usb_get_service_interval: a cut line leaves the default.
usb_get_service_interval(lines, i) ==
  IF HasField(lines, i, "Interval") /\ FieldAt(lines, i, "Interval") # NoEol
  THEN FieldAt(lines, i, "Interval") ELSE DEFAULT_SERVICE_INTERVAL_US

\* usb_get_sample_rates: the known rates of the line, in its order.
usb_get_sample_rates(line) ==
  Kept(line, {i \in DOMAIN line : line[i] \in supported_sample_rates})

\* One round of the loop.  "ret" is whether the last of the two helpers called
\* returned zero, which is what the loop's caller sees.
ParseAltset(type, lines, i, acc) ==
  IF \E f \in {"Format", "Channels", "Rates"} : ~HasField(lines, i, f) THEN acc
  ELSE IF FieldAt(lines, i, "Rates") = << >> THEN [ret |-> FALSE, list |-> acc.list]
  ELSE [ret |-> ~(HasField(lines, i, "Interval") /\ FieldAt(lines, i, "Interval") = NoEol),
        list |-> Append(acc.list,
                   [bit_width |-> FieldAt(lines, i, "Format"),
                    channel_count |-> FieldAt(lines, i, "Channels"),
                    rates |-> usb_get_sample_rates(FieldAt(lines, i, "Rates")),
                    service_interval_us |-> usb_get_service_interval(lines, i),
                    type |-> type])]

\* usb_get_capability: ret starts as snprintf's length, which is no success either.
usb_get_capability(type, file) ==
  LET lines == LinesFrom(type, file)
      n == Len(file[type])
      upTo[i \in 0..n] == IF i = 0 THEN [ret |-> FALSE, list |-> << >>]
                          ELSE ParseAltset(type, lines, i, upTo[i - 1])
  IN upTo[n]

RatesOf(list) == UNION {{list[i].rates[j] : j \in DOMAIN list[i].rates} : i \in DOMAIN list}

---------------------------------------------------------------------------
(* Choosing a configuration.                                               *)

AbsSub(a, b) == IF a > b THEN a - b ELSE b - a

usb_get_best_bit_width(list) ==
  LET best[i \in 0..Len(list)] ==
        IF i = 0 THEN 0
        ELSE IF best[i - 1] = 0 \/ list[i].bit_width > best[i - 1]
        THEN list[i].bit_width ELSE best[i - 1]
  IN best[Len(list)]

\* The channel loop's body without the exact match.
CloserChannels(stream_ch, ch, candidate) ==
  IF \/ candidate = 0
     \/ AbsSub(stream_ch, ch) < AbsSub(stream_ch, candidate)
     \/ AbsSub(stream_ch, ch) = AbsSub(stream_ch, candidate) /\ ch > candidate
  THEN ch ELSE candidate

usb_get_best_match_for_channels(list, bit_width, stream_ch) ==
  LET best[i \in 0..Len(list)] ==
        IF i = 0 THEN 0
        ELSE IF list[i].bit_width # bit_width THEN best[i - 1]
        ELSE CloserChannels(stream_ch, list[i].channel_count, best[i - 1])
  IN IF \E i \in DOMAIN list : /\ list[i].bit_width = bit_width
                               /\ list[i].channel_count = stream_ch
     THEN stream_ch ELSE best[Len(list)]

usb_sample_rate_multiple(rate, base) == rate % base = 0

usb_find_sample_rate_candidate(base, stream_rate, usb_rate, candidate) ==
  LET cur == usb_sample_rate_multiple(candidate, base)
      new == usb_sample_rate_multiple(usb_rate, base)
      closer == \/ AbsSub(stream_rate, usb_rate) < AbsSub(stream_rate, candidate)
                \/ /\ AbsSub(stream_rate, usb_rate) = AbsSub(stream_rate, candidate)
                   /\ usb_rate > candidate
  IN IF (~cur /\ new) \/ (cur = new /\ closer) THEN usb_rate ELSE candidate

\* The inner loop over one altset's rates.
BestRateOf(rates, stream_rate) ==
  LET base == IF usb_sample_rate_multiple(stream_rate, 8000) THEN 8000 ELSE 11025
      best[i \in 0..Len(rates)] ==
        IF i = 0 THEN 0
        ELSE IF best[i - 1] = 0 THEN rates[i]
        ELSE usb_find_sample_rate_candidate(base, stream_rate, rates[i], best[i - 1])
  IN best[Len(rates)]

\* The altsets the rate loop does not skip; any = no service interval check.
Matching(list, bit_width, channel_count, interval, any) ==
  {i \in DOMAIN list : /\ list[i].bit_width = bit_width
                       /\ list[i].channel_count = channel_count
                       /\ any \/ list[i].service_interval_us = interval}

\* An exact match ends the search; the candidate starts over at every altset.
usb_get_best_match_for_sample_rate(list, bit_width, channel_count, rate, interval, any) ==
  LET match == Matching(list, bit_width, channel_count, interval, any)
  IN IF \E i \in match : \E j \in DOMAIN list[i].rates : list[i].rates[j] = rate THEN rate
     ELSE IF match = {} THEN 48000
     ELSE BestRateOf(list[Max(match)].rates, rate)

usb_audio_backend_apply_policy(list, stream) ==
  IF list = << >> THEN [bit_width |-> 16, channel_count |-> 2, rate |-> 48000]
  ELSE LET bw == usb_get_best_bit_width(list)
           ch == usb_get_best_match_for_channels(list, bw, stream.channel_count)
       IN [bit_width |-> bw, channel_count |-> ch,
           rate |-> usb_get_best_match_for_sample_rate(list, bw, ch, stream.rate, 0, TRUE)]

\* audio_extn_usb_is_config_supported: the first card of the direction decides.
audio_extn_usb_is_config_supported(stream, type) ==
  LET cards == {i \in DOMAIN usb_card_conf_list :
                  Direction(usb_card_conf_list[i].device) = type}
  IN IF cards = {} THEN stream
     ELSE usb_audio_backend_apply_policy(usb_card_conf_list[Min(cards)].list, stream)

\* The altsets of one interval on the first card of the list, whatever its
\* direction.
AltsetsForInterval(type, interval) ==
  IF usb_card_conf_list = << >> THEN {}
  ELSE {a \in {usb_card_conf_list[1].list[k] : k \in DOMAIN usb_card_conf_list[1].list} :
          a.type = type /\ a.service_interval_us = interval}

\* audio_extn_usb_altset_for_service_interval: the widest altset of the
\* interval; rate 0 asks for the lowest, and {} stands for -1.
audio_extn_usb_altset_for_service_interval(type, interval) ==
  LET alts == AltsetsForInterval(type, interval)
      bw == Max({a.bit_width : a \in alts})
      ch == Max({a.channel_count : a \in {b \in alts : b.bit_width = bw}})
      rate == usb_get_best_match_for_sample_rate(usb_card_conf_list[1].list, bw, ch, 0,
                                                 interval, FALSE)
  IN IF alts = {} THEN {}
     ELSE IF bw = 0 \/ rate = 0 THEN {}
     ELSE {[bit_width |-> bw, channel_count |-> ch, rate |-> rate]}

\* audio_extn_usb_find_service_interval: of the first card too; ULONG_MAX and 1
\* stand for none.
audio_extn_usb_find_service_interval(min, type) ==
  LET all == IF usb_card_conf_list = << >> THEN {}
             ELSE {usb_card_conf_list[1].list[i].service_interval_us :
                     i \in {k \in DOMAIN usb_card_conf_list[1].list :
                              usb_card_conf_list[1].list[k].type = type}}
  IN {i \in all : \A k \in all : IF min THEN i <= k ELSE i >= k}

\* The largest value of a field over every card of a direction.
Largest(type, field, least) ==
  LET cards == {i \in DOMAIN usb_card_conf_list :
                  Direction(usb_card_conf_list[i].device) = type}
      all == {least} \cup
             UNION {{usb_card_conf_list[i].list[k][field] :
                       k \in DOMAIN usb_card_conf_list[i].list} : i \in cards}
  IN Max(all)

audio_extn_usb_get_max_channels(type) == Largest(type, "channel_count", 1)

audio_extn_usb_get_max_bit_width(type) == Largest(type, "bit_width", 16)

---------------------------------------------------------------------------
(* The framework and the cards.                                            *)

\* What a plugged card is announced as.
DevicesOf(file) ==
  IF file.accessory THEN <<"OUT_USB_ACCESSORY">>
  ELSE (IF file.playback = << >> THEN << >> ELSE <<"OUT_USB_HEADSET">>) \o
       (IF file.capture = << >> THEN << >> ELSE <<"IN_USB_HEADSET">>)

Announce(what, card, file) ==
  LET devices == DevicesOf(file)
  IN [i \in DOMAIN devices |-> [what |-> what, device |-> devices[i], card |-> card]]

Plug(card, file) ==
  /\ usb_plugged[card] = NoFile /\ usb_plugs < MaxPlugs
  /\ usb_plugs' = usb_plugs + 1
  /\ usb_plugged' = [usb_plugged EXCEPT ![card] = file]
  /\ usb_events' = IF usbmod = "live" THEN usb_events \o Announce("connect", card, file)
                   ELSE usb_events
  /\ UNCHANGED <<usbmod, usb_card_conf_list, is_capture_supported,
                 supported_sample_rates_mask, dev_token, usb_sidetone, usb_inits>>

Unplug(card) ==
  /\ usb_plugged[card] # NoFile
  /\ usb_plugged' = [usb_plugged EXCEPT ![card] = NoFile]
  /\ usb_sidetone' = usb_sidetone \ {card}
  /\ usb_events' = IF usbmod = "live"
                   THEN usb_events \o Announce("disconnect", card, usb_plugged[card])
                   ELSE usb_events
  /\ UNCHANGED <<usbmod, usb_card_conf_list, is_capture_supported,
                 supported_sample_rates_mask, dev_token, usb_plugs, usb_inits>>

---------------------------------------------------------------------------
(* Adding and removing.                                                    *)

\* Mutant: one card of a kind is taken for another.
Cached_by_device(device, card) ==
  \E i \in DOMAIN usb_card_conf_list : usb_card_conf_list[i].device = device

Cached(device, card) ==
  \E i \in DOMAIN usb_card_conf_list : /\ usb_card_conf_list[i].device = device
                                       /\ usb_card_conf_list[i].card = card

\* The rates of every altset that got as far as its Rates line are advertised,
\* whether or not the card is added.  usb_get_sidetone_mixer turns the card's
\* own sidetone off.
audio_extn_usb_add_device(device, card) ==
  LET type == Direction(device)
      cap == usb_get_capability(type, usb_plugged[card])
  IN IF ~usb_valid_device(device) \/ Cached(device, card)
     THEN UNCHANGED <<usb_card_conf_list, is_capture_supported,
                      supported_sample_rates_mask, dev_token, usb_sidetone>>
     ELSE /\ supported_sample_rates_mask' =
               [supported_sample_rates_mask EXCEPT ![type] = @ \cup RatesOf(cap.list)]
          /\ usb_card_conf_list' =
               IF cap.ret THEN Append(usb_card_conf_list,
                                      [device |-> device, card |-> card, list |-> cap.list])
               ELSE usb_card_conf_list
          /\ dev_token' = IF cap.ret THEN [dev_token EXCEPT ![type] = card] ELSE dev_token
          /\ is_capture_supported' = (is_capture_supported \/ (cap.ret /\ type = "capture"))
          /\ usb_sidetone' = IF cap.ret /\ type = "playback" THEN usb_sidetone \ {card}
                             ELSE usb_sidetone

\* Whatever the card, the direction's rates and the microphone are forgotten.
audio_extn_usb_remove_device(device, card) ==
  IF ~usb_valid_device(device)
  THEN UNCHANGED <<usb_card_conf_list, is_capture_supported, supported_sample_rates_mask>>
  ELSE /\ usb_card_conf_list' =
            Kept(usb_card_conf_list,
                 {i \in DOMAIN usb_card_conf_list : \/ usb_card_conf_list[i].device # device
                                                   \/ usb_card_conf_list[i].card # card})
       /\ is_capture_supported' = (is_capture_supported /\ ~usb_input_device(device))
       /\ supported_sample_rates_mask' =
            [supported_sample_rates_mask EXCEPT ![Direction(device)] = {}]

Connect ==
  /\ usbmod = "live" /\ usb_events # << >> /\ Head(usb_events).what = "connect"
  /\ audio_extn_usb_add_device(Head(usb_events).device, Head(usb_events).card)
  /\ usb_events' = Tail(usb_events)
  /\ UNCHANGED <<usbmod, usb_plugged, usb_plugs, usb_inits>>

Disconnect ==
  /\ usbmod = "live" /\ usb_events # << >> /\ Head(usb_events).what = "disconnect"
  /\ audio_extn_usb_remove_device(Head(usb_events).device, Head(usb_events).card)
  /\ usb_events' = Tail(usb_events)
  /\ UNCHANGED <<usbmod, dev_token, usb_sidetone, usb_plugged, usb_plugs, usb_inits>>

\* The first output card is the one told (every output card is taken to have a
\* sidetone control), if it is still there to be told: a mixer of an unplugged
\* card changes nothing.
audio_extn_usb_enable_sidetone(enable) ==
  LET outputs == {i \in DOMAIN usb_card_conf_list :
                    usb_output_device(usb_card_conf_list[i].device)}
      card == usb_card_conf_list[Min(outputs)].card
  IN /\ usbmod = "live" /\ outputs # {}
     /\ usb_sidetone' = IF enable /\ usb_plugged[card] # NoFile THEN usb_sidetone \cup {card}
                        ELSE usb_sidetone \ {card}
     /\ UNCHANGED <<usbmod, usb_card_conf_list, is_capture_supported, usb_events,
                    supported_sample_rates_mask, dev_token, usb_plugged, usb_plugs, usb_inits>>

\* Every device of every plugged card.
PluggedDevices ==
  UNION {Range(Announce("connect", c, usb_plugged[c])) : c \in UsbCards}

\* The framework announces what is plugged to a HAL it has just opened, in some
\* order.  The masks are static and keep what an earlier instance put there.
audio_extn_usb_init ==
  /\ usbmod = "null" /\ usb_inits < MaxInits
  /\ usbmod' = "live" /\ usb_inits' = usb_inits + 1
  /\ usb_card_conf_list' = << >> /\ is_capture_supported' = FALSE
  /\ usb_events' \in Bijection(1..Cardinality(PluggedDevices), PluggedDevices)
  /\ UNCHANGED <<supported_sample_rates_mask, dev_token, usb_sidetone, usb_plugged, usb_plugs>>

audio_extn_usb_deinit ==
  /\ usbmod = "live"
  /\ usbmod' = "null"
  /\ usb_card_conf_list' = << >> /\ is_capture_supported' = FALSE /\ usb_events' = << >>
  /\ UNCHANGED <<supported_sample_rates_mask, dev_token, usb_sidetone, usb_plugged,
                 usb_plugs, usb_inits>>

UsbInit ==
  /\ usbmod = "null" /\ usb_card_conf_list = << >> /\ is_capture_supported = FALSE
  /\ supported_sample_rates_mask = [t \in {"playback", "capture"} |-> {}]
  /\ dev_token = [t \in {"playback", "capture"} |-> 0]
  /\ usb_sidetone = {} /\ usb_plugged = [c \in UsbCards |-> NoFile]
  /\ usb_events = << >> /\ usb_plugs = 0 /\ usb_inits = 0

UsbNext ==
  \/ \E c \in UsbCards : Unplug(c) \/ \E f \in StreamFiles : Plug(c, f)
  \/ Connect \/ Disconnect
  \/ \E on \in BOOLEAN : audio_extn_usb_enable_sidetone(on)
  \/ audio_extn_usb_init \/ audio_extn_usb_deinit

UsbSpec == UsbInit /\ [][UsbNext]_usbVars

---------------------------------------------------------------------------
(* Properties.                                                             *)

\* What the HAL believes once it has handled every announcement is what is
\* plugged in: one entry for each announced direction whose section can be read,
\* with the altsets of the card that has the number now.
CardsCurrent ==
  usbmod = "live" /\ usb_events = << >> =>
    /\ \A i, k \in DOMAIN usb_card_conf_list :
         i # k => \/ usb_card_conf_list[i].device # usb_card_conf_list[k].device
                  \/ usb_card_conf_list[i].card # usb_card_conf_list[k].card
    /\ {usb_card_conf_list[i] : i \in DOMAIN usb_card_conf_list} =
       {[device |-> x[1], card |-> x[2],
         list |-> usb_get_capability(Direction(x[1]), usb_plugged[x[2]]).list] :
          x \in {y \in {"OUT_USB_HEADSET", "IN_USB_HEADSET"} \X UsbCards :
                    /\ ~usb_plugged[y[2]].accessory
                    /\ usb_get_capability(Direction(y[1]), usb_plugged[y[2]]).ret}}

\* A microphone is reported only while some input card is known, and a known card
\* always has an altset to open, so the fixed 48 kHz stereo answer for an empty
\* list is never given.
CaptureHasCard ==
  /\ is_capture_supported =>
       \E i \in DOMAIN usb_card_conf_list : usb_input_device(usb_card_conf_list[i].device)
  /\ \A i \in DOMAIN usb_card_conf_list : usb_card_conf_list[i].list # << >>

Streams == [bit_width : {16}, channel_count : {1, 2, 4}, rate : {8000, 44100, 48000, 88200}]

\* a is at least as good an answer to a stream's rate as b.
AsGoodRate(stream_rate, a, b) ==
  LET base == IF stream_rate % 8000 = 0 THEN 8000 ELSE 11025
  IN \/ a % base = 0 /\ b % base # 0
     \/ /\ (a % base = 0) = (b % base = 0)
        /\ AbsSub(stream_rate, a) <= AbsSub(stream_rate, b)
        /\ AbsSub(stream_rate, a) = AbsSub(stream_rate, b) => a >= b

\* The configuration a card is opened with is one altset of that card, with that
\* width, channel count and rate together: the widest, the nearest channel count
\* of that width, and no rate of that altset suits the stream better.  What the
\* stream asks for is kept when the widest altsets offer it.  Only an altset
\* without a known rate gives rate 0.
ConfigOffered ==
  \A i \in DOMAIN usb_card_conf_list : \A stream \in Streams :
    LET list == usb_card_conf_list[i].list
        c == usb_audio_backend_apply_policy(list, stream)
        same == {k \in DOMAIN list : list[k].bit_width = c.bit_width}
        alts == {k \in same : list[k].channel_count = c.channel_count}
    IN /\ \A k \in DOMAIN list : list[k].bit_width <= c.bit_width
       /\ \A k \in same : AbsSub(stream.channel_count, list[k].channel_count) >=
                          AbsSub(stream.channel_count, c.channel_count)
       /\ \E k \in alts :
            IF list[k].rates = << >> THEN c.rate = 0
            ELSE /\ \E j \in DOMAIN list[k].rates : list[k].rates[j] = c.rate
                 /\ \A j \in DOMAIN list[k].rates :
                      AsGoodRate(stream.rate, c.rate, list[k].rates[j])
       /\ \A k \in alts : \A j \in DOMAIN list[k].rates :
            list[k].rates[j] = stream.rate => c.rate = stream.rate

\* What a stream is opened with stays within what the framework was told the
\* direction can do, although one is answered from the first card and the other
\* from all of them.
WithinAdvertised ==
  \A i \in DOMAIN usb_card_conf_list : \A stream \in Streams :
    LET type == Direction(usb_card_conf_list[i].device)
        c == audio_extn_usb_is_config_supported(stream, type)
    IN /\ c.bit_width <= audio_extn_usb_get_max_bit_width(type)
       /\ c.channel_count <= audio_extn_usb_get_max_channels(type)

\* A configuration chosen for a service interval is an altset of that interval,
\* and both extreme intervals of the first card are ones that can be asked for.
IntervalOffered ==
  \A type \in {"playback", "capture"} : \A min \in BOOLEAN :
    \A interval \in audio_extn_usb_find_service_interval(min, type) :
      \A c \in audio_extn_usb_altset_for_service_interval(type, interval) :
        \E k \in DOMAIN usb_card_conf_list[1].list :
          LET a == usb_card_conf_list[1].list[k]
          IN /\ a.service_interval_us = interval /\ a.type = type
             /\ a.bit_width = c.bit_width /\ a.channel_count = c.channel_count
             /\ \E j \in DOMAIN a.rates : a.rates[j] = c.rate

\* The HAL's copy of the USB cards is true, and what it chooses from it exists.
UsbViewTrue ==
  CardsCurrent /\ CaptureHasCard /\ ConfigOffered /\ WithinAdvertised /\ IntervalOffered

=============================================================================
