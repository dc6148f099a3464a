----------------------------- MODULE AudioRoute -----------------------------
(***************************************************************************)
(* The mixer path library the audio HAL switches devices with              *)
(* (audio/audioroute_probe/audio_route.c).  An XML document names paths,   *)
(* each a list of mixer controls and values.  Applying a path writes its   *)
(* controls, resetting it writes the values the mixer had after start-up.  *)
(* Several paths may hold the same control, and a count per control decides *)
(* whether a reset may touch it.                                           *)
(*                                                                         *)
(* Control values are vectors of numbers; names of paths and controls are  *)
(* values.  An XML document is the sequence of its tags; an attribute that *)
(* is missing is NoId or the empty sequence.  tinyalsa (the mixer) and     *)
(* expat (the parser) are external: a mixer write succeeds, and an enum    *)
(* write reaches the first element only, as the code asks for no other.    *)
(***************************************************************************)
EXTENDS Integers, Sequences, FiniteSets, SequencesExt, FiniteSetsExt

CONSTANTS
  Ctls,        \* the card's controls
  CtlType,     \* [Ctls -> {"BOOL", "INT", "BYTE", "ENUM", "IEC958"}]
  NumValues,   \* [Ctls -> Nat \ {0}]
  NumEnums,    \* how many strings an enum control knows
  PathNames,   \* the names a caller may pass, known to the document or not
  Documents,   \* the XML files, each a sequence of tags
  MaxApply,    \* bound: applications of one path at a time
  MaxUncounted \* bound: calls that bypass the counts, per open

NoId == -1

NoPath == "NULL"

\* The tags a document may hold; their names need not be known.
ArTags == [tag : {"ctl"}, name : STRING, id : Int, value : Seq(Int)]
          \cup [tag : {"path"}, name : STRING] \cup [tag : {"mixer", "end"}]

ASSUME CtlsAssumption ==
  /\ CtlType \in [Ctls -> {"BOOL", "INT", "BYTE", "ENUM", "IEC958"}]
  /\ NumValues \in [Ctls -> Nat \ {0}] /\ NumEnums \in Nat
ASSUME DocumentsAssumption == Documents \subseteq Seq(ArTags)
ASSUME ArBounds == IsFiniteSet(PathNames) /\ {MaxApply, MaxUncounted} \subseteq Nat

VARIABLES
  ar_phase,    \* "closed", "parsing" or "open"
  ar_todo,     \* tags of the document still to be handled
  ar_level,    \* state.level
  ar_path,     \* state.path: the name of the path being filled, or NoPath
  mixer_path,  \* sequence of [name, setting]
  mixer_state, \* [Ctls -> [old, new, reset, active_count]]
  mixer,       \* the values the hardware holds
  applied,     \* how many times the caller holds each path applied
  uncounted    \* calls since the open that stage values or force a reset

arVars == <<ar_phase, ar_todo, ar_level, ar_path, mixer_path, mixer_state,
            mixer, applied, uncounted>>

Elements(c) == 1 .. NumValues[c]

Zeroes(c) == [j \in Elements(c) |-> 0]

is_supported_ctl_type(c) == CtlType[c] \in {"BOOL", "INT", "BYTE", "ENUM"}

Supported == {c \in Ctls : is_supported_ctl_type(c)}

\* mixer_ctl_set_value(ctl, 0, ..) for an enum, mixer_ctl_set_array otherwise.
Written(c) == IF CtlType[c] = "ENUM" THEN {1} ELSE Elements(c)

MixerAfter(c, hw, v) == [j \in Elements(c) |-> IF j \in Written(c) THEN v[j] ELSE hw[j]]

---------------------------------------------------------------------------
(* Paths.                                                                  *)

path_get_by_name(name) == SelectInSeq(mixer_path, LAMBDA p : p.name = name)

KnownPath(name) == path_get_by_name(name) # 0

SettingsOf(name) == IF KnownPath(name) THEN mixer_path[path_get_by_name(name)].setting
                                       ELSE <<>>

CtlsOf(name) == {s.ctl : s \in Range(SettingsOf(name))}

find_ctl_index_in_path(setting, c) == SelectInSeq(setting, LAMBDA s : s.ctl = c)

\* A control a path already holds is refused; the sub-path stops there.
path_add_setting(setting, s) ==
  IF find_ctl_index_in_path(setting, s.ctl) # 0 THEN setting ELSE Append(setting, s)

path_add_path(setting, sub) ==
  LET clash == SelectInSeq(sub, LAMBDA s : find_ctl_index_in_path(setting, s.ctl) # 0)
  IN  setting \o (IF clash = 0 THEN sub ELSE SubSeq(sub, 1, clash - 1))

\* A setting that is new starts with its first element set to the value and
\* the others to zero, whichever element the tag's id names.
NewSetting(c, vals) ==
  [ctl |-> c, value |-> [j \in Elements(c) |-> IF j = 1 THEN vals[1] ELSE 0]]

SetElements(value, index, vals) ==
  IF index = NoId THEN vals ELSE [value EXCEPT ![index + 1] = vals[1]]

path_add_value(setting, c, index, vals) ==
  LET with == path_add_setting(setting, NewSetting(c, vals))
      i    == find_ctl_index_in_path(with, c)
  IN  IF index >= NumValues[c] THEN setting
      ELSE [with EXCEPT ![i].value = SetElements(@, index, vals)]

---------------------------------------------------------------------------
(* The document.                                                           *)

\* An unknown enum string stands for the first one.
mixer_enum_string_to_value(token) == IF token < NumEnums THEN token ELSE 0

\* The value attribute is there and has a token for every element it must set.
HasValue(t) ==
  /\ t.value # <<>>
  /\ CtlType[t.name] \in {"INT", "BYTE"} /\ t.id = NoId =>
       Len(t.value) >= NumValues[t.name]

TagValues(t) ==
  [j \in Elements(t.name) |->
     CASE CtlType[t.name] = "BOOL" -> t.value[1]
       [] CtlType[t.name] = "ENUM" -> mixer_enum_string_to_value(t.value[1])
       [] OTHER -> IF t.id # NoId /\ j > 1 THEN 0
                   ELSE IF CtlType[t.name] = "BYTE" THEN t.value[j] % 256
                   ELSE t.value[j]]

UsableCtl(t) == t.name \in Supported /\ HasValue(t)

\* A top-level control: the value the mixer starts with.
InitialSetting(t) ==
  /\ mixer_state' =
       IF UsableCtl(t) /\ t.id < NumValues[t.name]
         THEN [mixer_state EXCEPT ![t.name].new = SetElements(@, t.id, TagValues(t))]
         ELSE mixer_state
  /\ UNCHANGED mixer_path

NestedSetting(t) ==
  /\ mixer_path' =
       IF UsableCtl(t) /\ ar_path # NoPath
         THEN [mixer_path EXCEPT ![path_get_by_name(ar_path)].setting =
                 path_add_value(@, t.name, t.id, TagValues(t))]
         ELSE mixer_path
  /\ UNCHANGED mixer_state

CtlTag(t) ==
  /\ \/ ar_level = 1 /\ InitialSetting(t)
     \/ ar_level # 1 /\ NestedSetting(t)
  /\ UNCHANGED ar_path

\* A name that exists already creates nothing, and what follows it is dropped.
path_create(t) ==
  /\ ar_path' = IF KnownPath(t.name) THEN NoPath ELSE t.name
  /\ mixer_path' = IF KnownPath(t.name) THEN mixer_path
                   ELSE Append(mixer_path, [name |-> t.name, setting |-> <<>>])

NestedPath(t) ==
  /\ mixer_path' =
       IF KnownPath(t.name) /\ ar_path # NoPath
         THEN [mixer_path EXCEPT ![path_get_by_name(ar_path)].setting =
                 path_add_path(@, SettingsOf(t.name))]
         ELSE mixer_path
  /\ UNCHANGED ar_path

PathTag(t) ==
  /\ \/ ar_level = 1 /\ path_create(t)
     \/ ar_level # 1 /\ NestedPath(t)
  /\ UNCHANGED mixer_state

start_tag(t) ==
  /\ CASE t.tag = "ctl"  -> CtlTag(t)
       [] t.tag = "path" -> PathTag(t)
       [] OTHER -> UNCHANGED <<ar_path, mixer_path, mixer_state>>
  /\ ar_level' = ar_level + 1

end_tag ==
  /\ ar_level' = ar_level - 1
  /\ UNCHANGED <<ar_path, mixer_path, mixer_state>>

ParseTag ==
  /\ ar_phase = "parsing" /\ ar_todo # <<>>
  /\ ar_todo' = Tail(ar_todo)
  /\ IF Head(ar_todo).tag = "end" THEN end_tag ELSE start_tag(Head(ar_todo))
  /\ UNCHANGED <<ar_phase, mixer, applied, uncounted>>

---------------------------------------------------------------------------
(* Opening and closing.                                                    *)

\* Of an enum only the first element is read; the others are taken as zero.
alloc_mixer_state ==
  [c \in Ctls |->
     LET read == [j \in Elements(c) |-> IF j \in Written(c) THEN mixer[c][j] ELSE 0]
     IN  [old |-> read, new |-> read, reset |-> Zeroes(c), active_count |-> 0]]

\* A card, a file or a parser that is missing leaves nothing behind.
audio_route_init(doc) ==
  /\ ar_phase = "closed"
  /\ ar_phase' = "parsing" /\ ar_todo' = doc /\ ar_level' = 0 /\ ar_path' = NoPath
  /\ mixer_path' = <<>> /\ mixer_state' = alloc_mixer_state
  /\ uncounted' = 0
  /\ UNCHANGED <<mixer, applied>>

Freed ==
  /\ ar_phase' = "closed" /\ ar_todo' = <<>> /\ ar_level' = 0 /\ ar_path' = NoPath
  /\ mixer_path' = <<>>
  /\ mixer_state' = [c \in Ctls |-> [old |-> Zeroes(c), new |-> Zeroes(c),
                                     reset |-> Zeroes(c), active_count |-> 0]]
  /\ applied' = [p \in PathNames |-> 0] /\ uncounted' = 0
  /\ UNCHANGED mixer

\* err_parse: expat rejects the rest of the file.
ParseError == ar_phase = "parsing" /\ Freed

\* Every supported control whose new value differs is written.
audio_route_update_mixer(states) ==
  /\ mixer' = [c \in Ctls |->
                 IF c \in Supported /\ states[c].old # states[c].new
                   THEN MixerAfter(c, mixer[c], states[c].new) ELSE mixer[c]]
  /\ mixer_state' = [c \in Ctls |-> [states[c] EXCEPT !.old = states[c].new]]

\* save_mixer_state, after the document's initial values were written.
save_mixer_state(states) ==
  [c \in Ctls |-> IF c \in Supported THEN [states[c] EXCEPT !.reset = states[c].new]
                                     ELSE states[c]]

ParseDone ==
  /\ ar_phase = "parsing" /\ ar_todo = <<>>
  /\ ar_phase' = "open"
  /\ audio_route_update_mixer(save_mixer_state(mixer_state))
  /\ UNCHANGED <<ar_todo, ar_level, ar_path, mixer_path, applied, uncounted>>

audio_route_free == ar_phase = "open" /\ Freed

---------------------------------------------------------------------------
(* Applying and resetting.                                                 *)

SettingFor(name, c) ==
  SettingsOf(name)[find_ctl_index_in_path(SettingsOf(name), c)].value

path_apply(name) ==
  [c \in Ctls |-> IF c \in CtlsOf(name)
                    THEN [mixer_state[c] EXCEPT !.new = SettingFor(name, c)]
                    ELSE mixer_state[c]]

path_reset(name) ==
  [c \in Ctls |-> IF c \in CtlsOf(name)
                    THEN [mixer_state[c] EXCEPT !.new = mixer_state[c].reset]
                    ELSE mixer_state[c]]

\* Mutant: a reset does not give the count back.
CountAfter_keeps(count, direction) ==
  IF direction = "FORWARD" THEN count + 1
  ELSE IF direction = "REVERSE_RESET" THEN 0 ELSE count

CountAfter(count, direction) ==
  CASE direction = "FORWARD" -> count + 1
    [] direction = "REVERSE_RESET" -> 0
    [] OTHER -> IF count > 0 THEN count - 1 ELSE 0

\* Mutant: the count is not looked at.
KeepsValue_never(count, direction) == FALSE

\* A control still counted keeps its value when a path is reset.
KeepsValue(count, direction) == direction # "FORWARD" /\ count > 0

\* A control of the path, once its count is updated; states holds the new values.
update_ctl(s, count, direction) ==
  [s EXCEPT !.active_count = count,
            !.new = IF KeepsValue(count, direction) THEN s.old ELSE s.new,
            !.old = IF KeepsValue(count, direction) THEN s.old ELSE s.new]

\* The controls are written in the order of the file, backwards on a reset; no
\* path holds a control twice, so the order shows only on the wire.
audio_route_update_path(name, direction, states) ==
  LET after == [c \in Ctls |->
                  IF c \in CtlsOf(name)
                    THEN update_ctl(states[c],
                           CountAfter(states[c].active_count, direction), direction)
                    ELSE states[c]]
  IN  /\ mixer_state' = after
      /\ mixer' = [c \in Ctls |->
                     IF c \in CtlsOf(name) /\ after[c].old # states[c].old
                       THEN MixerAfter(c, mixer[c], after[c].old) ELSE mixer[c]]

Open == ar_phase = "open"

Uncounted == uncounted < MaxUncounted /\ uncounted' = uncounted + 1

Parsed == <<ar_phase, ar_todo, ar_level, ar_path, mixer_path>>

audio_route_apply_and_update_path(name) ==
  /\ Open /\ KnownPath(name) /\ applied[name] < MaxApply
  /\ audio_route_update_path(name, "FORWARD", path_apply(name))
  /\ applied' = [applied EXCEPT ![name] = @ + 1]
  /\ UNCHANGED <<Parsed, uncounted>>

\* The HAL resets a path it has applied.
audio_route_reset_and_update_path(name) ==
  /\ Open /\ KnownPath(name) /\ applied[name] > 0
  /\ audio_route_update_path(name, "REVERSE", path_reset(name))
  /\ applied' = [applied EXCEPT ![name] = @ - 1]
  /\ UNCHANGED <<Parsed, uncounted>>

audio_route_force_reset_and_update_path(name) ==
  /\ Open /\ KnownPath(name) /\ applied[name] > 0
  /\ audio_route_update_path(name, "REVERSE_RESET", path_reset(name))
  /\ applied' = [applied EXCEPT ![name] = 0] /\ Uncounted
  /\ UNCHANGED Parsed

\* The calls that only stage values for audio_route_update_mixer.
Stage(states) ==
  /\ mixer_state' = states /\ Uncounted
  /\ UNCHANGED <<Parsed, mixer, applied>>

audio_route_apply_path(name) == Open /\ KnownPath(name) /\ Stage(path_apply(name))

audio_route_reset_path(name) == Open /\ KnownPath(name) /\ Stage(path_reset(name))

audio_route_reset ==
  Open /\ Stage([c \in Ctls |-> [mixer_state[c] EXCEPT !.new = mixer_state[c].reset]])

UpdateMixer ==
  /\ Open /\ audio_route_update_mixer(mixer_state)
  /\ UNCHANGED <<Parsed, applied, uncounted>>

\* "unable to find path": nothing changes.
UnknownPath(name) == Open /\ ~KnownPath(name) /\ UNCHANGED arVars

---------------------------------------------------------------------------

ArInit ==
  /\ ar_phase = "closed" /\ ar_todo = <<>> /\ ar_level = 0 /\ ar_path = NoPath
  /\ mixer_path = <<>>
  /\ mixer_state = [c \in Ctls |-> [old |-> Zeroes(c), new |-> Zeroes(c),
                                    reset |-> Zeroes(c), active_count |-> 0]]
  /\ \E v \in {0, 1} : mixer = [c \in Ctls |-> [j \in Elements(c) |-> v]]
  /\ applied = [p \in PathNames |-> 0] /\ uncounted = 0

ArNext ==
  \/ \E doc \in Documents : audio_route_init(doc)
  \/ ParseTag \/ ParseError \/ ParseDone \/ audio_route_free
  \/ \E name \in PathNames :
       \/ audio_route_apply_and_update_path(name)
       \/ audio_route_reset_and_update_path(name)
       \/ audio_route_force_reset_and_update_path(name)
       \/ audio_route_apply_path(name) \/ audio_route_reset_path(name)
       \/ UnknownPath(name)
  \/ audio_route_reset \/ UpdateMixer

ArSpec == ArInit /\ [][ArNext]_arVars

---------------------------------------------------------------------------
(* Properties.                                                             *)

Users(c) == {p \in PathNames : applied[p] > 0 /\ c \in CtlsOf(p)}

\* No path holds a control twice, whatever is nested or repeated: the update of a
\* path treats each of its controls once (audio_route.c:276, 885).
NoCtlTwice ==
  \A i \in DOMAIN mixer_path : \A j, k \in DOMAIN mixer_path[i].setting :
    mixer_path[i].setting[j].ctl = mixer_path[i].setting[k].ctl => j = k

\* The applications that hold a control.
Holders(c) ==
  {h \in PathNames \X (1 .. MaxApply) : h[2] <= applied[h[1]] /\ c \in CtlsOf(h[1])}

\* While every caller pairs its calls, a control's count is the number of
\* applications that hold it (audio_route.c:885).
CountsUsers ==
  uncounted = 0 =>
    \A c \in Supported : mixer_state[c].active_count = Cardinality(Holders(c))

\* What the library believes the hardware holds is what it holds, for every
\* element it can write (audio_route.c:711, 849).
OldMirrorsMixer ==
  Open => \A c \in Supported : \A j \in Written(c) : mixer_state[c].old[j] = mixer[c][j]

\* A control no applied path holds is back at its start-up value, in whatever
\* order the paths that shared it were reset (audio_route.c:849).
IdleIsReset ==
  Open /\ uncounted = 0 =>
    \A c \in Supported : Users(c) = {} =>
      \A j \in Written(c) : mixer[c][j] = mixer_state[c].reset[j]

\* Counts, cached values and the mixer agree with the paths that are applied.
PathsAccounted == NoCtlTwice /\ CountsUsers /\ OldMirrorsMixer /\ IdleIsReset

\* Resetting one path leaves alone every control another applied path holds
\* (audio_route.c:893).
SharedCtlSurvives ==
  [][\A p \in PathNames :
       uncounted' = 0 /\ applied'[p] < applied[p] /\ ar_phase' = "open" =>
         \A c \in CtlsOf(p) :
           (\E q \in PathNames : applied'[q] > 0 /\ c \in CtlsOf(q))
             => mixer'[c] = mixer[c]]_arVars

=============================================================================
