----------------------------- MODULE CafeAudioVoices -----------------------------
(***************************************************************************)
(* The voices of AX (cafe_runtime.cpp) that have data to play: the host's  *)
(* state of each, and the words of guest memory that mirror it for the     *)
(* guest to read.  Offsets count nibbles of ADPCM data, whose every block  *)
(* begins with a header of two, or samples of the other formats.           *)
(***************************************************************************)
EXTENDS Naturals, FiniteSets

CONSTANTS
  VoiceCount,   \* ax_voices_.size(): 96
  OffsetLimit,  \* bound: offsets are 0 .. OffsetLimit
  AdpcmBlock,   \* nibbles of an ADPCM block: 16
  MaxAdvance    \* bound: samples a voice advances in a frame (its ratio)

\* A header and what follows it fit in a block.
ASSUME VoicesConstants ==
  /\ OffsetLimit \in Nat
  /\ AdpcmBlock \in Nat /\ AdpcmBlock > 3
  /\ MaxAdvance \in Nat

VARIABLES
  voices,  \* ax_voices_
  words,   \* the guest's words of each voice
  legal    \* ghost: the offsets of the voice make sense together
voiceVars == <<voices, words, legal>>

VoiceSlots == 0 .. VoiceCount - 1
Offsets == 0 .. OffsetLimit
Unacquired == [acquired |-> FALSE, playing |-> FALSE, looping |-> FALSE, adpcm |-> TRUE,
               loop |-> 0, end |-> 0, current |-> 0]
ZeroWords == [playing |-> FALSE, looping |-> FALSE, loop |-> 0, end |-> 0, current |-> 0]

\* An offset at a header: decoding skips it.
InHeader(v, offset) == v.adpcm /\ offset % AdpcmBlock < 2
PastHeader(v, offset) == IF InHeader(v, offset) THEN offset + 2 ELSE offset

(***************************************************************************)
(* The guest's calls; each but the first refuses a slot not acquired.      *)
(***************************************************************************)
VoicesInit ==
  /\ voices = [s \in VoiceSlots |-> Unacquired]
  /\ words = [s \in VoiceSlots |-> ZeroWords]
  /\ legal = [s \in VoiceSlots |-> TRUE]

\* AXInit, AXQuit: the host forgets every voice; the words stay.
ForgetVoices ==
  /\ voices' = [s \in VoiceSlots |-> Unacquired]
  /\ UNCHANGED <<words, legal>>

\* AXAcquireVoiceEx: the first slot that is free, its words zeroed.
AcquireVoice ==
  \E s \in VoiceSlots :
    /\ ~voices[s].acquired
    /\ \A before \in 0 .. s - 1 : voices[before].acquired
    /\ voices' = [voices EXCEPT ![s] = [Unacquired EXCEPT !.acquired = TRUE]]
    /\ words' = [words EXCEPT ![s] = ZeroWords]
    /\ legal' = [legal EXCEPT ![s] = FALSE]

FreeVoice(s) ==
  /\ voices' = [voices EXCEPT ![s] = Unacquired]
  /\ words' = [words EXCEPT ![s].playing = FALSE]
  /\ UNCHANGED legal

\* Offsets a player gives: the voice can get from current to end, and again
\* from loop to end, and the end is a sample.
MakeSense(v) ==
  /\ ~InHeader(v, v.end)
  /\ PastHeader(v, v.current) <= v.end
  /\ v.looping => PastHeader(v, v.loop) <= v.end

Change(s, v) ==
  /\ voices' = [voices EXCEPT ![s] = v]
  /\ legal' = [legal EXCEPT ![s] = MakeSense(v)]

SetVoiceOffsets(s, adpcm, looping, loop, end, current) ==
  /\ Change(s, [voices[s] EXCEPT !.adpcm = adpcm, !.looping = looping, !.loop = loop, !.end = end,
                                 !.current = current])
  /\ words' = [words EXCEPT ![s] = [@ EXCEPT !.looping = looping, !.loop = loop, !.end = end,
                                             !.current = current]]

SetVoiceEndOffset(s, end) ==
  /\ Change(s, [voices[s] EXCEPT !.end = end])
  /\ words' = [words EXCEPT ![s].end = end]

SetVoiceLoopOffset(s, loop) ==
  /\ Change(s, [voices[s] EXCEPT !.loop = loop])
  /\ words' = [words EXCEPT ![s].loop = loop]

SetVoiceLoop(s, looping) ==
  /\ Change(s, [voices[s] EXCEPT !.looping = looping])
  /\ words' = [words EXCEPT ![s].looping = looping]

SetVoiceState(s, playing) ==
  /\ voices' = [voices EXCEPT ![s].playing = playing]
  /\ words' = [words EXCEPT ![s].playing = playing]
  /\ UNCHANGED legal

(***************************************************************************)
(* Mixing.                                                                 *)
(***************************************************************************)
\* decode_audio_sample skips a header before it decodes.
PastDecoding(v) == [v EXCEPT !.current = PastHeader(v, v.current)]

\* mutant: the voice steps first and looks for the end afterwards.
AdvancedFirst(v) ==
  LET d == PastDecoding(v)
      next == [d EXCEPT !.current = PastHeader(d, d.current + 1)]
  IN  IF d.current = d.end
      THEN IF d.looping THEN [d EXCEPT !.current = d.loop + 1] ELSE [next EXCEPT !.playing = FALSE]
      ELSE next

\* advance_audio_voice: at the end the voice stops or goes back to its loop.
Advanced(v) ==
  LET d == PastDecoding(v)
  IN  IF d.current = d.end
      THEN IF d.looping THEN [d EXCEPT !.current = d.loop] ELSE [d EXCEPT !.playing = FALSE]
      ELSE [d EXCEPT !.current = PastHeader(d, d.current + 1)]

AdvancedBy(v, n) ==
  LET by[i \in 0 .. n] == IF i = 0 \/ ~v.playing THEN v
                          ELSE IF by[i - 1].playing THEN Advanced(by[i - 1]) ELSE by[i - 1]
  IN  by[n]

\* mutant: only the position is published.
PositionPublished(w, v) == [w EXCEPT !.current = v.current]

\* What the guest's words say after mixing.
Published(w, v) == [w EXCEPT !.playing = v.playing, !.current = v.current]

\* mix_audio_frame: voice s, if it plays, advances by[s] times, and is decoded
\* once more if samples are left.
MixFrame(by, more) ==
  LET plays == {s \in VoiceSlots : voices[s].acquired /\ voices[s].playing}
      advanced(s) == AdvancedBy(PastDecoding(voices[s]), by[s])
      mixed(s) == IF more[s] /\ advanced(s).playing THEN PastDecoding(advanced(s)) ELSE advanced(s)
  IN  /\ plays # {}
      /\ \A s \in plays : mixed(s).current <= OffsetLimit  \* bound
      /\ voices' = [s \in VoiceSlots |-> IF s \in plays THEN mixed(s) ELSE voices[s]]
      /\ words' = [s \in VoiceSlots |-> IF s \in plays THEN Published(words[s], mixed(s))
                                        ELSE words[s]]
      /\ UNCHANGED legal

VoicesNext ==
  \/ ForgetVoices \/ AcquireVoice
  \/ \E s \in VoiceSlots :
       /\ voices[s].acquired
       /\ \/ FreeVoice(s)
          \/ \E adpcm, looping \in BOOLEAN, loop, end, current \in Offsets :
               SetVoiceOffsets(s, adpcm, looping, loop, end, current)
          \/ \E offset \in Offsets : SetVoiceEndOffset(s, offset) \/ SetVoiceLoopOffset(s, offset)
          \/ \E on \in BOOLEAN : SetVoiceLoop(s, on) \/ SetVoiceState(s, on)
  \/ \E by \in [VoiceSlots -> 0 .. MaxAdvance], more \in [VoiceSlots -> BOOLEAN] : MixFrame(by, more)

VoicesSpec == VoicesInit /\ [][VoicesNext]_voiceVars

(***************************************************************************)
(* Properties.                                                             *)
(***************************************************************************)
\* The guest reads of a voice it holds what the mixer will play: state, loop
\* and position agree however calls and frames interleave (mix_audio_frame and
\* the AXSetVoice calls write both).
WordsAgree ==
  \A s \in VoiceSlots :
    voices[s].acquired =>
      words[s] = [playing |-> voices[s].playing, looping |-> voices[s].looping,
                  loop |-> voices[s].loop, end |-> voices[s].end, current |-> voices[s].current]

\* A voice whose offsets make sense never plays past its end, headers and loops
\* included: the end is found although it is only compared for equality
\* (advance_audio_voice).
VoicesStayInside ==
  \A s \in VoiceSlots :
    voices[s].acquired /\ legal[s] => PastHeader(voices[s], voices[s].current) <= voices[s].end
===============================================================================
