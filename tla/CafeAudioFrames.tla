----------------------------- MODULE CafeAudioFrames -----------------------------
(***************************************************************************)
(* The path of an audio frame (cafe_runtime.cpp, machine.cpp).  At each    *)
(* swap the renderer takes the captured frames and the runtime queues as   *)
(* many rounds of guest callbacks as the time that passed is worth.  The   *)
(* machine runs the callbacks one at a time: before the callback of device *)
(* 0 starts its buffer is mixed, and when it returns the buffer is copied  *)
(* into a ring that overwrites the oldest frame when it is full.           *)
(***************************************************************************)
EXTENDS Naturals, Sequences

CONSTANTS
  RingSize,         \* audio_frames_.size(): 16
  SamplesPerSwap,   \* 800
  SamplesPerFrame,  \* kAxSamples: 144
  MaxSwaps,         \* bound: swaps in a behaviour
  MaxRegistrations  \* bound: callbacks registered in a behaviour

ASSUME FramesConstants ==
  /\ RingSize \in Nat \ {0}
  /\ SamplesPerSwap \in Nat /\ SamplesPerFrame \in Nat \ {0}

VARIABLES
  callbacks,  \* the callbacks that are registered
  pending,    \* pending_callbacks_ of the machine
  running,    \* active_callback_, "none" if there is none
  buffer,     \* device 0's samples: the number of their mix, 0 when zeroed
  ring,       \* audio_frames_
  read,       \* audio_read_
  write,      \* audio_write_
  filled,     \* audio_count_
  phase,      \* audio_sample_phase_
  swaps,      \* ghost: swaps so far
  rounds,     \* ghost: rounds queued by swaps
  mixes,      \* ghost: frames mixed so far
  taken,      \* ghost: serial of the last frame the renderer took
  changes     \* callbacks registered so far
audioVars == <<callbacks, pending, running, buffer, ring, read, write, filled, phase, swaps, rounds,
               mixes, taken, changes>>

Devices == {"device0", "device1"}
Kinds == Devices \cup {"app"}

FramesInit ==
  /\ callbacks = {} /\ pending = <<>> /\ running = "none"
  /\ buffer = 0
  /\ ring = [i \in 0 .. RingSize - 1 |-> [serial |-> 0, mix |-> 0]]
  /\ read = 0 /\ write = 0 /\ filled = 0 /\ phase = 0
  /\ swaps = 0 /\ rounds = 0 /\ mixes = 0 /\ taken = 0 /\ changes = 0

\* queue_callback drops a callback that is not registered.
Queued(kinds) == SelectSeq(kinds, LAMBDA k : k \in callbacks)

\* AXRegisterDeviceFinalMixCallback: the device's buffer is zeroed and the
\* callback run once, outside the rounds.
RegisterFinalMix(device) ==
  /\ changes < MaxRegistrations
  /\ changes' = changes + 1
  /\ callbacks' = callbacks \cup {device}
  /\ buffer' = IF device = "device0" THEN 0 ELSE buffer
  /\ pending' = Append(pending, device)
  /\ UNCHANGED <<running, ring, read, write, filled, phase, swaps, rounds, mixes, taken>>

\* A null callback takes the device's callback away; the buffer is zeroed too.
UnregisterFinalMix(device) ==
  /\ changes < MaxRegistrations
  /\ changes' = changes + 1
  /\ callbacks' = callbacks \ {device}
  /\ buffer' = IF device = "device0" THEN 0 ELSE buffer
  /\ UNCHANGED <<pending, running, ring, read, write, filled, phase, swaps, rounds, mixes, taken>>

RegisterAppFrame ==
  /\ changes < MaxRegistrations
  /\ changes' = changes + 1
  /\ callbacks' = callbacks \cup {"app"}
  /\ pending' = Append(pending, "app")
  /\ UNCHANGED <<running, buffer, ring, read, write, filled, phase, swaps, rounds, mixes, taken>>

DeregisterAppFrame ==
  /\ "app" \in callbacks
  /\ callbacks' = callbacks \ {"app"}
  /\ UNCHANGED <<pending, running, buffer, ring, read, write, filled, phase, swaps, rounds, mixes,
                 taken, changes>>

\* mutant: the samples left over are dropped at each swap.
PhaseDropped(samples) == 0

\* The rounds that a number of samples is worth, and what is left of them.
RoundsDue(samples) == samples \div SamplesPerFrame
PhaseLeft(samples) == samples % SamplesPerFrame

Repeat(kinds, n) == [i \in 1 .. n * Len(kinds) |-> kinds[((i - 1) % Len(kinds)) + 1]]

\* queue_audio and service_audio_frame, at Gx2Event::swap_scan_buffers.
Swap ==
  /\ swaps < MaxSwaps
  /\ LET due == RoundsDue(phase + SamplesPerSwap)
     IN  /\ pending' = pending \o Repeat(Queued(<<"app", "device0", "device1">>), due)
         /\ rounds' = rounds + due
  /\ phase' = PhaseLeft(phase + SamplesPerSwap)
  /\ read' = (read + filled) % RingSize
  /\ filled' = 0
  /\ taken' = IF filled = 0 THEN taken ELSE ring[(read + filled - 1) % RingSize].serial
  /\ swaps' = swaps + 1
  /\ UNCHANGED <<callbacks, running, buffer, ring, write, mixes, changes>>

\* begin_callback with prepare_audio_frame.
BeginCallback ==
  /\ running = "none"
  /\ pending # <<>>
  /\ running' = Head(pending)
  /\ pending' = Tail(pending)
  /\ mixes' = IF Head(pending) = "device0" THEN mixes + 1 ELSE mixes
  /\ buffer' = IF Head(pending) = "device0" THEN mixes + 1 ELSE buffer
  /\ UNCHANGED <<callbacks, ring, read, write, filled, phase, swaps, rounds, taken, changes>>

\* mutant: the oldest frame is overwritten but still read first.
ReadStays == read

\* The oldest frame once another is written.
ReadAfter == IF filled = RingSize THEN (read + 1) % RingSize ELSE read

\* return_from_callback with capture_audio_frame: the buffer is zeroed after it
\* was copied.
ReturnCallback ==
  /\ running # "none"
  /\ running' = "none"
  /\ IF running = "device0"
     THEN /\ ring' = [ring EXCEPT ![write] = [serial |-> mixes, mix |-> buffer]]
          /\ write' = (write + 1) % RingSize
          /\ read' = ReadAfter
          /\ filled' = IF filled = RingSize THEN filled ELSE filled + 1
          /\ buffer' = 0
     ELSE UNCHANGED <<ring, read, write, filled, buffer>>
  /\ UNCHANGED <<callbacks, pending, phase, swaps, rounds, mixes, taken, changes>>

FramesNext ==
  \/ \E d \in Devices : RegisterFinalMix(d) \/ UnregisterFinalMix(d)
  \/ RegisterAppFrame \/ DeregisterAppFrame
  \/ Swap \/ BeginCallback \/ ReturnCallback

FramesSpec == FramesInit /\ [][FramesNext]_audioVars

(***************************************************************************)
(* Properties.                                                             *)
(***************************************************************************)
\* The ring holds the newest frames in the order they were captured, each with
\* its own mix or, after its device was registered anew, with silence; none is
\* taken twice (capture_audio_frame, pop_audio_frame).
RingHoldsNewest ==
  /\ \A i \in 0 .. filled - 1 :
       LET frame == ring[(read + i) % RingSize]
       IN  /\ frame.serial = mixes - (IF running = "device0" THEN 1 ELSE 0) - filled + i + 1
           /\ frame.mix \in {0, frame.serial}
           /\ frame.serial > taken
  /\ running # "device0" => buffer = 0

\* Over any number of swaps the rounds are those the time is worth: the part of
\* a frame left over is not lost (service_audio_frame).
RoundsKeepTime == rounds = (swaps * SamplesPerSwap) \div SamplesPerFrame
===============================================================================
