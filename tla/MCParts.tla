-------------------------------- MODULE MCParts --------------------------------
(***************************************************************************)
(* The parts that share no state with the threads, checked together: their *)
(* variables are disjoint, so a behaviour exercises one part, chosen at    *)
(* the start, while the others stay as they are.                           *)
(***************************************************************************)
EXTENDS MCHeaps, MCFilesystem, CafeCalls, CafeMemory, CafeDisplayLists, CafeAudioFrames,
        CafeAudioVoices, MCNative, MCInstructions

VARIABLE part  \* the part this behaviour exercises

\* A texture and the indices of a draw need not be of one size.
MCPayloadSizes == <<{1}, {3}>>

(***************************************************************************)
(* What the parts that a behaviour leaves alone rest in, where the part    *)
(* itself has several initial states.                                      *)
(***************************************************************************)
HeapsRest == HeapsInit /\ ~mirrored
FilesRest == Init /\ ~slot
CallsRest == call = "GX2Init" /\ where = <<>> /\ step = 1 /\ begun = FALSE /\ effects = {}
             /\ outcome = "done"
NativeRests == NativeInit /\ embedder = "runner" /\ hooked = {} /\ pc = 1
DecodingRests == word = Word(0, 0, 0, 0, 0, FALSE) /\ final = TRUE
                 /\ interpreted = Pending /\ translated = Pending

PartsInit ==
  /\ part \in {"heaps", "files", "calls", "memory", "lists", "frames", "voices", "native",
               "decoding"}
  /\ IF part = "heaps" THEN HeapsInit ELSE HeapsRest
  /\ IF part = "files" THEN Init ELSE FilesRest
  /\ MemoryInit /\ DisplayInit /\ FramesInit /\ VoicesInit
  /\ IF part = "calls" THEN CallInit ELSE CallsRest
  /\ IF part = "native" THEN NativeInit ELSE NativeRests
  /\ IF part = "decoding" THEN DecodeInit ELSE DecodingRests

PartsNext ==
  \/ part = "heaps" /\ HeapsNext
     /\ UNCHANGED <<part, vars, callVars, memoryVars, displayVars, audioVars, voiceVars, nativeVars,
                    decodeVars>>
  \/ part = "files" /\ Next
     /\ UNCHANGED <<part, heapsVars, callVars, memoryVars, displayVars, audioVars, voiceVars,
                    nativeVars, decodeVars>>
  \/ part = "calls" /\ CallNext
     /\ UNCHANGED <<part, heapsVars, vars, memoryVars, displayVars, audioVars, voiceVars,
                    nativeVars, decodeVars>>
  \/ part = "memory" /\ MemoryNext
     /\ UNCHANGED <<part, heapsVars, vars, callVars, displayVars, audioVars, voiceVars, nativeVars,
                    decodeVars>>
  \/ part = "lists" /\ DisplayNext
     /\ UNCHANGED <<part, heapsVars, vars, callVars, memoryVars, audioVars, voiceVars, nativeVars,
                    decodeVars>>
  \/ part = "frames" /\ FramesNext
     /\ UNCHANGED <<part, heapsVars, vars, callVars, memoryVars, displayVars, voiceVars, nativeVars,
                    decodeVars>>
  \/ part = "voices" /\ VoicesNext
     /\ UNCHANGED <<part, heapsVars, vars, callVars, memoryVars, displayVars, audioVars, nativeVars,
                    decodeVars>>
  \/ part = "native" /\ NativeNext
     /\ UNCHANGED <<part, heapsVars, vars, callVars, memoryVars, displayVars, audioVars, voiceVars,
                    decodeVars>>
  \/ part = "decoding" /\ DecodeNext
     /\ UNCHANGED <<part, heapsVars, vars, callVars, memoryVars, displayVars, audioVars, voiceVars,
                    nativeVars>>

partsVars == <<part, heapsVars, vars, callVars, memoryVars, displayVars, audioVars, voiceVars,
               nativeVars, decodeVars>>
PartsSpec == PartsInit /\ [][PartsNext]_partsVars
=============================================================================
