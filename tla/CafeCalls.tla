------------------------------- MODULE CafeCalls -------------------------------
(***************************************************************************)
(* The handlers of the Cafe libraries as calls of CafeCallMachine.  The    *)
(* values they compute are left out; what is kept is which operands they   *)
(* validate, read and write, with which accesses, where they may refuse,   *)
(* and where they change the host's state, in the order of the code.       *)
(***************************************************************************)
EXTENDS CafeCallMachine, TLC

(***************************************************************************)
(* GX2: helpers shared by several handlers.                                *)
(***************************************************************************)
SetUniformRegisters ==
  Call({"data"}, <<Checks, Validates("data", "read"), Sets, Reads("data")>>)
BindUniformBlock == Plain(<<Checks, Validates("block", "read"), Sets>>)
BindTexture == Call({"texture"}, <<Checks, Validates("texture", "read"), Sets>>)
BindAttribBuffer == Plain(<<Checks, Validates("buffer", "read"), Sets>>)

\* clear_color_surface: the descriptor is read and its image filled.
ClearColorSurface ==
  <<Validates("color", "read"), Reads("color"), Checks>> \o Fills("image")

\* integer_arguments with more than eight arguments reads the guest's stack.
StackArguments == <<Checks, Validates("stack", "read"), Reads("stack"), Sets>>

InitFetchShader ==
  Call({"attribs"},
       <<Checks, Validates("shader", "write"), Validates("program", "write"),
         Validates("attribs", "read"), Reads("attribs"), When("attribs", Checks),
         Writes("program"), Reads("shader"), Writes("shader")>>)

InitSampler == Plain(<<Validates("sampler", "write"), Writes("sampler")>>)

GetContextStateDisplayList ==
  Call({"outList", "outSize"},
       <<Validates("outList", "write"), When("outSize", Validates("context", "read")),
         Validates("outSize", "write"), When("outSize", Reads("context")),
         Writes("outList"), Writes("outSize")>>)

CalcDepthBufferHiZInfo ==
  Call({"outSize", "outAlignment"},
       <<Reads("depth"), Checks, Validates("depth", "write"), Validates("outSize", "write"),
         Validates("outAlignment", "write"), Writes("depth"), Writes("outSize"),
         Writes("outAlignment")>>)

\* mutant: the optional outputs are written without a look.
HiZOutputsUnchecked ==
  Call({"outSize", "outAlignment"},
       <<Reads("depth"), Checks, Validates("depth", "write"),
         Writes("depth"), Writes("outSize"), Writes("outAlignment")>>)

CalcSurfaceSizeAndAlignment ==
  Plain(<<Reads("surface"), Checks, Validates("surface", "write"), Writes("surface")>>)

CopySurface ==
  Plain(<<Validates("source", "read"), Validates("destination", "read"), Reads("source"),
          Reads("destination"), Checks, Validates("pixels", "read"), Validates("image", "write"),
          Reads("pixels"), Writes("image")>>)

InitTextureRegs ==
  Plain(<<Validates("texture", "write"), Reads("texture"), Writes("texture")>>)

\* The five calls that replace fields of one word of a sampler, and the one
\* that replaces a whole word.
SamplerWord == Plain(<<Validates("sampler", "write"), Reads("sampler"), Writes("sampler")>>)
InitSamplerClamping == SamplerWord
InitSamplerXYFilter == SamplerWord
InitSamplerZMFilter == SamplerWord
InitSamplerLOD == Plain(<<Validates("sampler", "write"), Writes("sampler")>>)
InitSamplerDepthCompare == SamplerWord
InitSamplerBorderType == SamplerWord

\* parse_init builds the new state aside; the handler then assigns it whole.
ParseInit ==
  Call({"attributes"},
       <<ReadsWords("attributes"), Checks, Validates("pool", "write"), Checks, Sets>>)

\* GX2CopyColorBufferToScanBuffer marks the buffer as rendered to (+0x7C)
\* before copy_color_buffer_to_scan looks at the rest.
CopyColorBufferToScan ==
  <<Checks, Reads("color"), Checks, Validates("image", "read"), Checks, Reads("image"), Checks>>
    \o Fills("scan")
CopyColorBufferToScanBuffer ==
  Plain(<<Checks, Validates("color", "read"), Validates("color", "write"), Reads("color"),
          Writes("color")>> \o CopyColorBufferToScan \o <<Sets>>)

(***************************************************************************)
(* GX2: handlers.                                                          *)
(***************************************************************************)
SampleGpuCycle == Plain(<<WritesWord("out")>>)
GetSwapStatus ==
  Call({"outSwap", "outFlip", "outLastFlip", "outLastVsync"},
       <<Validates("outSwap", "write"), Validates("outFlip", "write"),
         Validates("outLastFlip", "write"), Validates("outLastVsync", "write"),
         WritesWord("outSwap"), WritesWord("outFlip"), WritesWord("outLastFlip"),
         WritesWord("outLastVsync")>>)
SetContextState == Call({"context"}, <<Validates("context", "read"), Sets>>)
GetCurrentDisplayList ==
  Call({"outAddress", "outCapacity"},
       <<Validates("outAddress", "write"), Validates("outCapacity", "write"),
         Writes("outAddress"), Writes("outCapacity"), Sets>>)
SetShader == Plain(<<Validates("shader", "read"), Sets>>)
SetPixelSampler == Plain(<<Checks, Validates("sampler", "read"), Sets>>)
CalcColorBufferAuxInfo ==
  Call({"outSize", "outAlignment"},
       <<Validates("color", "write"), Writes("color"), Writes("outSize"), Writes("outAlignment")>>)
SetSurfaceSwizzle ==
  Plain(<<Validates("surface", "write"), Reads("surface"), Writes("surface")>>)
InitDepthBufferHiZEnable ==
  Plain(<<Validates("depth", "write"), Reads("depth"), Writes("depth")>>)
ShaderQuery == Plain(<<Reads("shader"), Sets>>)
CalcScanSize ==
  Plain(<<Validates("outSize", "write"), Validates("outAlignment", "write"), Checks,
          Writes("outSize"), Writes("outAlignment")>>)
CalcTVSize == CalcScanSize
CalcDRCSize == CalcScanSize
SetTVBuffer == Plain(<<Checks, Checks, Validates("scan", "write"), Sets>>)
SetDRCBuffer == SetTVBuffer
Invalidate == Call({"range"}, <<Validates("range", "read"), Sets>>)
SetDepthStencilControl == Plain(StackArguments)
SetPolygonControl == Plain(StackArguments)
SetPolygonOffsetReg == Plain(<<Validates("offsets", "read")>>)
DrawIndexedEx == Call({"indices"}, <<Checks, Validates("indices", "read"), Sets>>)
InitDepthBufferRegs ==
  Plain(<<Validates("depth", "write"), Reads("depth"), Checks, Writes("depth")>>)
SetDepthBuffer == Plain(<<Validates("depth", "read"), Sets>>)
ClearColor == Plain(<<Validates("color", "read")>> \o ClearColorSurface \o <<Sets>>)
ClearBuffersEx ==
  Plain(<<Validates("color", "read"), Validates("depth", "read")>>
          \o ClearColorSurface \o <<Sets>>)
ClearDepthStencilEx == Plain(<<Validates("depth", "read"), Sets>>)
SetClearDepthStencil == Plain(<<Validates("depth", "write"), Writes("depth")>>)
InitColorBufferRegs ==
  Plain(<<Validates("color", "write"), Reads("color"), Checks, Writes("color")>>)
SetColorBuffer == Plain(<<Checks, Validates("color", "read"), Sets>>)
SetRegisters == Plain(<<Sets>>)
SetupContextStateEx == Plain(<<Validates("context", "write"), Writes("context"), Sets>>)

Gx2Calls ==
  [ GX2SetVertexUniformReg |-> SetUniformRegisters, GX2SetVertexUniformBlock |-> BindUniformBlock,
    GX2SetPixelTexture |-> BindTexture, GX2SetAttribBuffer |-> BindAttribBuffer,
    GX2InitFetchShaderEx |-> InitFetchShader, GX2InitSampler |-> InitSampler,
    GX2GetContextStateDisplayList |-> GetContextStateDisplayList,
    GX2CalcDepthBufferHiZInfo |-> CalcDepthBufferHiZInfo,
    GX2CalcSurfaceSizeAndAlignment |-> CalcSurfaceSizeAndAlignment,
    GX2CopySurface |-> CopySurface, GX2InitTextureRegs |-> InitTextureRegs,
    GX2InitSamplerClamping |-> InitSamplerClamping, GX2InitSamplerXYFilter |-> InitSamplerXYFilter,
    GX2InitSamplerZMFilter |-> InitSamplerZMFilter, GX2InitSamplerLOD |-> InitSamplerLOD,
    GX2InitSamplerDepthCompare |-> InitSamplerDepthCompare,
    GX2InitSamplerBorderType |-> InitSamplerBorderType, GX2Init |-> ParseInit,
    GX2CopyColorBufferToScanBuffer |-> CopyColorBufferToScanBuffer,
    GX2SampleTopGPUCycle |-> SampleGpuCycle, GX2GetSwapStatus |-> GetSwapStatus,
    GX2SetContextState |-> SetContextState, GX2GetCurrentDisplayList |-> GetCurrentDisplayList,
    GX2SetVertexShader |-> SetShader, GX2SetPixelSampler |-> SetPixelSampler,
    GX2CalcColorBufferAuxInfo |-> CalcColorBufferAuxInfo,
    GX2SetSurfaceSwizzle |-> SetSurfaceSwizzle,
    GX2InitDepthBufferHiZEnable |-> InitDepthBufferHiZEnable,
    GX2GetPixelShaderGPRs |-> ShaderQuery, GX2CalcTVSize |-> CalcTVSize,
    GX2CalcDRCSize |-> CalcDRCSize, GX2SetTVBuffer |-> SetTVBuffer,
    GX2SetDRCBuffer |-> SetDRCBuffer, GX2Invalidate |-> Invalidate,
    GX2SetDepthStencilControl |-> SetDepthStencilControl,
    GX2SetPolygonControl |-> SetPolygonControl, GX2SetPolygonOffsetReg |-> SetPolygonOffsetReg,
    GX2DrawIndexedEx |-> DrawIndexedEx, GX2InitDepthBufferRegs |-> InitDepthBufferRegs,
    GX2SetDepthBuffer |-> SetDepthBuffer, GX2ClearColor |-> ClearColor,
    GX2ClearBuffersEx |-> ClearBuffersEx, GX2ClearDepthStencilEx |-> ClearDepthStencilEx,
    GX2SetClearDepthStencil |-> SetClearDepthStencil,
    GX2InitColorBufferRegs |-> InitColorBufferRegs, GX2SetColorBuffer |-> SetColorBuffer,
    GX2SetTargetChannelMasks |-> SetRegisters,
    GX2SetupContextStateEx |-> SetupContextStateEx ]

(***************************************************************************)
(* AX, VPAD and the small libraries of cafe_runtime.cpp.  A voice's words  *)
(* lie in the runtime's own mapping, which its owner never unmaps.         *)
(***************************************************************************)
AXSetVoiceOffsets ==
  Plain(<<Checks, Validates("offsets", "read"), ReadsWords("format"), Sets,
          ReadsWords("offsets"), Sets>>)
AXGetVoiceOffsets == Plain(<<Checks, WritesWords("offsets")>>)
AXSetVoiceWords == Plain(<<Checks, Sets>>)
AXSetVoiceDeviceMix ==
  Call({"left", "right"}, <<Checks, ReadsWords("left"), When("left", Sets), ReadsWords("right")>>)
AXSetVoiceVe == Plain(<<Checks, ReadsWords("volume"), Sets, ReadsWords("delta"), Sets>>)
AXSetVoiceSrc == Plain(<<Checks, ReadsWords("ratio"), Sets>>)
AXSetVoiceAdpcm == Plain(<<Checks, ReadsWords("first"), Sets, ReadsWords("rest"), Sets>>)
AXSetVoiceAdpcmLoop == AXSetVoiceAdpcm
RegisterCallback == Plain(<<Checks, ValidatesOne("callback", "execute"), Sets>>)
AXRegisterDeviceFinalMixCallback ==
  Call({"callback"}, <<Checks, When("callback", Checks), ValidatesOne("callback", "execute"), Sets>>)
AXGetDeviceFinalMixCallback == Call({"out"}, <<Checks, WritesWord("out")>>)
WriteOneWord == Call({"out"}, <<WritesWord("out")>>)

VPADRead ==
  Call({"status", "error"},
       <<Validates("status", "write"), Writes("status"), WritesWords("status"),
         When("status", Sets), WritesWord("error")>>)
VPADGetTPCalibratedPoint ==
  Plain(<<Validates("output", "write"), Validates("input", "read"), ReadsWords("input"),
          WritesWords("output")>>)

(***************************************************************************)
(* padscore, nn_act, proc_ui, nn_olv.                                      *)
(***************************************************************************)
KPADInitEx == Call({"ring"}, <<Checks, Validates("ring", "write"), Sets>>)
KPADSetMplsWorkarea == Plain(<<Validates("area", "write"), Sets>>)
GetParentalControlSlotNoEx == Plain(<<WritesWord("out")>>)
OlvConstructor == Plain(<<ValidatesOne("self", "write"), WritesWords("self")>>)
OlvSetWork == Plain(<<WritesWord("work"), WritesWord("size")>>)

(***************************************************************************)
(* coreinit.                                                               *)
(***************************************************************************)
Yaz0Decompress ==
  Plain(<<ReadsWords("header"), Checks, Validates("output", "write"), Reads("stream"),
          Writes("output"), Reads("rest"), Checks, Writes("output")>>)
BlockMove ==
  Plain(<<Validates("source", "read"), Validates("destination", "write"), Reads("source"),
          Writes("destination")>>)
BlockSet == Plain(Fills("destination"))
\* memmove and memcpy validate both ranges, then copy chunk by chunk.
CopyBytes ==
  Plain(<<Validates("source", "read"), Validates("destination", "write"), Reads("source")>>
          \o Fills("destination"))
FillBytes == Plain(<<Validates("destination", "write")>> \o Fills("destination"))
FlushRange == Plain(<<Validates("range", "read")>>)
\* The settings are matched and their outputs looked at in a first pass and
\* written in a second: "result" is the word at +0x48 of a setting.
UCReadSysConfig ==
  Plain(<<Checks, Validates("settings", "read"), Validates("result", "write"),
          Reads("settings"), ReadsWords("settings"), Checks, Validates("output", "write"),
          WritesWord("result"), WritesWord("output")>>)
OSGetSharedData ==
  Plain(<<ValidatesOne("outAddress", "write"), ValidatesOne("outSize", "write"), Checks, Sets,
          WritesWord("outAddress"), WritesWord("outSize")>>)
\* The affinity is the running thread's where the attributes name no core.
\* The stack ends at an address rounded down to eight bytes: the second of
\* its two words is "below" where the stack is but eight bytes and not
\* aligned to them, and nothing has looked at that word.
OSCreateThread ==
  Call({"current", "below"},
       <<Checks, ValidatesOne("thread", "write"), ValidatesOne("stack", "write"),
         ValidatesOne("entry", "execute"), Checks, Reads("current"), When("current", Checks),
         WritesWords("thread"), WritesWord("stack"), WritesWord("below"), WritesWord("stack"),
         Sets>>)
OSDynLoad_Acquire ==
  Plain(<<ValidatesOne("handle", "write"), Reads("name"), WritesWord("handle")>>)
OSDynLoad_FindExport ==
  Call({"name"}, <<ValidatesOne("out", "write"), Reads("name"), WritesWord("out")>>)
OSCreateAlarm == Plain(<<ValidatesOne("alarm", "write"), WritesWords("alarm")>>)
OSSetAlarmUserData ==
  Plain(<<ValidatesOne("alarm", "read"), ValidatesOne("alarm", "write"), ReadsWords("alarm"),
          Checks, WritesWord("alarm")>>)
OSSetPeriodicAlarm ==
  Plain(<<ValidatesOne("alarm", "read"), ValidatesOne("alarm", "write"), ReadsWords("alarm"),
          Checks, WritesWords("alarm")>>)
OSGetThreadSpecific == Plain(<<Checks, ReadsWords("thread"), Sets>>)
OSSetThreadSpecific == Plain(<<Checks, WritesWord("thread")>>)
OSGetThreadPriority == Plain(<<ValidatesOne("thread", "read"), ReadsWords("thread"), Checks>>)
OSSetThreadName == Plain(<<WritesWord("thread")>>)
InitialiseObject == Plain(<<ValidatesOne("object", "write"), WritesWords("object"), Sets>>)
IMIsDimEnabled == Plain(<<WritesWord("out")>>)
OSSetExceptionCallback == Plain(<<Checks, Sets>>)
GhsMtxInit ==
  Plain(<<Checks, ValidatesOne("pointer", "write"), Checks, Sets, WritesWord("pointer")>>)
\* The mutex is forgotten and its block freed before the pointer is known to
\* be writable.
GhsMtxDst ==
  Plain(<<Checks, ReadsWords("pointer"), Checks, Sets, ValidatesOne("pointer", "write"),
          WritesWord("pointer")>>)

RuntimeCalls ==
  [ AXSetVoiceOffsets |-> AXSetVoiceOffsets, AXGetVoiceOffsets |-> AXGetVoiceOffsets,
    AXSetVoiceState |-> AXSetVoiceWords, AXSetVoiceDeviceMix |-> AXSetVoiceDeviceMix,
    AXSetVoiceVe |-> AXSetVoiceVe, AXSetVoiceSrc |-> AXSetVoiceSrc,
    AXSetVoiceAdpcm |-> AXSetVoiceAdpcm, AXSetVoiceAdpcmLoop |-> AXSetVoiceAdpcmLoop,
    AXRegisterDeviceFinalMixCallback |-> AXRegisterDeviceFinalMixCallback,
    AXRegisterAppFrameCallback |-> RegisterCallback,
    AXGetDeviceFinalMixCallback |-> AXGetDeviceFinalMixCallback,
    AXGetDeviceMode |-> WriteOneWord, VPADRead |-> VPADRead,
    VPADGetTPCalibratedPoint |-> VPADGetTPCalibratedPoint,
    KPADInitEx |-> KPADInitEx, KPADSetMplsWorkarea |-> KPADSetMplsWorkarea,
    KPADReadEx |-> WriteOneWord, ProcUIInit |-> RegisterCallback,
    ProcUIRegisterCallback |-> RegisterCallback,
    GetParentalControlSlotNoEx |-> GetParentalControlSlotNoEx,
    OlvConstructor |-> OlvConstructor, SetWork |-> OlvSetWork ]

CoreinitCalls ==
  [ Yaz0Decompress |-> Yaz0Decompress, OSBlockMove |-> BlockMove, OSBlockSet |-> BlockSet,
    memmove |-> CopyBytes, memset |-> FillBytes, OSCreateThread |-> OSCreateThread,
    DCFlushRange |-> FlushRange, UCReadSysConfig |-> UCReadSysConfig,
    OSGetSharedData |-> OSGetSharedData, OSDynLoad_Acquire |-> OSDynLoad_Acquire,
    OSDynLoad_FindExport |-> OSDynLoad_FindExport, OSCreateAlarm |-> OSCreateAlarm,
    OSSetAlarmUserData |-> OSSetAlarmUserData, OSSetPeriodicAlarm |-> OSSetPeriodicAlarm,
    OSGetThreadSpecific |-> OSGetThreadSpecific, OSSetThreadSpecific |-> OSSetThreadSpecific,
    OSGetThreadPriority |-> OSGetThreadPriority, OSSetThreadName |-> OSSetThreadName,
    OSInitMessageQueue |-> InitialiseObject, IMIsDimEnabled |-> IMIsDimEnabled,
    OSSetExceptionCallback |-> OSSetExceptionCallback,
    __ghs_mtx_init |-> GhsMtxInit, __ghs_mtx_dst |-> GhsMtxDst ]

\* Every handler: the model's value of Calls.
GuestCalls == Gx2Calls @@ RuntimeCalls @@ CoreinitCalls

\* The handlers that can fault after they have changed something, and what:
\* the model's value of LeftBehind.
HalfWayCalls ==
  [ GX2GetSwapStatus |-> {"outSwap", "outFlip", "outLastFlip"},
    GX2CalcColorBufferAuxInfo |-> {"color", "outSize", "outAlignment"},
    GX2CopyColorBufferToScanBuffer |-> {"color"}, UCReadSysConfig |-> {"result"},
    VPADRead |-> {"status", "host"}, VPADGetTPCalibratedPoint |-> {"output"},
    Yaz0Decompress |-> {"output"}, SetWork |-> {"work"},
    OSCreateThread |-> {"thread", "stack"}, __ghs_mtx_dst |-> {"host"},
    AXSetVoiceOffsets |-> {"host"}, AXGetVoiceOffsets |-> {"offsets"},
    AXSetVoiceDeviceMix |-> {"host"}, AXSetVoiceVe |-> {"host"},
    AXSetVoiceAdpcm |-> {"host"}, AXSetVoiceAdpcmLoop |-> {"host"} ]

===============================================================================
