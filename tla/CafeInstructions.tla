---------------------------- MODULE CafeInstructions ----------------------------
(***************************************************************************)
(* The two decoders of PowerPC instructions: the interpreter's             *)
(* (executor.cpp, step) and the translator's (native_generator.cpp).  Each *)
(* refuses a word by its own conditions and then dispatches on it by its   *)
(* own tables, to a function of ppc_semantics_inl.h and operands taken     *)
(* from fields of the word.  A guest instruction can be carried out by     *)
(* either: a block too long for what is left of the slice is interpreted.  *)
(***************************************************************************)
EXTENDS Naturals, Sequences

CONSTANT Words  \* bound: the words that are decoded

VARIABLES
  word,         \* the word
  final,        \* it is the last of its block
  interpreted,  \* what the interpreter does with it
  translated    \* what the translated block does with it
decodeVars == <<word, final, interpreted, translated>>

(***************************************************************************)
(* Fields of a word (ppc_instruction.h).  rs and bo are the bits of rt, bi *)
(* those of ra, sh those of rb; mb, me and frc are part of xo.             *)
(***************************************************************************)
Xo5(w) == w.xo % 32
Frc(w) == w.xo \div 32
Spr(w) == w.ra + 32 * w.rb
PsI(w) == (w.rb \div 2) % 8
LowTwo(field) == field % 4
HintBits(w) == w.rb \div 4
NoDecrement(w) == (w.rt \div 4) % 2

\* valid_lswi_form: no register that is loaded holds the address.
ValidLswiForm(w) ==
  /\ ~(w.rt = 0 /\ w.ra = 0)
  /\ \/ w.ra = 0
     \/ (w.ra + 32 - w.rt) % 32 >= ((IF w.rb = 0 THEN 32 ELSE w.rb) + 3) \div 4

(***************************************************************************)
(* Tables: from an opcode to an operation and where its operands are.      *)
(***************************************************************************)
Rejected == [op |-> "rejected", on |-> <<>>]
Pending == [op |-> "pending", on |-> <<>>]

RtRaRb == <<"rt", "ra", "rb">>
RtRaRbRc == <<"rt", "ra", "rb", "rc">>
RaRtRbRc == <<"ra", "rt", "rb", "rc">>
RtRaFrc == <<"rt", "ra", "frc">>
RtRaFrcRb == <<"rt", "ra", "frc", "rb">>
RtRaRbFrc == <<"rt", "ra", "rb", "frc">>
RtRb == <<"rt", "rb">>
BfRaRb == <<"bf", "ra", "rb">>
RtRaSimm == <<"rt", "ra", "simm">>
RtRaRc == <<"rt", "ra", "rc">>
RaRtRc == <<"ra", "rt", "rc">>
Rotate == <<"ra", "rt", "rb", "mb", "me", "rc">>
RaRtUimm == <<"ra", "rt", "uimm">>
RaRtShifted == <<"ra", "rt", "uimm << 16">>
Quantized == <<"rt", "ra", "ps_w", "ps_i", "ps_displacement">>

\* A table is a set of rows <<<<code, operation>>, operands>>, one for a code.
Row(table, code) == {row \in table : row[1][1] = code}
Lookup(table, code) ==
  IF Row(table, code) = {} THEN Rejected
  ELSE LET row == CHOOSE row \in Row(table, code) : TRUE IN [op |-> row[1][2], on |-> row[2]]
\* A word is looked up by one of its fields, and by another where it is not found.
LookupFirst(table, code, other, otherCode) ==
  IF Row(table, code) # {} THEN Lookup(table, code) ELSE Lookup(other, otherCode)

(***************************************************************************)
(* The interpreter: Executor::step.                                        *)
(***************************************************************************)
StepAccepts4(w) ==
  /\ ~w.rc
  /\ CASE Xo5(w) \in {12, 13, 25} -> w.rb = 0
       [] Xo5(w) \in {20, 21} -> Frc(w) = 0
       [] Xo5(w) \in {10, 11, 14, 15, 23, 28, 29, 30, 31} -> TRUE
       [] w.xo = 26 -> w.ra = 0
       [] w.xo = 32 -> LowTwo(w.rt) = 0
       [] w.xo = 40 -> w.ra = 0
       [] OTHER -> w.xo \in {528, 560, 592, 624}

StepAcceptsD(w) ==
  CASE w.op \in {10, 11} -> LowTwo(w.rt) = 0
    [] w.op = 43 -> w.ra # 0 /\ w.ra # w.rt
    [] w.op \in {57, 61} -> w.ra # 0 /\ PsI(w) = 0
    [] w.op \in {56, 60} -> PsI(w) # 1 /\ PsI(w) <= 5
    [] OTHER -> w.op \in {7, 8, 18, 20, 21} \cup 12 .. 16 \cup 23 .. 29 \cup 32 .. 42
                          \cup 44 .. 50 \cup 52 .. 55

StepAccepts19(w) ==
  /\ w.xo \in {16, 150, 193, 289, 528}
  /\ w.xo = 150 => w.rt = 0 /\ w.ra = 0 /\ w.rb = 0 /\ ~w.rc
  /\ w.xo \in {193, 289} => ~w.rc
  /\ w.xo \in {16, 528} => HintBits(w) = 0
  /\ w.xo = 528 => NoDecrement(w) = 1

StepUnrecorded ==
  {0, 4, 19, 20, 23, 32, 54, 55, 86, 87, 119, 151, 183, 215, 247, 279, 311, 339, 343, 375, 407, 439,
   467, 534, 535, 567, 597, 662, 663, 695, 725, 983, 1014}
StepRecordable ==
  {8, 10, 11, 24, 26, 28, 40, 60, 75, 104, 124, 136, 138, 200, 202, 235, 266, 316, 412, 444, 459,
   491, 536, 712, 714, 792, 824, 922, 954, 1003}

StepAccepts31(w) ==
  /\ \/ w.xo \in StepUnrecorded /\ ~w.rc /\ (w.xo \in {0, 32} => LowTwo(w.rt) = 0)
     \/ w.xo \in StepRecordable
     \/ w.xo = 150 /\ w.rc
  /\ w.xo \in {26, 104, 922, 954, 200, 202, 712, 714} => w.rb = 0
  /\ w.xo = 19 => w.ra = 0 /\ w.rb = 0
  /\ w.xo \in {55, 119, 311, 375} => w.ra # 0 /\ w.ra # w.rt
  /\ w.xo \in {183, 247, 439, 567, 695} => w.ra # 0
  /\ w.xo \in {54, 86, 1014} => w.rt = 0
  /\ w.xo = 339 => Spr(w) \in {8, 9}
  /\ w.xo = 467 => Spr(w) \in {8, 9} \cup 898 .. 901
  /\ w.xo = 597 => ValidLswiForm(w)

StepAccepts59(w) ==
  /\ Xo5(w) \in {18, 20, 21, 25, 28, 29, 30} \/ w.xo = 24
  /\ ~w.rc
  /\ Xo5(w) \in {18, 20, 21} => Frc(w) = 0
  /\ Xo5(w) = 25 => w.rb = 0
  /\ w.xo = 24 => w.ra = 0

StepAccepts63(w) ==
  /\ ~w.rc
  /\ \/ Xo5(w) \in {18, 21} /\ Frc(w) = 0
     \/ Xo5(w) = 25 /\ w.rb = 0
     \/ Xo5(w) \in {20, 23, 28, 29, 30}
     \/ w.xo = 0 /\ LowTwo(w.rt) = 0
     \/ w.xo \in {12, 14, 15, 26, 40, 72, 136, 264} /\ w.ra = 0

StepAccepts(w) ==
  CASE w.op = 4 -> StepAccepts4(w)
    [] w.op = 19 -> StepAccepts19(w)
    [] w.op = 31 -> StepAccepts31(w)
    [] w.op = 59 -> StepAccepts59(w)
    [] w.op = 63 -> StepAccepts63(w)
    [] OTHER -> StepAcceptsD(w)

Step4Xo == {<<528, "ps_merge00">>, <<592, "ps_merge10">>, <<560, "ps_merge01">>,
            <<624, "ps_merge11">>} \X {RtRaRb}
           \cup {<<40, "ps_neg">>, <<26, "ps_rsqrte">>} \X {RtRb}
           \cup {<<32, "ps_cmpo0">>} \X {BfRaRb}
Step4Xo5 == {<<25, "ps_mul">>, <<13, "ps_muls1">>, <<12, "ps_muls0">>} \X {RtRaFrc}
            \cup {<<29, "ps_madd">>, <<10, "ps_sum0">>, <<11, "ps_sum1">>, <<14, "ps_madds0">>,
                  <<15, "ps_madds1">>, <<23, "ps_sel">>, <<28, "ps_msub">>, <<30, "ps_nmsub">>,
                  <<31, "ps_nmadd">>} \X {RtRaFrcRb}
            \cup {<<21, "ps_add">>, <<20, "ps_sub">>} \X {RtRaRb}

StepImmediate ==
  {<<7, "mulli">>, <<8, "subfic">>, <<14, "addi">>, <<15, "addis">>} \X {RtRaSimm}
  \cup {<<10, "cmpli">>} \X {<<"bf", "ra", "uimm">>} \cup {<<11, "cmpi">>} \X {<<"bf", "ra", "simm">>}
  \cup {<<12, "addic">>} \X {<<"rt", "ra", "simm", "false">>}
  \cup {<<13, "addic">>} \X {<<"rt", "ra", "simm", "true">>}
  \cup {<<16, "bc">>} \X {<<"target", "rt", "ra", "link">>} \cup {<<18, "b">>} \X {<<"target", "link">>}
  \cup {<<20, "rlwimi">>, <<21, "rlwinm">>, <<23, "rlwnm">>} \X {Rotate}
  \cup {<<24, "ori">>, <<26, "xori">>, <<28, "andi_dot">>} \X {RaRtUimm}
  \cup {<<25, "ori">>, <<27, "xori">>, <<29, "andi_dot">>} \X {RaRtShifted}

Step19 == {<<16, "bclr">>, <<528, "bcctr">>} \X {<<"rt", "ra", "link">>}
          \cup {<<193, "crxor">>, <<289, "creqv">>} \X {RtRaRb}
          \cup {<<150, "isync">>} \X {<<>>}

Step31Memory ==
  {<<23, "lwzx">>, <<87, "lbzx">>, <<343, "lhax">>, <<279, "lhzx">>, <<311, "lhzux">>,
   <<535, "lfsx">>, <<567, "lfsux">>, <<55, "lwzux">>, <<20, "lwarx">>, <<119, "lbzux">>,
   <<375, "lhaux">>, <<534, "lwbrx">>, <<183, "stwux">>, <<695, "stfsux">>, <<150, "stwcx">>,
   <<247, "stbux">>, <<439, "sthux">>, <<662, "stwbrx">>, <<151, "stwx">>, <<215, "stbx">>,
   <<407, "sthx">>, <<597, "lswi">>, <<725, "stswi">>, <<983, "stfiwx">>, <<663, "stfsx">>} \X {RtRaRb}
  \cup {<<1014, "dcbz">>} \X {<<"ra", "rb">>} \cup {<<54, "dcbst">>, <<86, "dcbf">>} \X {<<>>}

Step31Integer ==
  {<<0, "cmp">>, <<32, "cmpl">>} \X {BfRaRb} \cup {<<4, "tw">>} \X {RtRaRb}
  \cup {<<19, "mfcr">>} \X {<<"rt">>}
  \cup {<<8, "subfc">>, <<10, "addc">>, <<11, "mulhwu">>, <<40, "subf">>, <<75, "mulhw">>,
        <<136, "subfe">>, <<235, "mullw">>, <<266, "add">>, <<459, "divwu">>} \X {RtRaRbRc}
  \cup {<<24, "slw">>, <<28, "and_">>, <<60, "andc">>, <<124, "nor_">>, <<316, "xor_">>,
        <<412, "orc">>, <<444, "or_">>, <<536, "srw">>, <<792, "sraw">>} \X {RaRtRbRc}
  \cup {<<26, "cntlzw">>, <<922, "extsh">>, <<954, "extsb">>} \X {RaRtRc}
  \cup {<<104, "neg">>} \X {RtRaRc}
  \cup {<<200, "subfze">>, <<202, "addze">>} \X {<<"rt", "ra", "false", "rc">>}
  \cup {<<712, "subfze">>, <<714, "addze">>} \X {<<"rt", "ra", "true", "rc">>}
  \cup {<<491, "divw">>, <<138, "adde">>} \X {<<"rt", "ra", "rb", "false", "rc">>}
  \cup {<<1003, "divw">>} \X {<<"rt", "ra", "rb", "true", "rc">>}
  \cup {<<339, "mfspr">>, <<467, "mtspr">>} \X {<<"rt", "spr">>}
  \cup {<<824, "srawi">>} \X {<<"ra", "rt", "sh", "rc">>}

StepMemory ==
  {<<32, "lwz">>, <<33, "lwzu">>, <<34, "lbz">>, <<35, "lbzu">>, <<36, "stw">>, <<37, "stwu">>,
   <<38, "stb">>, <<39, "stbu">>, <<40, "lhz">>, <<41, "lhzu">>, <<42, "lha">>, <<43, "lhau">>,
   <<44, "sth">>, <<45, "sthu">>, <<46, "lmw">>, <<47, "stmw">>, <<48, "lfs">>, <<49, "lfsu">>,
   <<50, "lfd">>, <<52, "stfs">>, <<53, "stfsu">>, <<54, "stfd">>, <<55, "stfdu">>} \X {RtRaSimm}
  \cup {<<56, "psq_l">>, <<57, "psq_lu">>, <<60, "psq_st">>, <<61, "psq_stu">>} \X {Quantized}

Step59Xo5 == {<<18, "fdivs">>, <<20, "fsubs">>, <<21, "fadds">>} \X {RtRaRb}
             \cup {<<25, "fmuls">>} \X {RtRaFrc}
             \cup {<<28, "fmsubs">>, <<29, "fmadds">>, <<30, "fnmsubs">>} \X {RtRaRbFrc}
Step59(w) == IF w.xo = 24 THEN [op |-> "fres", on |-> RtRb] ELSE Lookup(Step59Xo5, Xo5(w))

Step63Xo5 == {<<18, "fdiv">>, <<20, "fsub">>, <<21, "fadd">>} \X {RtRaRb}
             \cup {<<25, "fmul">>} \X {RtRaFrc}
             \cup {<<28, "fmsub">>, <<29, "fmadd">>, <<30, "fnmsub">>} \X {RtRaRbFrc}
             \cup {<<23, "fsel">>} \X {RtRaFrcRb}
Step63Xo == {<<0, "fcmpu">>} \X {BfRaRb}
            \cup {<<12, "frsp">>, <<14, "fctiw">>, <<15, "fctiwz">>, <<40, "fneg">>,
                  <<264, "fabs">>, <<136, "fnabs">>, <<26, "frsqrte">>, <<72, "fmr">>} \X {RtRb}

StepDispatch(w) ==
  CASE w.op = 4 -> LookupFirst(Step4Xo, w.xo, Step4Xo5, Xo5(w))
    [] w.op = 19 -> Lookup(Step19, w.xo)
    [] w.op = 31 -> Lookup(Step31Memory \cup Step31Integer, w.xo)
    [] w.op = 59 -> Step59(w)
    [] w.op = 63 -> LookupFirst(Step63Xo5, Xo5(w), Step63Xo, w.xo)
    [] OTHER -> Lookup(StepImmediate \cup StepMemory, w.op)

\* require_update_form, in the functions of the updating loads and stores: what
\* the interpreter lets pass is refused there.
IntegerUpdateLoads == {"lwzu", "lbzu", "lhzu", "lhau", "lwzux", "lbzux", "lhzux", "lhaux"}
OtherUpdates == {"stwu", "stbu", "sthu", "stwux", "stbux", "sthux", "lfsu", "lfsux", "stfsu", "stfsux",
                 "stfdu", "psq_lu", "psq_stu"}
UpdateFormHolds(op, w) == /\ op \in IntegerUpdateLoads => w.ra # 0 /\ w.ra # w.rt
                          /\ op \in OtherUpdates => w.ra # 0

Interpretation(w) ==
  LET chosen == StepDispatch(w)
  IN  IF StepAccepts(w) /\ UpdateFormHolds(chosen.op, w) THEN chosen ELSE Rejected

(***************************************************************************)
(* The translator: validate_instruction and emit_instruction.              *)
(***************************************************************************)
Validates4(w) ==
  /\ ~w.rc
  /\ \/ w.xo \in {528, 560, 592, 624}
     \/ Xo5(w) \in {12, 13, 25} /\ w.rb = 0
     \/ Xo5(w) \in {10, 11, 14, 15, 23, 28, 29, 30, 31}
     \/ Xo5(w) \in {20, 21} /\ Frc(w) = 0
     \/ w.xo \in {26, 40} /\ w.ra = 0
     \/ w.xo = 32 /\ LowTwo(w.rt) = 0

ValidatesD(w) ==
  \/ w.op \in {7, 8, 12, 13, 14, 15, 16, 18, 20, 21, 23, 24, 25, 26, 27, 28, 29, 32, 34, 36, 38, 40,
               42, 44, 46, 47, 48, 50, 52, 54}
  \/ w.op \in {10, 11} /\ LowTwo(w.rt) = 0
  \/ w.op \in {33, 35, 41, 43} /\ w.ra # 0 /\ w.ra # w.rt
  \/ w.op \in {37, 39, 45, 49, 53, 55} /\ w.ra # 0
  \/ w.op \in {57, 61} /\ w.ra # 0 /\ PsI(w) = 0
  \/ w.op \in {56, 60} /\ PsI(w) # 1 /\ PsI(w) <= 5

Validates19(w) ==
  \/ w.xo = 16 /\ HintBits(w) = 0
  \/ w.xo = 528 /\ HintBits(w) = 0 /\ NoDecrement(w) = 1
  \/ w.xo = 150 /\ w.rt = 0 /\ w.ra = 0 /\ w.rb = 0 /\ ~w.rc
  \/ w.xo \in {193, 289} /\ ~w.rc

Validates31(w) ==
  \/ w.xo \in {8, 10, 11, 24, 28, 40, 60, 75, 124, 136, 138, 235, 266, 316, 412, 444, 459, 491, 536, 792,
               824, 1003}
  \/ w.xo \in {26, 104, 200, 202, 712, 714, 922, 954} /\ w.rb = 0
  \/ w.xo = 150 /\ w.rc
  \/ /\ ~w.rc
     /\ \/ w.xo \in {4, 20, 23, 87, 151, 215, 279, 343, 407, 534, 535, 662, 663, 725, 983}
        \/ w.xo \in {0, 32} /\ LowTwo(w.rt) = 0
        \/ w.xo \in {55, 119, 311, 375} /\ w.ra # 0 /\ w.ra # w.rt
        \/ w.xo \in {183, 247, 439, 567, 695} /\ w.ra # 0
        \/ w.xo \in {54, 86, 1014} /\ w.rt = 0
        \/ w.xo = 597 /\ ValidLswiForm(w)
        \/ w.xo = 339 /\ Spr(w) \in {8, 9}
        \/ w.xo = 467 /\ Spr(w) \in {8, 9} \cup 898 .. 901
        \/ w.xo = 19 /\ w.ra = 0 /\ w.rb = 0

Validates59(w) ==
  /\ ~w.rc
  /\ \/ Xo5(w) \in {20, 21} /\ Frc(w) = 0
     \/ Xo5(w) = 25 /\ w.rb = 0
     \/ Xo5(w) \in {28, 29, 30}
     \/ w.xo = 24 /\ w.ra = 0

Validates63(w) ==
  /\ ~w.rc
  /\ \/ Xo5(w) \in {18, 21} /\ Frc(w) = 0
     \/ Xo5(w) \in {20, 23, 28, 29, 30}
     \/ Xo5(w) = 25 /\ w.rb = 0
     \/ w.xo = 0 /\ LowTwo(w.rt) = 0
     \/ w.xo \in {12, 14, 15, 26, 40, 72, 136, 264} /\ w.ra = 0

ValidateInstruction(w) ==
  CASE w.op = 4 -> Validates4(w)
    [] w.op = 19 -> Validates19(w)
    [] w.op = 31 -> Validates31(w)
    [] w.op = 59 -> Validates59(w)
    [] w.op = 63 -> Validates63(w)
    [] OTHER -> ValidatesD(w)

IsBranch(w) == w.op \in {16, 18} \/ (w.op = 19 /\ w.xo \in {16, 528})

Emit4Xo == {<<528, "ps_merge00">>, <<560, "ps_merge01">>, <<592, "ps_merge10">>,
            <<624, "ps_merge11">>} \X {RtRaRb}
           \cup {<<40, "ps_neg">>,
                 <<26, "ps_rsqrte">>} \X {RtRb} \cup {<<32, "ps_cmpo0">>} \X {BfRaRb}
Emit4Xo5 == {<<12, "ps_muls0">>, <<13, "ps_muls1">>, <<25, "ps_mul">>} \X {RtRaFrc}
            \cup {<<20, "ps_sub">>, <<21, "ps_add">>} \X {RtRaRb}
            \cup {<<10, "ps_sum0">>, <<11, "ps_sum1">>, <<14, "ps_madds0">>, <<15, "ps_madds1">>,
                   <<23, "ps_sel">>, <<28, "ps_msub">>, <<29, "ps_madd">>, <<30, "ps_nmsub">>,
                   <<31, "ps_nmadd">>} \X {RtRaFrcRb}

\* addi, addis and the immediate logic are written in place, without a call.
EmitImmediate ==
  {<<7, "mulli">>, <<8, "subfic">>, <<14, "addi">>, <<15, "addis">>} \X {RtRaSimm}
  \cup {<<10, "cmpli">>} \X {<<"bf", "ra", "uimm">>} \cup {<<11, "cmpi">>} \X {<<"bf", "ra", "simm">>}
  \cup {<<<<op, "addic">>,
        <<"rt", "ra", "simm", IF op = 13 THEN "true" ELSE "false">>>> : op \in {12, 13}}
  \cup {<<16, "bc">>} \X {<<"target", "rt", "ra", "link">>} \cup {<<18, "b">>} \X {<<"target", "link">>}
  \cup {<<20, "rlwimi">>, <<21, "rlwinm">>, <<23, "rlwnm">>} \X {Rotate}
  \cup {<<<<op, IF op < 26 THEN "ori" ELSE "xori">>, IF op % 2 = 1 THEN RaRtShifted ELSE RaRtUimm>> :
           op \in 24 .. 27}
  \cup {<<<<op, "andi_dot">>, IF op = 29 THEN RaRtShifted ELSE RaRtUimm>> : op \in {28, 29}}

Emit19 == {<<16, "bclr">>, <<528, "bcctr">>} \X {<<"rt", "ra", "link">>}
          \cup {<<193, "crxor">>, <<289, "creqv">>} \X {RtRaRb} \cup {<<150, "isync">>} \X {<<>>}

Emit31Memory ==
  {<<87, "lbzx">>, <<279, "lhzx">>, <<311, "lhzux">>, <<535, "lfsx">>, <<567, "lfsux">>} \X {RtRaRb}
  \cup {<<20, "lwarx">>, <<119, "lbzux">>, <<375, "lhaux">>, <<534, "lwbrx">>} \X {RtRaRb}
  \cup {<<55, "lwzux">>, <<183, "stwux">>, <<695, "stfsux">>} \X {RtRaRb}
  \cup {<<150, "stwcx">>, <<247, "stbux">>, <<439, "sthux">>, <<662, "stwbrx">>} \X {RtRaRb}
  \cup {<<1014, "dcbz">>} \X {<<"ra", "rb">>} \cup {<<54, "dcbst">>, <<86, "dcbf">>} \X {<<>>}
  \cup {<<23, "lwzx">>, <<343, "lhax">>, <<151, "stwx">>, <<215, "stbx">>, <<407, "sthx">>,
        <<663, "stfsx">>, <<983, "stfiwx">>} \X {RtRaRb}
  \cup {<<597, "lswi">>, <<725, "stswi">>} \X {RtRaRb}

Emit31Integer ==
  {<<0, "cmp">>, <<32, "cmpl">>} \X {BfRaRb} \cup {<<4, "tw">>} \X {RtRaRb}
  \cup {<<19, "mfcr">>} \X {<<"rt">>}
  \cup {<<<<xo, "subfze">>,
        <<"rt", "ra", IF xo = 712 THEN "true" ELSE "false", "rc">>>> : xo \in {200, 712}}
  \cup {<<<<xo, "addze">>,
        <<"rt", "ra", IF xo = 714 THEN "true" ELSE "false", "rc">>>> : xo \in {202, 714}}
  \cup {<<138, "adde">>} \X {<<"rt", "ra", "rb", "false", "rc">>}
  \cup {<<<<xo, "divw">>, <<"rt", "ra", "rb", IF xo = 1003 THEN "true" ELSE "false", "rc">>>> :
           xo \in {491, 1003}}
  \cup {<<26, "cntlzw">>, <<922, "extsh">>, <<954, "extsb">>} \X {RaRtRc}
  \cup {<<104, "neg">>} \X {RtRaRc}
  \cup {<<8, "subfc">>, <<10, "addc">>, <<11, "mulhwu">>, <<40, "subf">>, <<75, "mulhw">>,
        <<136, "subfe">>, <<235, "mullw">>, <<459, "divwu">>, <<266, "add">>} \X {RtRaRbRc}
  \cup {<<24, "slw">>, <<28, "and_">>, <<60, "andc">>, <<124, "nor_">>, <<316, "xor_">>,
        <<444, "or_">>, <<412, "orc">>, <<536, "srw">>} \X {RaRtRbRc}
  \cup {<<792, "sraw">>} \X {RaRtRbRc} \cup {<<824, "srawi">>} \X {<<"ra", "rt", "sh", "rc">>}
  \cup {<<339, "mfspr">>, <<467, "mtspr">>} \X {<<"rt", "spr">>}

EmitMemory ==
  LET names == <<"lwz", "lwzu", "lbz", "lbzu", "stw", "stwu", "stb", "stbu", "lhz", "lhzu", "lha", "lhau",
                 "sth", "sthu", "lmw", "stmw">>
  IN  {<<op, names[op - 31]>> : op \in 32 .. 47} \X {RtRaSimm}
  \cup {<<48, "lfs">>, <<49, "lfsu">>, <<50, "lfd">>, <<52, "stfs">>, <<53, "stfsu">>,
        <<54, "stfd">>, <<55, "stfdu">>} \X {RtRaSimm}
  \cup {<<56, "psq_l">>, <<57, "psq_lu">>, <<60, "psq_st">>, <<61, "psq_stu">>} \X {Quantized}

\* mutant: what is not known is emitted as a subtraction.
Emit59Otherwise(w) ==
  IF w.xo = 24 THEN [op |-> "fres", on |-> RtRb]
  ELSE IF Xo5(w) = 21 THEN [op |-> "fadds", on |-> RtRaRb]
  ELSE IF Xo5(w) = 25 THEN [op |-> "fmuls", on |-> RtRaFrc]
  ELSE IF Xo5(w) \in {29, 30}
       THEN [op |-> IF Xo5(w) = 29 THEN "fmadds" ELSE "fnmsubs", on |-> RtRaRbFrc]
  ELSE [op |-> "fsubs", on |-> RtRaRb]

Emit59Xo5 == {<<18, "fdivs">>, <<20, "fsubs">>, <<21, "fadds">>} \X {RtRaRb}
             \cup {<<25, "fmuls">>} \X {RtRaFrc}
             \cup {<<28, "fmsubs">>, <<29, "fmadds">>, <<30, "fnmsubs">>} \X {RtRaRbFrc}
Emit59(w) == IF w.xo = 24 THEN [op |-> "fres", on |-> RtRb] ELSE Lookup(Emit59Xo5, Xo5(w))

Emit63Xo5 == {<<18, "fdiv">>, <<20, "fsub">>, <<21, "fadd">>} \X {RtRaRb}
             \cup {<<25, "fmul">>} \X {RtRaFrc}
             \cup {<<28, "fmsub">>, <<29, "fmadd">>, <<30, "fnmsub">>} \X {RtRaRbFrc}
             \cup {<<23, "fsel">>} \X {RtRaFrcRb}
Emit63Xo == {<<0, "fcmpu">>} \X {BfRaRb}
            \cup {<<264, "fabs">>, <<136, "fnabs">>, <<14, "fctiw">>, <<26, "frsqrte">>,
                  <<12, "frsp">>,
                   <<15, "fctiwz">>, <<40, "fneg">>, <<72, "fmr">>} \X {RtRb}

EmitInstruction(w) ==
  CASE w.op = 4 -> LookupFirst(Emit4Xo, w.xo, Emit4Xo5, Xo5(w))
    [] w.op = 19 -> Lookup(Emit19, w.xo)
    [] w.op = 31 -> Lookup(Emit31Memory \cup Emit31Integer, w.xo)
    [] w.op = 59 -> Emit59(w)
    [] w.op = 63 -> LookupFirst(Emit63Xo5, Xo5(w), Emit63Xo, w.xo)
    [] OTHER -> Lookup(EmitImmediate \cup EmitMemory, w.op)

\* generate_native: a branch only ends a block.
Translation(w, last) ==
  IF ValidateInstruction(w) /\ (IsBranch(w) => last) THEN EmitInstruction(w) ELSE Rejected

(***************************************************************************)
(* Decoding a word, by either and in any order.                            *)
(***************************************************************************)
DecodeInit == /\ word \in Words
              /\ final \in (IF word.op \in {16, 18, 19} THEN BOOLEAN ELSE {TRUE})
              /\ interpreted = Pending /\ translated = Pending

Interpret == /\ interpreted = Pending
             /\ interpreted' = Interpretation(word)
             /\ UNCHANGED <<word, final, translated>>

Translate == /\ translated = Pending
             /\ translated' = Translation(word, final)
             /\ UNCHANGED <<word, final, interpreted>>

DecodeNext == Interpret \/ Translate
DecodeSpec == DecodeInit /\ [][DecodeNext]_decodeVars

(***************************************************************************)
(* Properties.                                                             *)
(***************************************************************************)
Decoded == interpreted # Pending /\ translated # Pending

\* A word that was translated is interpreted as the same operation on the same
\* operands: whether a block or the interpreter carries it out, which depends on
\* what is left of the time slice (run_slice), makes no difference.
TranslatedIsInterpreted == Decoded /\ translated # Rejected => translated = interpreted

\* What the interpreter carries out can be translated, but for a branch inside a
\* block and fdivs: one word that cannot makes generate_project refuse the title.
OnlyFdivsIsMissing ==
  Decoded /\ interpreted # Rejected /\ (IsBranch(word) => final) =>
    translated # Rejected \/ interpreted.op = "fdivs"

\* The two decoders of the language agree, but for fdivs.
DecodersAgree == TranslatedIsInterpreted /\ OnlyFdivsIsMissing

\* fdivs is translated to a call of fdivs (native_test.cpp's list of forms).
FdivsIsTranslated == Decoded /\ interpreted.op = "fdivs" => translated.op = "fdivs"
===============================================================================
