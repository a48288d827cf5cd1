----------------------------- MODULE MCInstructions -----------------------------
(***************************************************************************)
(* CafeInstructions over every opcode, every extended opcode that either   *)
(* decoder names and some it does not, and the values of the register      *)
(* fields that a condition of either tells apart.                          *)
(***************************************************************************)
EXTENDS CafeInstructions

Word(op, xo, rt, ra, rb, rc) == [op |-> op, xo |-> xo, rt |-> rt, ra |-> ra, rb |-> rb, rc |-> rc]

\* Opcodes without an extended one; rb holds the quantisation register's index.
ImmediateWords == { Word(op, 0, rt, ra, rb, FALSE) :
  op \in 0 .. 63 \ {4, 19, 31, 59, 63}, rt \in {0, 1, 4}, ra \in {0, 1}, rb \in {0, 2, 10, 12, 16} }

FloatXo == { xo5 + 32 * frc : xo5 \in 0 .. 31, frc \in 0 .. 1 }
           \cup {72, 136, 264, 528, 560, 592, 624}
FloatWords == { Word(op, xo, rt, ra, rb, rc) : op \in {4, 59, 63}, xo \in FloatXo, rt \in {0, 1},
                ra \in {0, 1}, rb \in {0, 1}, rc \in BOOLEAN }

ControlWords == { Word(19, xo, rt, ra, rb, rc) : xo \in {0, 16, 33, 150, 193, 289, 528},
                  rt \in {0, 1, 4, 20}, ra \in {0, 1}, rb \in {0, 1, 4}, rc \in BOOLEAN }

IntegerWords == { Word(31, xo, rt, ra, rb, rc) :
  xo \in StepUnrecorded \cup StepRecordable \cup {1, 33, 150, 1023}, rt \in {0, 1}, ra \in {0, 1, 2},
  rb \in {0, 1, 5}, rc \in BOOLEAN }
\* Special registers on both sides of those that are known.
SprWords == { Word(31, xo, 1, ra, rb, FALSE) : xo \in {339, 467}, ra \in {1, 2, 5, 6, 7, 8, 9, 10},
              rb \in {0, 28} }

DecodedWords == ImmediateWords \cup FloatWords \cup ControlWords \cup IntegerWords \cup SprWords
===============================================================================
