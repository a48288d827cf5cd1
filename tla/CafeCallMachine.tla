---------------------------- MODULE CafeCallMachine ----------------------------
(***************************************************************************)
(* A library call of the guest as the sequence of accesses and checks its  *)
(* handler makes, in the order it makes them.  A fault stops the handler   *)
(* where it is, so what it has already written or registered stays.  Most  *)
(* handlers look at everything first, so that a fault is atomic; CafeCalls *)
(* gives the handlers, and this module runs them over every memory their   *)
(* operands can lie in.                                                    *)
(*                                                                         *)
(* An operand is a piece of guest memory with a head and a tail.  The two  *)
(* can lie in one mapping or in two adjacent ones: GuestMemory accepts a   *)
(* range over both but refuses a single access of several bytes across the *)
(* border.  An operand can be absent where the code tests for zero.        *)
(***************************************************************************)
EXTENDS Naturals, Sequences

CONSTANTS Calls,       \* [name -> call]: the handlers
          LeftBehind,  \* [name -> operands]: what those that can fault half-way leave changed
          NoOperand    \* a null pointer or a range of no bytes

VARIABLES call,     \* the handler that runs
          where,    \* [operand -> layout or NoOperand]
          step,     \* the index of its next step
          begun,    \* the head of a write is stored, its tail is not
          effects,  \* the operands stored to, "host" for the host's state
          outcome   \* "running", "done" or "fault"
callVars == <<call, where, step, begun, effects, outcome>>

(***************************************************************************)
(* Steps.  "given" names the operand whose absence skips the step.         *)
(***************************************************************************)
Step(op, on, right) == [op |-> op, on |-> on, right |-> right, given |-> on]

Validates(o, right) == Step("validate range", o, right)   \* validate_range
ValidatesOne(o, right) == Step("validate", o, right)      \* validate: one mapping
Reads(o) == Step("read bytes", o, "read")        \* read8, read_be32, read_bytes
ReadsWords(o) == Step("read words", o, "read")   \* read16, read32, read64
Writes(o) == Step("write bytes", o, "write")     \* write8, write_be16, write_be32
WritesWord(o) == Step("write word", o, "write")  \* one write16, write32 or write64
WritesWords(o) == Step("write words", o, "write")  \* a structure, word by word
Checks == Step("check", "host", "read")          \* an argument or a field may be refused
Sets == Step("set", "host", "write")             \* registers and the host's state change
When(o, s) == [s EXCEPT !.given = o]

\* write_bytes and fill: the whole range is validated before it is stored.
Fills(o) == <<Validates(o, "write"), Writes(o)>>

\* A call: which operands may be absent, and its steps.
Call(optional, steps) == [optional |-> optional, steps |-> steps]
Plain(steps) == Call({}, steps)

Validation == {"validate range", "validate"}
InOneMapping == {"validate", "read words", "write word"}
InParts == {"write bytes", "write words"}
Effective == InParts \cup {"write word", "set"}
Operations == Validation \cup {"read bytes", "read words", "check"} \cup Effective

StepSet == [op : Operations, on : STRING, right : {"read", "write", "execute"}, given : STRING]

\* Every call is built from the steps above, and skips a step on an operand
\* that may be absent when it is.
ASSUME CallsAssumption ==
  \A c \in DOMAIN Calls :
    /\ Calls[c].steps \in Seq(StepSet)
    /\ \A i \in DOMAIN Calls[c].steps :
         LET s == Calls[c].steps[i]
         IN  /\ s.op \in {"check", "set"} <=> s.on = "host"
             /\ s.op \in InParts => s.right = "write"
             /\ s.on \in Calls[c].optional => s.given = s.on

(***************************************************************************)
(* Where an operand can lie.  Every mapping the images make is readable,   *)
(* and one that can be written cannot be executed.                         *)
(***************************************************************************)
Layout(head, tail, split) == [head |-> head, tail |-> tail, split |-> split]
ReadOnly == {"read"}
ReadWrite == {"read", "write"}
Code == {"read", "execute"}
Layouts == { Layout({}, {}, FALSE), Layout(ReadOnly, ReadOnly, FALSE),
             Layout(Code, Code, FALSE), Layout(ReadWrite, ReadWrite, FALSE),
             Layout(ReadWrite, {}, TRUE), Layout(ReadWrite, ReadOnly, TRUE),
             Layout(ReadOnly, ReadWrite, TRUE), Layout(ReadWrite, ReadWrite, TRUE) }

Operands(c) == { c.steps[i].on : i \in DOMAIN c.steps } \ {"host"}

\* mutant: only the page of the first byte is looked at.
PassesHead(s, layout) == /\ s.right \in layout.head
                         /\ s.op \in InOneMapping => ~layout.split

\* A whole access or check of an operand that GuestMemory lets through.
Passes(s, layout) == /\ s.right \in layout.head
                     /\ s.right \in layout.tail
                     /\ s.op \in InOneMapping => ~layout.split

(***************************************************************************)
(* The handler at work.                                                    *)
(***************************************************************************)
CallInit == /\ call \in DOMAIN Calls
            /\ where \in [Operands(Calls[call]) -> Layouts \cup {NoOperand}]
            /\ \A o \in DOMAIN where : where[o] = NoOperand => o \in Calls[call].optional
            /\ step = 1 /\ begun = FALSE /\ effects = {} /\ outcome = "running"

Steps == Calls[call].steps
Current == Steps[step]
Missing(s) == /\ s.given # "host"
              /\ where[s.given] = NoOperand

Advance == /\ step' = step + 1
           /\ begun' = FALSE
           /\ UNCHANGED outcome
CallFaults == /\ outcome' = "fault"
              /\ UNCHANGED <<step, begun, effects>>

Skip == /\ Missing(Current)
        /\ Advance
        /\ UNCHANGED effects

\* A check of the arguments: the handler goes on or throws.
Check == /\ Current.op = "check"
         /\ ~Missing(Current)
         /\ (Advance /\ UNCHANGED effects) \/ CallFaults

SetState == /\ Current.op = "set"
            /\ ~Missing(Current)
            /\ Advance
            /\ effects' = effects \cup {"host"}

\* A validation, a read, or the write of one word: all of it or a fault.
Access == /\ Current.op \notin InParts \cup {"check", "set"}
          /\ ~Missing(Current)
          /\ IF Passes(Current, where[Current.on])
             THEN /\ Advance
                  /\ effects' = IF Current.op = "write word"
                                THEN effects \cup {Current.on} ELSE effects
             ELSE CallFaults

\* A write of several pieces stores those before the one that faults.
StoreHead == /\ Current.op \in InParts
             /\ ~Missing(Current)
             /\ ~begun
             /\ IF "write" \in where[Current.on].head
                THEN /\ begun' = TRUE
                     /\ effects' = effects \cup {Current.on}
                     /\ UNCHANGED <<step, outcome>>
                ELSE CallFaults

StoreTail == /\ Current.op \in InParts
             /\ ~Missing(Current)
             /\ begun
             /\ IF /\ "write" \in where[Current.on].tail
                   /\ Current.op = "write words" => ~where[Current.on].split
                THEN Advance /\ UNCHANGED effects
                ELSE CallFaults

Return == /\ step > Len(Steps)
          /\ outcome' = "done"
          /\ UNCHANGED <<step, begun, effects>>

CallNext == /\ outcome = "running"
            /\ \/ /\ step <= Len(Steps)
                  /\ Skip \/ Check \/ SetState \/ Access \/ StoreHead \/ StoreTail
               \/ Return
            /\ UNCHANGED <<call, where>>

CallSpec == CallInit /\ [][CallNext]_callVars

(***************************************************************************)
(* What a handler looks at first.                                          *)
(***************************************************************************)
\* Step j cannot fault once the steps before it have been passed.
Sure(steps, j) ==
  \/ steps[j].op = "set"
  \/ \E k \in 1 .. j - 1 :
       /\ steps[k].op \in Validation
       /\ steps[k].on = steps[j].on /\ steps[k].given = steps[j].given
       /\ \/ steps[k].right = steps[j].right
          \/ steps[k].right = "write" /\ steps[j].right = "read"
       /\ steps[j].op \in InOneMapping \cup {"write words"} => steps[k].op = "validate"
       /\ steps[j].op # "check"

\* Once call c has changed something outside "left", it goes through.
Preflighted(c, left) ==
  \A i \in DOMAIN c.steps :
    c.steps[i].op \in Effective /\ c.steps[i].on \notin left =>
      /\ c.steps[i].op \in InParts => Sure(c.steps, i)
      /\ \A j \in i + 1 .. Len(c.steps) : Sure(c.steps, j)

\* What the named handler may leave changed when it faults.
Left(name) == IF name \in DOMAIN LeftBehind THEN LeftBehind[name] ELSE {}

\* Every handler checks before it changes anything else.
ASSUME ChecksFirst == \A c \in DOMAIN Calls : Preflighted(Calls[c], Left(c))

(***************************************************************************)
(* Properties.                                                             *)
(***************************************************************************)
CallTypeOK ==
  /\ call \in DOMAIN Calls
  /\ where \in [Operands(Calls[call]) -> Layouts \cup {NoOperand}]
  /\ step \in 1 .. Len(Steps) + 1
  /\ begun \in BOOLEAN
  /\ effects \subseteq Operands(Calls[call]) \cup {"host"}
  /\ outcome \in {"running", "done", "fault"}

\* A call that faults has neither stored to guest memory nor changed the
\* host's state, wherever its operands lie, as the comments of
\* gx2_runtime.cpp and cafe_padscore.cpp promise for one call after another.
\* Of the handlers that can fault half-way it says how far that goes:
\* OSCreateThread may have rewritten the OSThread and the stack when its
\* store below the stack faults, but has not added the thread; a colour
\* buffer may be marked as rendered to, but no scan buffer is half filled.
FaultIsContained == outcome = "fault" => effects \subseteq Left(call)
===============================================================================
