------------------------------ MODULE IppJobState ------------------------------
(***************************************************************************)
(* parseJobState (cups.go): the walk through the bytes that CUPS answers   *)
(* when it is asked for the state of a job.                                *)
(*                                                                         *)
(* The walk follows lengths it finds in the answer.  A read outside the    *)
(* answer kills the program, whichever goroutine makes it: outcome         *)
(* "panic".  Each read with the checks before it is a step.                *)
(*                                                                         *)
(* CUPS is external: it writes a header and items; the answer may be cut   *)
(* or damaged before it is parsed.                                         *)
(***************************************************************************)
EXTENDS Integers, Sequences

CONSTANT JobState  \* the bytes of the name "job-state"

ASSUME JobStateAssumption == JobState \in Seq(0 .. 255)

VARIABLES
  raw,      \* the answer, a sequence of bytes
  written,  \* history: what CUPS wrote, and what happened to it since
  walk      \* the local variables of parseJobState, and its result

ippVars == <<raw, written, walk>>

Byte == 0 .. 255

Walk(at, offset, is) == [at |-> at, offset |-> offset, isJobState |-> is, outcome |-> "none"]

\* The bytes raw[lo:hi] are there.
Within(lo, hi) == 0 <= lo /\ lo <= hi /\ hi <= Len(raw)

Slice(lo, hi) == SubSeq(raw, lo + 1, hi)
Uint16At(lo)  == 256 * raw[lo + 1] + raw[lo + 2]

Finish(outcome) == walk' = [Walk("done", walk.offset, FALSE) EXCEPT !.outcome = outcome]

\* Read raw[lo:hi] and go on with step.
Reading(lo, hi, step) == IF Within(lo, hi) THEN step ELSE Finish("panic")

At(s) == walk.at = s

-----------------------------------------------------------------------------
NotFound == 1030  \* 0x0406

\* The status of the request.
Header ==
  /\ At("header")
  /\ IF Len(raw) < 8 THEN Finish("error")
     ELSE Reading(2, 4,
            IF Uint16At(2) = 0 THEN walk' = Walk("tag", 8, FALSE)
            ELSE IF Uint16At(2) = NotFound THEN Finish("unknown")
            ELSE Finish("error"))
  /\ UNCHANGED <<raw, written>>

EndTag     == 3
Delimiters == 0 .. 15

\* The tag of a group or of an attribute.
Tag ==
  /\ At("tag")
  /\ IF walk.offset >= Len(raw) THEN Finish("unknown")
     ELSE Reading(walk.offset, walk.offset + 1,
            LET tag == raw[walk.offset + 1]
            IN IF tag = EndTag THEN Finish("unknown")
               ELSE IF tag \in Delimiters THEN walk' = Walk("tag", walk.offset + 1, FALSE)
               ELSE walk' = Walk("name", walk.offset + 1, FALSE))
  /\ UNCHANGED <<raw, written>>

\* (Mutant: the length of the value is forgotten.)
NameAlone(nl) == walk.offset + 2 + nl <= Len(raw)

\* The name is there, and the length of the value after it.
NameFits(nl) == walk.offset + 2 + nl + 2 <= Len(raw)

\* The name of the attribute.
Name ==
  /\ At("name")
  /\ IF walk.offset + 4 > Len(raw) THEN Finish("error")
     ELSE Reading(walk.offset, walk.offset + 2,
            LET nl == Uint16At(walk.offset)
                lo == walk.offset + 2
            IN IF ~NameFits(nl) THEN Finish("error")
               ELSE Reading(lo, lo + nl,
                      walk' = Walk("value", lo + nl, Slice(lo, lo + nl) = JobState)))
  /\ UNCHANGED <<raw, written>>

ValueFits(vl) == walk.offset + 2 + vl <= Len(raw)

\* (Mutant: the low byte is looked at alone.)
LowByte(value) ==
  CASE value[4] \in {3, 4} -> "pending"
    [] value[4] \in {5, 6} -> "processing"
    [] value[4] \in {7, 8} -> "failed"
    [] value[4] = 9 -> "completed"
    [] OTHER -> "unknown"

\* The state that four bytes stand for.
StateOf(value) ==
  CASE value \in {<<0, 0, 0, 3>>, <<0, 0, 0, 4>>} -> "pending"
    [] value \in {<<0, 0, 0, 5>>, <<0, 0, 0, 6>>} -> "processing"
    [] value \in {<<0, 0, 0, 7>>, <<0, 0, 0, 8>>} -> "failed"
    [] value = <<0, 0, 0, 9>> -> "completed"
    [] OTHER -> "unknown"

\* (Mutant: the offset stays behind the length.)
BeforeValue(vl) == walk.offset + vl

AfterValue(vl) == walk.offset + 2 + vl

\* The value, which ends the walk if it is the state of the job.
Value ==
  /\ At("value")
  /\ Reading(walk.offset, walk.offset + 2,
       LET vl == Uint16At(walk.offset)
           lo == walk.offset + 2
       IN IF ~ValueFits(vl) THEN Finish("error")
          ELSE Reading(lo, lo + vl,
                 IF walk.isJobState /\ vl = 4
                 THEN Finish(StateOf(Slice(lo, lo + vl)))
                 ELSE walk' = Walk("tag", AfterValue(vl), FALSE)))
  /\ UNCHANGED <<raw, written>>

IppNext == Header \/ Tag \/ Name \/ Value

\* Any bytes whatever.
IppInit ==
  /\ raw \in Seq(Byte)
  /\ walk = Walk("header", 0, FALSE)

IppSpec == IppInit /\ [][IppNext]_ippVars

-----------------------------------------------------------------------------
\* What CUPS writes

\* An attribute is laid out as in the requests (ippAttr).
U16(n) == <<n \div 256, n % 256>>
IppAttr(tag, name, value) == <<tag>> \o U16(Len(name)) \o name \o U16(Len(value)) \o value

\* An item is its bytes and what they say of the job, if anything.
Item(bytes, says) == [bytes |-> bytes, says |-> says]

End              == Item(<<EndTag>>, "unknown")
Group(tag)       == Item(<<tag>>, "nothing")
State(n, says)   == Item(IppAttr(35, JobState, <<0, 0, 0, n>>), says)
Other(name, val) == Item(IppAttr(33, name, val), "nothing")

\* Any attribute; the state of the job, if it is one.
Attribute(tag, name, value) ==
  Item(IppAttr(tag, name, value),
       IF name = JobState /\ Len(value) = 4 THEN StateOf(value) ELSE "nothing")

\* What an answer says of the job: the first thing any of its items says.
Says(items) ==
  LET telling == {k \in DOMAIN items : items[k].says # "nothing"}
  IN IF telling = {} THEN "unknown"
     ELSE items[CHOOSE k \in telling : \A j \in telling : k <= j].says

\* Its length fits a field of two bytes.
Short(bytes) == Len(bytes) < 65536

IsAttribute(item, tag, name, value) ==
  /\ tag \in Byte \ Delimiters /\ name \in Seq(Byte) /\ value \in Seq(Byte)
  /\ Short(name) /\ Short(value)
  /\ item = Attribute(tag, name, value)

IsItem(item) ==
  \/ item = End
  \/ \E tag \in Delimiters \ {EndTag} : item = Group(tag)
  \/ \E tag, name, value : IsAttribute(item, tag, name, value)

\* The items follow each other from the header to the end, item k after start[k]
\* bytes, as far as the answer is there.
LaidOut(items, start) ==
  LET n == Len(items)
  IN /\ start \in [1 .. n + 1 -> Nat] /\ start[1] = 8
     /\ \A k \in 1 .. n :
          /\ start[k + 1] = start[k] + Len(items[k].bytes) /\ start[k + 1] <= start[n + 1]
          /\ \A i \in 1 .. Len(items[k].bytes) :
               start[k] + i <= Len(raw) => raw[start[k] + i] = items[k].bytes[i]

\* The answer to a request that CUPS fulfils, whole or cut short.
Fulfilled(start) ==
  /\ \A k \in DOMAIN written.items : IsItem(written.items[k])
  /\ LaidOut(written.items, start)
  /\ Len(raw) >= 8 => Uint16At(2) = 0
  /\ \/ written.fate = "whole" /\ Len(raw) = start[Len(written.items) + 1]
     \/ written.fate = "cut" /\ Len(raw) < start[Len(written.items) + 1]

\* The answer to a request that it does not.
Refused ==
  /\ written.fate = "whole" /\ Len(raw) >= 8 /\ Uint16At(2) # 0
  /\ written.items = <<Item(<<>>, IF Uint16At(2) = NotFound THEN "unknown" ELSE "error")>>

\* Any answer of CUPS, whatever happened to it.
AnswerInit ==
  /\ IppInit /\ written.items \in Seq([bytes : Seq(Byte), says : STRING])
  /\ written.fate = "damaged" \/ Refused \/ \E start : Fulfilled(start)

AnswerSpec == AnswerInit /\ [][IppNext]_ippVars

-----------------------------------------------------------------------------
\* Properties

\* No answer, cut or damaged anywhere, makes the walk read outside it, which would
\* end the program (the length checks of parseJobState).
NeverPanics == walk.outcome # "panic"

\* Whatever lengths an answer claims, each step gets ahead in it: the walk ends, and
\* with it the poll that waits for it (parseJobState).
Advances == [][walk'.offset > walk.offset \/ walk'.at = "done"]_walk

\* The outcome is what CUPS says of the job, however attributes with other names and
\* lengths surround it, and an answer cut short is never taken for another state
\* (parseJobState).
StateIsTrue ==
  At("done") =>
    \/ written.fate = "damaged"
    \/ walk.outcome = Says(written.items)
    \/ written.fate = "cut" /\ walk.outcome \in {"unknown", "error"}

=============================================================================
