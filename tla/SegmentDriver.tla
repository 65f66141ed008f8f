--------------------------- MODULE SegmentDriver ----------------------------
(***************************************************************************)
(* The seven segment display of lab3: the driver keeps a text and an       *)
(* index, write replaces the text, every read shows one character and      *)
(* moves the index.  The program writes its text and then reads once a     *)
(* second.  The driver has no lock: the calls of two programs mix.         *)
(*                                                                         *)
(* A character is a positive number and Nul is 0.  The seven pins change   *)
(* as one, and copy_from_user copies the text as one step: a read looks at *)
(* one character.                                                          *)
(***************************************************************************)
EXTENDS Integers, Sequences

CONSTANTS
  Programs,
  Arg,          (* the text each is started with; may be empty             *)
  DefaultId,    (* the text of a program without one                       *)
  Size          (* size of id_buffer; 128 in the code                      *)

Nul == 0

ASSUME SegmentAssumption ==
  /\ Size \in Nat \ {0, 1}
  /\ Arg \in [Programs -> Seq(Nat \ {Nul})]
  /\ DefaultId \in Seq(Nat \ {Nul}) /\ DefaultId # <<>>

VARIABLES
  together,                     (* do programs run at the same time?       *)
  id_buffer, id_length, idx,    (* of the driver                           *)
  lit,                          (* the character on the display            *)
  pc,                           (* where each program is                   *)
  next                          (* the index it has computed               *)

driver == <<id_buffer, id_length, idx>>
vars == <<together, driver, lit, pc, next>>

Writing == {"nul", "length", "reset"}
Reading == {"check", "fetch", "advance", "store"}

TypeOK ==
  /\ together \in BOOLEAN
  /\ id_buffer \in [0..(Size - 1) -> Nat]
  /\ id_length \in 0..(Size - 1)
  /\ idx \in 0..(Size - 1) /\ lit \in Nat
  /\ pc \in [Programs -> Writing \cup Reading \cup {"off", "ended"}]
  /\ next \in [Programs -> 0..(Size - 1)]

Init ==
  /\ together \in BOOLEAN
  /\ id_buffer = [i \in 0..(Size - 1) |-> Nul] /\ id_length = 0 /\ idx = 0
  /\ lit = Nul
  /\ pc = [p \in Programs |-> "off"]
  /\ next = [p \in Programs |-> 0]

(* A bug: an empty argument is taken.                                      *)
IdAnyArgument(p) == Arg[p]

Id(p) == IF Arg[p] # <<>> THEN Arg[p] ELSE DefaultId

(* A bug: the length is not limited.                                       *)
LengthUnlimited(p) == Len(Id(p))

(* How much of it the driver takes.                                        *)
Length(p) == IF Len(Id(p)) > Size - 1 THEN Size - 1 ELSE Len(Id(p))

Goto(p, from, to) == pc[p] = from /\ pc' = [pc EXCEPT ![p] = to]

-----------------------------------------------------------------------------
(* lab3_write.                                                             *)
Copy(p) ==
  /\ together \/ \A q \in Programs : pc[q] \in {"off", "ended"}
  /\ Goto(p, "off", "nul")
  /\ id_buffer' = [i \in 0..(Size - 1) |-> IF i < Length(p) THEN Id(p)[i + 1] ELSE id_buffer[i]]
  /\ UNCHANGED <<together, id_length, idx, lit, next>>

Terminate(p) ==
  /\ Goto(p, "nul", "length")
  /\ id_buffer' = [id_buffer EXCEPT ![Length(p)] = Nul]
  /\ UNCHANGED <<together, id_length, idx, lit, next>>

SetLength(p) ==
  /\ Goto(p, "length", "reset")
  /\ id_length' = Length(p)
  /\ UNCHANGED <<together, id_buffer, idx, lit, next>>

(* A bug: the index is not reset.                                          *)
StartKept == idx

Start == 0

(* A program whose text was cut ends: write has not returned its length.   *)
Reset(p) ==
  /\ Goto(p, "reset", IF Length(p) = Len(Id(p)) THEN "check" ELSE "ended")
  /\ idx' = Start
  /\ UNCHANGED <<together, id_buffer, id_length, lit, next>>

-----------------------------------------------------------------------------
(* lab3_read; without a text the program tries again.                      *)
Check(p) ==
  /\ Goto(p, "check", IF id_length = 0 THEN "check" ELSE "fetch")
  /\ UNCHANGED <<together, driver, lit, next>>

Fetch(p) ==
  /\ Goto(p, "fetch", "advance")
  /\ lit' = id_buffer[idx]
  /\ UNCHANGED <<together, driver, next>>

(* A bug: the index goes back one character too early.                     *)
AfterTooEarly(i) == IF i + 2 >= id_length THEN 0 ELSE i + 1

After(i) == (i + 1) % id_length

Advance(p) ==
  /\ Goto(p, "advance", "store")
  /\ next' = [next EXCEPT ![p] = After(idx)]
  /\ UNCHANGED <<together, driver, lit>>

Store(p) ==
  /\ Goto(p, "store", "check")
  /\ idx' = next[p]
  /\ UNCHANGED <<together, id_buffer, id_length, lit, next>>

(* Ctrl-C ends a program between two calls.                                *)
Stop(p) == Goto(p, "check", "ended") /\ UNCHANGED <<together, driver, lit, next>>

-----------------------------------------------------------------------------
Write(p) == Copy(p) \/ Terminate(p) \/ SetLength(p) \/ Reset(p)

Read(p) == Check(p) \/ Fetch(p) \/ Advance(p) \/ Store(p)

Next == \E p \in Programs : Write(p) \/ Read(p) \/ Stop(p)

Spec == Init /\ [][Next]_vars

(* A program that has started goes on until it is stopped.                 *)
FairSpec == Spec /\ \A p \in Programs : WF_vars(pc[p] # "off" /\ (Write(p) \/ Read(p)))

-----------------------------------------------------------------------------
(* Programs that run one after the other, cut short at any call: the       *)
(* display is a marquee of the last text (src/README.md:15).  A text       *)
(* counts from the first step of write on, and a character from when it is *)
(* lit.  Of programs that run together no such thing is said.              *)
InWrite == \E p \in Programs : pc[p] \in Writing
Lighting == \E p \in Programs : pc[p] \in {"advance", "store"}
Text(p) == SubSeq(Id(p), 1, Length(p))
displayText ==
  IF together THEN <<>>
  ELSE IF InWrite THEN Text(CHOOSE p \in Programs : pc[p] \in Writing)
       ELSE [i \in 1..id_length |-> id_buffer[i - 1]]
displayPos ==
  IF together \/ InWrite THEN 0 ELSE IF Lighting THEN (idx + 1) % id_length ELSE idx
displayShown == IF together THEN Nul ELSE lit
Display == INSTANCE Marquee WITH
  Texts <- {Text(p) : p \in Programs},
  text <- displayText, pos <- displayPos, shown <- displayShown
ImplementsMarquee == Display!Spec

(* Every character of the text comes up again (lab3_driver.c:112), unless  *)
(* the program ends or another one is in the driver as well.               *)
EveryCharacterShown ==
  \A p \in Programs : \A i \in 1..Len(Id(p)) :
    (pc[p] = "check" /\ ~together) ~> (lit = Id(p)[i] \/ pc[p] = "ended")

(* Programs that run together: whatever their calls do to each other, no   *)
(* read is made outside the buffer (lab3_driver.c:106) nor behind the      *)
(* longest text, and the length tested at line 103 has not become 0 when   *)
(* line 112 divides by it.                                                 *)
ReadsInside ==
  \A p \in Programs :
    /\ pc[p] = "fetch" => \E q \in Programs : idx < Length(q)
    /\ pc[p] = "advance" => id_length # 0

=============================================================================
