--------------------------- MODULE DevicesProofs ----------------------------
(***************************************************************************)
(* Theorems about the three displays.  SegmentDriver, for any programs and *)
(* texts: programs that run together make no read outside the buffer, and  *)
(* for one at a time the display is a marquee.                             *)
(***************************************************************************)
EXTENDS MCDevices, SequenceTheorems, TLAPS

-----------------------------------------------------------------------------
(* lab3: the inductive invariant *)

(* The length and the indices come from some program's text, ...           *)
InSomeText(i) == \E q \in Programs : i < Length(q)

(* ... and once a read has seen a length it does not become 0 again.       *)
Lengths ==
  /\ id_length = 0 \/ \E q \in Programs : id_length = Length(q)
  /\ \A p \in Programs :
       /\ InSomeText(idx) /\ InSomeText(next[p])
       /\ pc[p] \in {"fetch", "advance", "store"} => id_length # 0

Busy(p) == pc[p] \notin {"off", "ended"}

(* Programs that run one after the other: what each step of a call has     *)
(* done to the driver is what the next one finds.                          *)
InTurn ==
  /\ \A p, q \in Programs : Busy(p) /\ Busy(q) => p = q
  /\ \A p \in Programs :
       /\ pc[p] \in Writing => \A i \in 1..Length(p) : id_buffer[i - 1] = Id(p)[i]
       /\ pc[p] = "reset" => id_length = Length(p)
       /\ pc[p] = "store" => next[p] = (idx + 1) % id_length
  /\ InWrite \/ id_length = 0 \/ idx < id_length

DriverInv == TypeOK /\ Lengths /\ (~together => InTurn)

-----------------------------------------------------------------------------
(* lab3: the types, and the reads of programs that run together *)

LEMMA SizeType == Size \in Int /\ Size >= 2
BY SegmentAssumption DEF SegmentAssumption

(* The driver takes something of every text, and never more than fits.     *)
LEMMA TextFits ==
  ASSUME NEW p \in Programs
  PROVE  /\ Id(p) \in Seq(Nat \ {0}) /\ Len(Id(p)) \in Nat
         /\ Length(p) \in Int /\ 1 <= Length(p) /\ Length(p) <= Size - 1
         /\ Length(p) <= Len(Id(p))
         /\ \A i \in 1..Length(p) : Id(p)[i] \in Nat
<1>1. Arg[p] \in Seq(Nat \ {0}) /\ DefaultId \in Seq(Nat \ {0}) /\ DefaultId # <<>>
  BY SegmentAssumption DEF SegmentAssumption, Nul
<1>2. Id(p) \in Seq(Nat \ {0}) /\ Id(p) # <<>>
  BY <1>1 DEF Id
<1>3. Len(Id(p)) \in Nat \ {0}
  BY <1>2, EmptySeq
<1>4. /\ Length(p) \in Int /\ 1 <= Length(p) /\ Length(p) <= Size - 1
      /\ Length(p) <= Len(Id(p))
  BY <1>3, SizeType DEF Length
<1>5. \A i \in 1..Length(p) : i \in 1..Len(Id(p))
  BY <1>3, <1>4
<1>6. \A i \in 1..Len(Id(p)) : Id(p)[i] \in Nat \ {0}
  BY <1>2, ElementOfSeq
<1> QED
  BY <1>2, <1>3, <1>4, <1>5, <1>6

(* The remainder of a division, as the driver computes the next index.     *)
LEMMA Remainder ==
  ASSUME NEW x \in Int, NEW m \in Int, m > 0
  PROVE  x % m \in Int /\ 0 <= x % m /\ x % m < m
OBVIOUS

LEMMA DriverInit == Init => DriverInv
<1> SUFFICES ASSUME Init PROVE DriverInv
  OBVIOUS
<1>1. TypeOK
  BY SizeType DEF Init, TypeOK, Nul, Writing, Reading
<1>2. Lengths
  BY TextFits DEF Init, Lengths, InSomeText
<1>3. InTurn
  BY DEF Init, InTurn, Busy, InWrite, Writing
<1> QED
  BY <1>1, <1>2, <1>3 DEF DriverInv

(* Each step keeps the types.                                              *)
LEMMA DriverTypes ==
  ASSUME DriverInv, NEW p \in Programs, Write(p) \/ Read(p) \/ Stop(p)
  PROVE  TypeOK'
<1> DEFINE Cells == 0..(Size - 1)
<1>1. /\ TypeOK /\ Size \in Int /\ Size >= 2
      /\ Length(p) \in Cells /\ 1 <= Length(p) /\ 0 \in Cells
  BY TextFits, SizeType DEF DriverInv
<1>2. together' = together /\ together' \in BOOLEAN
  BY <1>1 DEF TypeOK, Write, Copy, Terminate, SetLength, Reset, Read, Check, Fetch, Advance, Store, Stop
<1>3. pc' \in [Programs -> Writing \cup Reading \cup {"off", "ended"}]
  BY <1>1 DEF TypeOK, Write, Copy, Terminate, SetLength, Reset, Read, Check, Fetch, Advance,
              Store, Stop, Goto, Writing, Reading
<1>4. id_buffer' \in [Cells -> Nat]
  <2>1. CASE Copy(p)
    <3>1. \A i \in Cells : i < Length(p) => i + 1 \in 1..Length(p)
      BY <1>1
    <3>2. \A i \in Cells : (IF i < Length(p) THEN Id(p)[i + 1] ELSE id_buffer[i]) \in Nat
      BY <1>1, <3>1, TextFits DEF TypeOK
    <3> QED
      BY <2>1, <3>2 DEF Copy
  <2>2. CASE Terminate(p)
    BY <1>1, <2>2 DEF Terminate, TypeOK, Nul
  <2>3. CASE ~Copy(p) /\ ~Terminate(p)
    BY <1>1, <2>3 DEF TypeOK, Write, SetLength, Reset, Read, Check, Fetch, Advance, Store, Stop, driver
  <2> QED
    BY <2>1, <2>2, <2>3
<1>5. id_length' \in Cells
  BY <1>1 DEF TypeOK, Write, Copy, Terminate, SetLength, Reset, Read, Check, Fetch, Advance, Store, Stop, driver
<1>6. idx' \in Cells
  BY <1>1 DEF TypeOK, Write, Copy, Terminate, SetLength, Reset, Start, Read, Check, Fetch, Advance, Store, Stop, driver
<1>7. lit' \in Nat
  BY <1>1 DEF TypeOK, Write, Copy, Terminate, SetLength, Reset, Read, Check, Fetch, Advance, Store, Stop, driver
<1>8. next' \in [Programs -> Cells]
  <2>1. CASE Advance(p)
    <3>1. id_length \in Int /\ id_length > 0 /\ id_length <= Size - 1 /\ idx + 1 \in Int
      BY <1>1, <2>1 DEF DriverInv, Lengths, Advance, Goto, TypeOK
    <3>2. After(idx) \in Cells
      BY <1>1, <3>1, Remainder DEF After
    <3> QED
      BY <1>1, <2>1, <3>2 DEF Advance, TypeOK
  <2>2. CASE ~Advance(p)
    BY <1>1, <2>2 DEF TypeOK, Write, Copy, Terminate, SetLength, Reset, Read, Check, Fetch, Store, Stop
  <2> QED
    BY <2>1, <2>2
<1> QED
  BY <1>2, <1>3, <1>4, <1>5, <1>6, <1>7, <1>8 DEF TypeOK

(* However the calls of the programs mix, the indices stay within a text.  *)
LEMMA LengthsStep ==
  ASSUME DriverInv, NEW p \in Programs, Write(p) \/ Read(p) \/ Stop(p)
  PROVE  Lengths'
<1>1. TypeOK /\ Lengths /\ Length(p) \in Int /\ 1 <= Length(p)
  BY TextFits DEF DriverInv
<1>2. /\ InSomeText(0)
      /\ InSomeText(idx) /\ \A q \in Programs : InSomeText(next[q])
  BY <1>1 DEF Lengths, InSomeText
<1>3. CASE SetLength(p)
  <2>1. id_length' = Length(p) /\ id_length' # 0
    BY <1>1, <1>3 DEF SetLength
  <2>2. UNCHANGED <<idx, next>>
    BY <1>3 DEF SetLength
  <2> QED
    BY <1>2, <2>1, <2>2 DEF Lengths, InSomeText
<1>4. CASE Reset(p) \/ Store(p)
  <2>1. UNCHANGED <<id_length, next>>
    BY <1>4 DEF Reset, Store
  <2>2. InSomeText(idx')
    BY <1>2, <1>4 DEF Reset, Start, Store
  <2>3. \A q \in Programs : pc'[q] \in {"fetch", "advance", "store"} => pc'[q] = pc[q]
    BY <1>1, <1>4 DEF Reset, Store, Goto, TypeOK
  <2> QED
    BY <1>1, <1>2, <2>1, <2>2, <2>3 DEF Lengths, InSomeText
<1>5. CASE Advance(p)
  <2>1. id_length \in Int /\ id_length > 0 /\ idx + 1 \in Int
    BY <1>1, <1>5 DEF Lengths, Advance, Goto, TypeOK
  <2>2. After(idx) \in Int /\ After(idx) < id_length
    BY <2>1, Remainder DEF After
  <2>3. InSomeText(After(idx))
    BY <1>1, <2>1, <2>2 DEF Lengths, InSomeText
  <2>4. \A q \in Programs : InSomeText(next'[q])
    BY <1>1, <1>2, <1>5, <2>3 DEF Advance, TypeOK
  <2>5. UNCHANGED <<idx, id_length>>
    BY <1>5 DEF Advance, driver
  <2> QED
    <3>1. id_length' # 0 /\ \E q \in Programs : id_length' = Length(q)
      BY <1>1, <2>1, <2>5 DEF Lengths
    <3>2. \A q \in Programs : InSomeText(idx')
      BY <1>2, <2>5
    <3> HIDE DEF InSomeText
    <3> QED
      BY <2>4, <3>1, <3>2 DEF Lengths
<1>6. CASE Copy(p) \/ Terminate(p) \/ Check(p) \/ Fetch(p) \/ Stop(p)
  <2>1. UNCHANGED <<id_length, idx, next>>
    BY <1>6 DEF Copy, Terminate, Check, Fetch, Stop, driver
  <2>2. \A q \in Programs :
          pc'[q] \in {"fetch", "advance", "store"} =>
            id_length # 0 \/ pc[q] \in {"fetch", "advance", "store"}
    BY <1>1, <1>6 DEF Copy, Terminate, Check, Fetch, Stop, Goto, TypeOK
  <2> QED
    BY <1>1, <1>2, <2>1, <2>2 DEF Lengths, InSomeText
<1> QED
  BY <1>3, <1>4, <1>5, <1>6 DEF Write, Read

-----------------------------------------------------------------------------
(* lab3: programs that run one after the other *)

(* Only the program that makes the step is busy.                           *)
LEMMA OthersIdle ==
  ASSUME DriverInv, ~together, NEW p \in Programs, Write(p) \/ Read(p) \/ Stop(p)
  PROVE  /\ \A q \in Programs \ {p} : pc[q] \in {"off", "ended"} /\ pc'[q] = pc[q]
         /\ together' = together
<1>1. TypeOK /\ InTurn
  BY DEF DriverInv
<1>2. \A q \in Programs \ {p} : pc'[q] = pc[q]
  BY <1>1 DEF TypeOK, Write, Copy, Terminate, SetLength, Reset, Read, Check, Fetch, Advance, Store, Stop, Goto
<1>3. \A q \in Programs \ {p} : pc[q] \in {"off", "ended"}
  <2>1. CASE Copy(p)
    BY <2>1 DEF Copy
  <2>2. CASE ~Copy(p)
    <3>1. Busy(p)
      BY <2>2 DEF Write, Terminate, SetLength, Reset, Read, Check, Fetch, Advance, Store, Stop, Goto, Busy
    <3> QED
      BY <1>1, <3>1 DEF InTurn, Busy
  <2> QED
    BY <2>1, <2>2
<1>4. together' = together
  BY DEF Write, Copy, Terminate, SetLength, Reset, Read, Check, Fetch, Advance, Store, Stop
<1> QED
  BY <1>2, <1>3, <1>4

(* So the others are neither writing nor reading.                          *)
LEMMA InTurnStep ==
  ASSUME DriverInv, ~together, NEW p \in Programs, Write(p) \/ Read(p) \/ Stop(p)
  PROVE  InTurn'
<1>1. /\ TypeOK /\ TypeOK' /\ Lengths /\ InTurn
      /\ Length(p) \in Int /\ 1 <= Length(p) /\ Length(p) <= Size - 1
  BY DriverTypes, TextFits DEF DriverInv
<1>2. \A q \in Programs \ {p} : pc[q] \in {"off", "ended"} /\ pc'[q] \in {"off", "ended"}
  BY OthersIdle
<1>3. \A q, r \in Programs : Busy(q)' /\ Busy(r)' => q = r
  BY <1>2 DEF Busy
<1>4. \A q \in Programs : /\ pc[q] \in Writing \/ pc[q] = "store" => q = p
                          /\ pc'[q] \in Writing \/ pc'[q] = "store" => q = p
  BY <1>2 DEF Writing
<1>5. /\ pc'[p] \in Writing => \A i \in 1..Length(p) : id_buffer'[i - 1] = Id(p)[i]
      /\ pc'[p] = "reset" => id_length' = Length(p)
      /\ pc'[p] = "store" => next'[p] = (idx' + 1) % id_length'
  <2>1. CASE Copy(p)
    <3>1. pc'[p] = "nul"
      BY <1>1, <2>1 DEF Copy, Goto, TypeOK
    <3>2. ASSUME NEW i \in 1..Length(p) PROVE id_buffer'[i - 1] = Id(p)[i]
      <4>1. i - 1 \in 0..(Size - 1) /\ i - 1 < Length(p) /\ (i - 1) + 1 = i
        BY <1>1, SizeType
      <4> QED
        BY <2>1, <4>1 DEF Copy
    <3> QED
      BY <3>1, <3>2
  <2>2. CASE Terminate(p)
    <3>1. pc[p] = "nul" /\ pc'[p] = "length"
      BY <1>1, <2>2 DEF Terminate, Goto, TypeOK
    <3>2. ASSUME NEW i \in 1..Length(p) PROVE id_buffer'[i - 1] = Id(p)[i]
      <4>1. i - 1 \in 0..(Size - 1) /\ i - 1 # Length(p)
        BY <1>1, SizeType
      <4>2. id_buffer[i - 1] = Id(p)[i]
        BY <1>1, <3>1 DEF InTurn, Writing
      <4> QED
        BY <1>1, <2>2, <4>1, <4>2 DEF Terminate, TypeOK
    <3> QED
      BY <3>1, <3>2
  <2>3. CASE SetLength(p)
    <3>1. pc[p] = "length" /\ pc'[p] = "reset" /\ id_length' = Length(p) /\ id_buffer' = id_buffer
      BY <1>1, <2>3 DEF SetLength, Goto, TypeOK
    <3> QED
      BY <1>1, <3>1 DEF InTurn, Writing
  <2>4. CASE Reset(p) \/ Check(p) \/ Fetch(p) \/ Store(p) \/ Stop(p)
    <3>1. pc'[p] \in {"check", "ended", "fetch", "advance"}
      BY <1>1, <2>4 DEF Reset, Check, Fetch, Store, Stop, Goto, TypeOK
    <3> QED
      BY <3>1 DEF Writing
  <2>5. CASE Advance(p)
    <3>1. pc'[p] = "store" /\ next'[p] = (idx + 1) % id_length /\ UNCHANGED <<idx, id_length>>
      BY <1>1, <2>5 DEF Advance, After, Goto, TypeOK, driver
    <3> QED
      BY <3>1 DEF Writing
  <2> QED
    BY <2>1, <2>2, <2>3, <2>4, <2>5 DEF Write, Read
<1>6. InWrite' \/ id_length' = 0 \/ idx' < id_length'
  <2>1. CASE Copy(p) \/ Terminate(p) \/ SetLength(p)
    <3>1. pc'[p] \in Writing
      BY <1>1, <2>1 DEF Copy, Terminate, SetLength, Goto, TypeOK, Writing
    <3> QED
      BY <3>1 DEF InWrite
  <2>2. CASE Reset(p)
    <3>1. pc[p] = "reset" /\ idx' = 0 /\ id_length' = id_length
      BY <1>1, <2>2 DEF Reset, Start, Goto
    <3>2. id_length = Length(p)
      BY <1>1, <3>1 DEF InTurn
    <3> QED
      BY <1>1, <3>1, <3>2
  <2>3. CASE Store(p)
    <3>1. pc[p] = "store" /\ idx' = next[p] /\ id_length' = id_length
      BY <1>1, <2>3 DEF Store, Goto
    <3>2. next[p] = (idx + 1) % id_length /\ id_length # 0
      BY <1>1, <3>1 DEF InTurn, Lengths
    <3>3. id_length \in Int /\ id_length > 0 /\ idx + 1 \in Int
      BY <1>1, <3>2 DEF TypeOK
    <3> QED
      BY <3>1, <3>2, <3>3, Remainder
  <2>4. CASE Check(p) \/ Fetch(p) \/ Advance(p) \/ Stop(p)
    <3>1. UNCHANGED <<id_length, idx>>
      BY <2>4 DEF Check, Fetch, Advance, Stop, driver
    <3>2. pc[p] \notin Writing
      BY <2>4 DEF Check, Fetch, Advance, Stop, Goto, Writing
    <3>3. ~InWrite
      BY <1>4, <3>2 DEF InWrite
    <3> QED
      BY <1>1, <3>1, <3>3 DEF InTurn
  <2> QED
    BY <2>1, <2>2, <2>3, <2>4 DEF Write, Read
<1> QED
  BY <1>3, <1>4, <1>5, <1>6 DEF InTurn, Writing

LEMMA DriverStep ==
  ASSUME DriverInv, [Next]_vars
  PROVE  DriverInv'
<1>1. CASE \E p \in Programs : Write(p) \/ Read(p) \/ Stop(p)
  <2>1. PICK p \in Programs : Write(p) \/ Read(p) \/ Stop(p)
    BY <1>1
  <2>2. TypeOK' /\ Lengths'
    BY <2>1, DriverTypes, LengthsStep
  <2>3. together' = together
    BY <2>1 DEF Write, Copy, Terminate, SetLength, Reset, Read, Check, Fetch, Advance, Store, Stop
  <2>4. ~together => InTurn'
    BY <2>1, InTurnStep
  <2> QED
    BY <2>2, <2>3, <2>4 DEF DriverInv
<1>2. CASE UNCHANGED vars
  <2>1. UNCHANGED <<together, id_buffer, id_length, idx, lit, pc, next>>
    BY <1>2 DEF vars, driver
  <2>2. (TypeOK <=> TypeOK') /\ (Lengths <=> Lengths') /\ (InTurn <=> InTurn')
    BY <2>1 DEF TypeOK, Lengths, InSomeText, InTurn, Busy, InWrite
  <2> QED
    BY <2>1, <2>2 DEF DriverInv
<1> QED
  BY <1>1, <1>2 DEF Next

LEMMA DriverInvariance == Spec => []DriverInv
BY DriverInit, DriverStep, PTL DEF Spec

(* lab3_driver.c:103-112: whatever the calls of several programs do to     *)
(* each other, no read is made outside the buffer or behind the longest    *)
(* text, and the length that was tested is not 0 when it divides.          *)
THEOREM NoReadOutside == Spec => []ReadsInside
<1>1. DriverInv => ReadsInside
  BY DEF DriverInv, Lengths, InSomeText, ReadsInside
<1> QED
  BY <1>1, DriverInvariance, PTL

-----------------------------------------------------------------------------
(* lab3: the display is a marquee *)

(* If only one program is somewhere, it is the one that is chosen.         *)
LEMMA TheOnlyOne ==
  ASSUME NEW f, NEW S, NEW p \in Programs, f[p] \in S,
         \A q \in Programs \ {p} : f[q] \notin S
  PROVE  (CHOOSE q \in Programs : f[q] \in S) = p
OBVIOUS

(* The characters in the driver, as a text.                                *)
LEMMA Characters ==
  ASSUME TypeOK
  PROVE  LET t == [i \in 1..id_length |-> id_buffer[i - 1]] IN
         t \in Seq(Nat) /\ Len(t) = id_length /\ \A i \in 1..id_length : t[i] = id_buffer[i - 1]
<1> DEFINE t == [i \in 1..id_length |-> id_buffer[i - 1]]
<1>1. id_length \in Nat /\ id_length <= Size - 1 /\ id_buffer \in [0..(Size - 1) -> Nat]
  BY SizeType DEF TypeOK
<1>2. \A i \in 1..id_length : i - 1 \in 0..(Size - 1)
  BY <1>1, SizeType
<1>3. t \in [1..id_length -> Nat]
  BY <1>1, <1>2
<1>4. \A i \in 1..id_length : t[i] = id_buffer[i - 1]
  OBVIOUS
<1> HIDE DEF t
<1>5. t \in Seq(Nat) /\ Len(t) = id_length
  BY <1>1, <1>3
<1> QED
  BY <1>4, <1>5 DEF t

LEMMA MarqueeInit == Init => Display!Init
<1> SUFFICES ASSUME Init PROVE Display!Init
  OBVIOUS
<1>1. ~InWrite /\ ~Lighting /\ id_length = 0 /\ idx = 0 /\ lit = 0
  BY DEF Init, InWrite, Lighting, Writing, Nul
<1>2. TypeOK
  BY DriverInit DEF DriverInv
<1>3. [i \in 1..id_length |-> id_buffer[i - 1]] = <<>>
  BY <1>1, <1>2, Characters, EmptySeq
<1> QED
  BY <1>1, <1>3 DEF Display!Init, displayText, displayPos, displayShown, Nul

(* The first step of write sets the text, a read shows one character of    *)
(* it, and the other steps change nothing that can be seen.                *)
LEMMA MarqueeProgramStep ==
  ASSUME DriverInv, DriverInv', ~together, NEW p \in Programs, Write(p) \/ Read(p) \/ Stop(p)
  PROVE  Display!Next \/ UNCHANGED Display!vars
<1> DEFINE text == [i \in 1..id_length |-> id_buffer[i - 1]]
<1>1. TypeOK /\ Lengths /\ InTurn /\ ~together'
  BY OthersIdle DEF DriverInv
<1>2. \A q \in Programs \ {p} : pc[q] \in {"off", "ended"} /\ pc'[q] \in {"off", "ended"}
  BY OthersIdle
<1>3. ASSUME pc[p] \in Writing
      PROVE  displayText = Text(p) /\ displayPos = 0
  <2>1. \A q \in Programs \ {p} : pc[q] \notin Writing
    BY <1>2 DEF Writing
  <2>2. (CHOOSE q \in Programs : pc[q] \in Writing) = p
    BY <1>3, <2>1, TheOnlyOne
  <2>3. InWrite
    BY <1>3 DEF InWrite
  <2> QED
    BY <2>2, <2>3 DEF displayText, displayPos
<1>4. ASSUME pc'[p] \in Writing
      PROVE  displayText' = Text(p) /\ displayPos' = 0
  <2>1. \A q \in Programs \ {p} : pc'[q] \notin Writing
    BY <1>2 DEF Writing
  <2>2. (CHOOSE q \in Programs : pc'[q] \in Writing) = p
    BY <1>4, <2>1, TheOnlyOne
  <2>3. InWrite'
    BY <1>4 DEF InWrite
  <2> QED
    BY <1>1, <2>2, <2>3 DEF displayText, displayPos
<1>5. ASSUME pc[p] \notin Writing
      PROVE  /\ displayText = text
             /\ displayPos = IF pc[p] \in {"advance", "store"} THEN (idx + 1) % id_length ELSE idx
  <2>1. ~InWrite
    BY <1>2, <1>5 DEF InWrite, Writing
  <2>2. Lighting <=> pc[p] \in {"advance", "store"}
    BY <1>2 DEF Lighting
  <2> QED
    BY <2>1, <2>2 DEF displayText, displayPos
<1>6. ASSUME pc'[p] \notin Writing
      PROVE  /\ displayText' = text'
             /\ displayPos' = IF pc'[p] \in {"advance", "store"} THEN (idx' + 1) % id_length' ELSE idx'
  <2>1. ~InWrite'
    BY <1>2, <1>6 DEF InWrite, Writing
  <2>2. Lighting' <=> pc'[p] \in {"advance", "store"}
    BY <1>2 DEF Lighting
  <2> QED
    BY <1>1, <2>1, <2>2 DEF displayText, displayPos
<1>7. displayShown = lit /\ displayShown' = lit'
  BY <1>1 DEF displayShown
<1> HIDE DEF text
<1>8. CASE Copy(p)
  <2>1. pc'[p] \in Writing /\ lit' = lit
    BY <1>1, <1>8 DEF Copy, Goto, TypeOK, Writing
  <2>2. displayText' \in {Text(q) : q \in Programs} /\ displayPos' = 0
    BY <1>4, <2>1
  <2>3. Display!SetText
    BY <1>7, <2>1, <2>2 DEF Display!SetText
  <2> QED
    BY <2>3 DEF Display!Next
<1>9. CASE Terminate(p) \/ SetLength(p)
  <2>1. pc[p] \in Writing /\ pc'[p] \in Writing /\ lit' = lit
    BY <1>1, <1>9 DEF Terminate, SetLength, Goto, TypeOK, Writing
  <2> QED
    BY <1>3, <1>4, <1>7, <2>1 DEF Display!vars
<1>10. CASE Reset(p)
  <2>1. /\ pc[p] = "reset" /\ pc'[p] \in {"check", "ended"}
        /\ UNCHANGED <<id_buffer, id_length, lit>> /\ idx' = 0
    BY <1>1, <1>10 DEF Reset, Start, Goto, TypeOK
  <2>2. /\ Text(p) \in Seq(Nat) /\ Len(Text(p)) = Length(p)
        /\ \A i \in 1..Length(p) : Text(p)[i] = Id(p)[i]
    <3>1. /\ SubSeq(Id(p), 1, Length(p)) \in Seq(Nat)
          /\ Len(SubSeq(Id(p), 1, Length(p))) =
               IF 1 <= Length(p) THEN Length(p) - 1 + 1 ELSE 0
          /\ \A i \in 1..(Length(p) - 1 + 1) :
               SubSeq(Id(p), 1, Length(p))[i] = Id(p)[1 + i - 1]
      BY TextFits, SubSeqProperties
    <3> QED
      BY <3>1, TextFits DEF Text
  <2>3. id_length = Length(p) /\ \A i \in 1..Length(p) : id_buffer[i - 1] = Id(p)[i]
    BY <1>1, <2>1 DEF InTurn, Writing
  <2>4. text \in Seq(Nat) /\ Len(text) = id_length /\ \A i \in 1..id_length : text[i] = id_buffer[i - 1]
    BY <1>1, Characters DEF text
  <2>5. \A i \in 1..Len(text) : text[i] = Text(p)[i]
    BY <2>2, <2>3, <2>4
  <2>6. text = Text(p)
    BY <2>2, <2>3, <2>4, <2>5, SeqEqual
  <2>7. text' = text
    BY <2>1 DEF text
  <2> QED
    BY <1>3, <1>6, <1>7, <2>1, <2>6, <2>7 DEF Display!vars, Writing
<1>11. CASE Check(p) \/ Stop(p)
  <2>1. /\ pc[p] = "check" /\ pc'[p] \in {"check", "fetch", "ended"}
        /\ UNCHANGED <<id_buffer, id_length, idx, lit>>
    BY <1>1, <1>11 DEF Check, Stop, Goto, TypeOK, driver
  <2>2. text' = text
    BY <2>1 DEF text
  <2> QED
    BY <1>5, <1>6, <1>7, <2>1, <2>2 DEF Display!vars, Writing
<1>12. CASE Fetch(p)
  <2>1. /\ pc[p] = "fetch" /\ pc'[p] = "advance" /\ lit' = id_buffer[idx]
        /\ UNCHANGED <<id_buffer, id_length, idx>>
    BY <1>1, <1>12 DEF Fetch, Goto, TypeOK, driver
  <2>2. text' = text
    BY <2>1 DEF text
  <2>3. text \in Seq(Nat) /\ Len(text) = id_length /\ \A i \in 1..id_length : text[i] = id_buffer[i - 1]
    BY <1>1, Characters DEF text
  <2>4. ~InWrite /\ id_length # 0
    BY <1>1, <1>2, <2>1 DEF Lengths, InWrite, Writing
  <2>5. id_length \in Int /\ idx \in Int /\ 0 <= idx /\ idx < id_length
    BY <1>1, <2>4 DEF InTurn, TypeOK
  <2>6. text # <<>> /\ lit' = text[idx + 1]
    <3>1. idx + 1 \in 1..id_length /\ (idx + 1) - 1 = idx
      BY <2>5
    <3> QED
      BY <2>1, <2>3, <2>4, <3>1, EmptySeq
  <2>7. /\ displayText = text /\ displayText' = text
        /\ displayPos = idx /\ displayPos' = (idx + 1) % id_length
    BY <1>5, <1>6, <2>1, <2>2 DEF Writing
  <2>8. Display!Show
    BY <1>7, <2>3, <2>6, <2>7 DEF Display!Show
  <2> QED
    BY <2>8 DEF Display!Next
<1>13. CASE Advance(p)
  <2>1. /\ pc[p] = "advance" /\ pc'[p] = "store"
        /\ UNCHANGED <<id_buffer, id_length, idx, lit>>
    BY <1>1, <1>13 DEF Advance, Goto, TypeOK, driver
  <2>2. text' = text
    BY <2>1 DEF text
  <2> QED
    BY <1>5, <1>6, <1>7, <2>1, <2>2 DEF Display!vars, Writing
<1>14. CASE Store(p)
  <2>1. /\ pc[p] = "store" /\ pc'[p] = "check" /\ idx' = next[p]
        /\ UNCHANGED <<id_buffer, id_length, lit>>
    BY <1>1, <1>14 DEF Store, Goto, TypeOK
  <2>2. next[p] = (idx + 1) % id_length
    BY <1>1, <2>1 DEF InTurn
  <2>3. text' = text
    BY <2>1 DEF text
  <2> QED
    BY <1>5, <1>6, <1>7, <2>1, <2>2, <2>3 DEF Display!vars, Writing
<1> QED
  BY <1>8, <1>9, <1>10, <1>11, <1>12, <1>13, <1>14 DEF Write, Read

LEMMA MarqueeStep ==
  ASSUME DriverInv, DriverInv', [Next]_vars
  PROVE  [Display!Next]_Display!vars
<1>1. CASE together /\ together'
  BY <1>1 DEF Display!vars, displayText, displayPos, displayShown
<1>2. CASE ~together /\ \E p \in Programs : Write(p) \/ Read(p) \/ Stop(p)
  BY <1>2, MarqueeProgramStep
<1>3. CASE UNCHANGED vars
  BY <1>3 DEF vars, driver, Display!vars, displayText, displayPos, displayShown, InWrite, Lighting
<1>4. together' = together
  BY DEF Next, vars, Write, Copy, Terminate, SetLength, Reset, Read, Check, Fetch, Advance, Store, Stop
<1> QED
  BY <1>1, <1>2, <1>3, <1>4 DEF Next

(* src/README.md:15: programs that run one after the other, each cut short *)
(* at any call, make the display a marquee of the last text.               *)
THEOREM MarqueeImplemented == Spec => ImplementsMarquee
BY DriverInvariance, MarqueeInit, MarqueeStep, PTL DEF Spec, ImplementsMarquee, Display!Spec

-----------------------------------------------------------------------------
(* hw1: the LEDs *)

(* A loop of the driver is run through once even if the distance is 0.     *)
Rounds(s) == IF Distance[s] > MaxLed THEN MaxLed ELSE IF Distance[s] = 0 THEN 1 ELSE Distance[s]

MenuParts ==
  /\ menu_pc \in [Menus -> Meal!Prompts \cup Meal!InDriver \cup {"ended"}]
  /\ shop \in [Menus -> Meal!Options \cup {Meal!Unset}]
  /\ \A p \in Menus : menu_pc[p] \notin {"main", "shop", "ended"} => shop[p] \in Shops
  /\ loop \in [Menus -> Nat]
  /\ leds \subseteq Meal!Led

(* Every loop starts at 0 and ends with the kilometres of the shop, which  *)
(* does not change meanwhile.                                              *)
Loops ==
  \A p \in Menus :
    /\ menu_pc[p] \notin Meal!InDriver => loop[p] = 0
    /\ menu_pc[p] \in {"light", "clear"} => loop[p] < Rounds(shop[p])

(* A program that has lit this LED and is still to clear it.               *)
Owes(p, led) ==
  \/ menu_pc[p] = "light" /\ led < loop[p]
  \/ menu_pc[p] = "clear" /\ loop[p] <= led /\ led < Rounds(shop[p])

Owed == \A led \in leds : \E p \in Menus : Owes(p, led)

MenuInv == MenuParts /\ Loops /\ Owed

LEMMA MealConstants ==
  /\ Shops \subseteq 0..4 /\ \A s \in Shops : Distance[s] \in Nat
  /\ MaxLed \in Nat /\ MaxLed >= 1
BY DeviceAssumption DEF Meal!MealAssumption, Meal!Options

LEMMA RoundsType ==
  ASSUME NEW s \in Shops
  PROVE  Rounds(s) \in Int /\ 1 <= Rounds(s) /\ Rounds(s) <= MaxLed
BY MealConstants DEF Rounds

(* What a loop does with its index: one further, or back to 0 at the end.  *)
LEMMA LoopTurn ==
  ASSUME MenuParts, NEW p \in Menus, shop[p] \in Shops,
         NEW from \in Meal!InDriver, NEW to \in {"clear", "digits"},
         Meal!Loop(p, from, Meal!Km(p), to)
  PROVE  /\ menu_pc[p] = from
         /\ \/ /\ loop[p] + 1 < Rounds(shop[p])
               /\ menu_pc' = menu_pc /\ loop' = [loop EXCEPT ![p] = loop[p] + 1]
            \/ /\ loop[p] + 1 >= Rounds(shop[p])
               /\ menu_pc' = [menu_pc EXCEPT ![p] = to] /\ loop' = [loop EXCEPT ![p] = 0]
<1>1. /\ loop[p] \in Nat /\ Rounds(shop[p]) \in Int
      /\ menu_pc \in [Menus -> Meal!Prompts \cup Meal!InDriver \cup {"ended"}]
  BY RoundsType DEF MenuParts
<1>2. loop[p] + 1 < Meal!Km(p) <=> loop[p] + 1 < Rounds(shop[p])
  BY <1>1, MealConstants DEF Meal!Km, Rounds
<1>3. menu_pc[p] = from
  BY DEF Meal!Loop
<1>4. CASE loop[p] + 1 < Meal!Km(p)
  <2>1. menu_pc' = [menu_pc EXCEPT ![p] = from] /\ loop' = [loop EXCEPT ![p] = loop[p] + 1]
    BY <1>4 DEF Meal!Loop, Meal!Goto
  <2>2. menu_pc' = menu_pc
    BY <1>1, <1>3, <2>1
  <2> QED
    BY <1>2, <1>3, <1>4, <2>1, <2>2
<1>5. CASE ~(loop[p] + 1 < Meal!Km(p))
  <2>1. menu_pc' = [menu_pc EXCEPT ![p] = to] /\ loop' = [loop EXCEPT ![p] = 0]
    BY <1>5 DEF Meal!Loop, Meal!Goto
  <2>2. loop[p] + 1 >= Rounds(shop[p])
    BY <1>1, <1>2, <1>5
  <2> QED
    BY <1>3, <2>1, <2>2
<1> QED
  BY <1>4, <1>5

LEMMA MenuInit == Meal!Init => MenuInv
<1> SUFFICES ASSUME Meal!Init PROVE MenuInv
  OBVIOUS
<1>1. /\ \A p \in Menus : menu_pc[p] = "main" /\ loop[p] = 0
      /\ leds = {}
  BY DEF Meal!Init
<1>2. MenuParts
  BY <1>1 DEF Meal!Init, MenuParts, Meal!Prompts, Meal!Options, Meal!Unset
<1>3. Loops /\ Owed
  BY <1>1 DEF Loops, Owed, Meal!InDriver
<1> QED
  BY <1>2, <1>3 DEF MenuInv

(* In the menu a program touches no LED, and it enters the driver with a   *)
(* shop and with its index at 0.                                           *)
LEMMA MenuStep ==
  ASSUME MenuInv, NEW p \in Menus,
         Meal!Main(p) \/ Meal!Shop(p) \/ Meal!Item(p) \/ Meal!Amount(p) \/ Meal!Stop(p)
  PROVE  MenuInv'
<1>1. MenuParts /\ Loops /\ Owed
  BY DEF MenuInv
<1>2. UNCHANGED <<loop, leds>>
  BY DEF Meal!Main, Meal!Shop, Meal!Item, Meal!Amount, Meal!Stop
<1>3. /\ menu_pc[p] \in Meal!Prompts
      /\ \E to \in Meal!Prompts \cup {"light", "ended"} : menu_pc' = [menu_pc EXCEPT ![p] = to]
  BY DEF Meal!Main, Meal!Shop, Meal!Item, Meal!Amount, Meal!Stop, Meal!Goto, Meal!Prompts
<1>4. /\ shop' \in [Menus -> Meal!Options \cup {Meal!Unset}]
      /\ \A q \in Menus \ {p} : shop'[q] = shop[q]
  BY <1>1 DEF Meal!Main, Meal!Shop, Meal!Item, Meal!Amount, Meal!Stop, Meal!Forget, MenuParts
<1>5. menu_pc'[p] \notin {"main", "shop", "ended"} => shop'[p] \in Shops
  BY <1>1 DEF Meal!Main, Meal!Shop, Meal!Item, Meal!Amount, Meal!Stop, Meal!Goto, Meal!Prompts, MenuParts
<1>6. MenuParts'
  BY <1>1, <1>2, <1>3, <1>4, <1>5 DEF MenuParts, Meal!InDriver, Meal!Prompts
<1>7. Loops'
  <2>1. loop[p] = 0
    BY <1>1, <1>3 DEF Loops, Meal!Prompts, Meal!InDriver
  <2>2. \A s \in Shops : 0 < Rounds(s)
    BY RoundsType
  <2>3. \A q \in Menus \ {p} : menu_pc'[q] = menu_pc[q]
    BY <1>1, <1>3 DEF MenuParts
  <2>4. menu_pc'[p] \in {"light", "clear"} => loop'[p] < Rounds(shop'[p])
    BY <1>2, <1>5, <2>1, <2>2
  <2> QED
    BY <1>1, <1>2, <1>4, <2>1, <2>3, <2>4 DEF Loops
<1>8. Owed'
  <2>1. \A q \in Menus \ {p} : menu_pc'[q] = menu_pc[q]
    BY <1>1, <1>3 DEF MenuParts
  <2>2. \A led \in leds : \E q \in Menus \ {p} : Owes(q, led)
    BY <1>1, <1>3 DEF Owed, Owes, Meal!Prompts
  <2>3. \A led \in leds : \A q \in Menus \ {p} : Owes(q, led) => Owes(q, led)'
    BY <1>2, <1>4, <2>1 DEF Owes
  <2> QED
    BY <1>2, <2>2, <2>3 DEF Owed
<1> QED
  BY <1>6, <1>7, <1>8 DEF MenuInv

(* A program that lights an LED owes it, and when the loop ends it owes    *)
(* all it has lit.                                                         *)
LEMMA LightStep ==
  ASSUME MenuInv, NEW p \in Menus, Meal!Light(p)
  PROVE  MenuInv'
<1>1. MenuParts /\ Loops /\ Owed
  BY DEF MenuInv
<1>2. menu_pc[p] = "light" /\ leds' = leds \cup {loop[p]} /\ shop' = shop
  BY DEF Meal!Light, Meal!Loop, Meal!locals
<1>3. /\ shop[p] \in Shops /\ loop[p] \in Nat /\ loop[p] < Rounds(shop[p])
      /\ Rounds(shop[p]) \in Int /\ Rounds(shop[p]) <= MaxLed /\ 1 <= Rounds(shop[p])
      /\ MaxLed \in Nat
  BY <1>1, <1>2, RoundsType, MealConstants DEF MenuParts, Loops
<1>4. \/ /\ loop[p] + 1 < Rounds(shop[p])
         /\ menu_pc' = menu_pc /\ loop' = [loop EXCEPT ![p] = loop[p] + 1]
      \/ /\ loop[p] + 1 >= Rounds(shop[p])
         /\ menu_pc' = [menu_pc EXCEPT ![p] = "clear"] /\ loop' = [loop EXCEPT ![p] = 0]
  <2>1. Meal!Loop(p, "light", Meal!Km(p), "clear")
    BY DEF Meal!Light
  <2>2. "light" \in Meal!InDriver
    BY DEF Meal!InDriver
  <2> QED
    BY <1>1, <1>3, <2>1, <2>2, LoopTurn
<1>5. \A q \in Menus \ {p} : menu_pc'[q] = menu_pc[q] /\ loop'[q] = loop[q]
  BY <1>1, <1>4 DEF MenuParts
<1>6. MenuParts'
  <2>1. leds' \subseteq Meal!Led
    <3>1. loop[p] \in Meal!Led
      BY <1>3 DEF Meal!Led
    <3> QED
      BY <1>1, <1>2, <3>1 DEF MenuParts
  <2> QED
    BY <1>1, <1>2, <1>3, <1>4, <2>1 DEF MenuParts, Meal!InDriver
<1>7. Loops'
  <2>1. menu_pc'[p] \in {"light", "clear"} /\ loop'[p] < Rounds(shop[p])
    BY <1>1, <1>2, <1>3, <1>4 DEF MenuParts
  <2> QED
    BY <1>1, <1>2, <1>5, <2>1 DEF Loops, Meal!InDriver
<1>8. Owed'
  <2>1. ASSUME NEW led \in Nat, led <= loop[p] PROVE Owes(p, led)'
    BY <1>1, <1>2, <1>3, <1>4, <2>1 DEF Owes, MenuParts
  <2>2. \A led : \A q \in Menus \ {p} : Owes(q, led) => Owes(q, led)'
    BY <1>2, <1>5 DEF Owes
  <2>3. ASSUME NEW led \in leds' PROVE \E q \in Menus : Owes(q, led)'
    <3>1. CASE led = loop[p]
      BY <1>3, <2>1, <3>1
    <3>2. CASE led \in leds
      <4>1. PICK q \in Menus : Owes(q, led)
        BY <1>1, <3>2 DEF Owed
      <4>2. CASE q # p
        BY <2>2, <4>1, <4>2
      <4>3. CASE q = p
        <5>1. led < loop[p] /\ led \in Nat
          BY <1>1, <1>2, <1>3, <3>2, <4>1, <4>3 DEF Owes, MenuParts, Meal!Led
        <5> QED
          BY <1>3, <2>1, <5>1
      <4> QED
        BY <4>2, <4>3
    <3> QED
      BY <1>2, <2>3, <3>1, <3>2
  <2> QED
    BY <2>3 DEF Owed
<1> QED
  BY <1>6, <1>7, <1>8 DEF MenuInv

(* The LED that is cleared is the only one a program stops owing; when the *)
(* loop ends it owes none.                                                 *)
LEMMA ClearStep ==
  ASSUME MenuInv, NEW p \in Menus, Meal!Clear(p)
  PROVE  MenuInv'
<1>1. MenuParts /\ Loops /\ Owed
  BY DEF MenuInv
<1>2. menu_pc[p] = "clear" /\ leds' = leds \ {loop[p]} /\ shop' = shop
  BY DEF Meal!Clear, Meal!Loop, Meal!locals
<1>3. /\ shop[p] \in Shops /\ loop[p] \in Nat /\ loop[p] < Rounds(shop[p])
      /\ Rounds(shop[p]) \in Int /\ MaxLed \in Nat
  BY <1>1, <1>2, RoundsType, MealConstants DEF MenuParts, Loops
<1>4. \/ /\ loop[p] + 1 < Rounds(shop[p])
         /\ menu_pc' = menu_pc /\ loop' = [loop EXCEPT ![p] = loop[p] + 1]
      \/ /\ loop[p] + 1 >= Rounds(shop[p])
         /\ menu_pc' = [menu_pc EXCEPT ![p] = "digits"] /\ loop' = [loop EXCEPT ![p] = 0]
  <2>1. Meal!Loop(p, "clear", Meal!Km(p), "digits")
    BY DEF Meal!Clear
  <2>2. "clear" \in Meal!InDriver
    BY DEF Meal!InDriver
  <2> QED
    BY <1>1, <1>3, <2>1, <2>2, LoopTurn
<1>5. \A q \in Menus \ {p} : menu_pc'[q] = menu_pc[q] /\ loop'[q] = loop[q]
  BY <1>1, <1>4 DEF MenuParts
<1>6. MenuParts'
  BY <1>1, <1>2, <1>3, <1>4 DEF MenuParts, Meal!InDriver
<1>7. Loops'
  <2>1. \/ menu_pc'[p] = "clear" /\ loop'[p] < Rounds(shop[p])
        \/ menu_pc'[p] = "digits"
    BY <1>1, <1>2, <1>3, <1>4 DEF MenuParts
  <2> QED
    BY <1>1, <1>2, <1>5, <2>1 DEF Loops, Meal!InDriver
<1>8. Owed'
  <2>1. \A led : \A q \in Menus \ {p} : Owes(q, led) => Owes(q, led)'
    BY <1>2, <1>5 DEF Owes
  <2>2. ASSUME NEW led \in leds' PROVE \E q \in Menus : Owes(q, led)'
    <3>1. led \in leds /\ led # loop[p] /\ led \in Nat
      BY <1>1, <1>2 DEF MenuParts, Meal!Led
    <3>2. PICK q \in Menus : Owes(q, led)
      BY <1>1, <3>1 DEF Owed
    <3>3. CASE q # p
      BY <2>1, <3>2, <3>3
    <3>4. CASE q = p
      <4>1. loop[p] + 1 <= led /\ led < Rounds(shop[p])
        BY <1>2, <1>3, <3>1, <3>2, <3>4 DEF Owes
      <4>2. menu_pc' = menu_pc /\ loop' = [loop EXCEPT ![p] = loop[p] + 1]
        BY <1>3, <1>4, <3>1, <4>1
      <4> QED
        BY <1>1, <1>2, <4>1, <4>2 DEF Owes, MenuParts
    <3> QED
      BY <3>3, <3>4
  <2> QED
    BY <2>2 DEF Owed
<1> QED
  BY <1>6, <1>7, <1>8 DEF MenuInv

(* A program that shows the digits of the bill owes no LED any more.       *)
LEMMA ShowDigitStep ==
  ASSUME MenuInv, NEW p \in Menus, Meal!ShowDigit(p)
  PROVE  MenuInv'
<1>1. MenuParts /\ Loops /\ Owed
  BY DEF MenuInv
<1>2. menu_pc[p] = "digits" /\ leds' = leds
  BY DEF Meal!ShowDigit, Meal!Loop
<1>3. \/ menu_pc' = [menu_pc EXCEPT ![p] = "digits"] /\ loop' = [loop EXCEPT ![p] = loop[p] + 1]
      \/ menu_pc' = [menu_pc EXCEPT ![p] = "main"] /\ loop' = [loop EXCEPT ![p] = 0]
  BY DEF Meal!ShowDigit, Meal!Loop, Meal!Goto
<1>4. /\ shop' \in [Menus -> Meal!Options \cup {Meal!Unset}]
      /\ \A q \in Menus \ {p} : shop'[q] = shop[q]
      /\ menu_pc'[p] # "main" => shop'[p] = shop[p]
  BY <1>1 DEF Meal!ShowDigit, Meal!Forget, MenuParts
<1>5. \A q \in Menus \ {p} : menu_pc'[q] = menu_pc[q] /\ loop'[q] = loop[q]
  BY <1>1, <1>3 DEF MenuParts
<1>6. /\ menu_pc'[p] \in {"digits", "main"} /\ loop'[p] \in Nat
      /\ menu_pc'[p] = "main" => loop'[p] = 0
  BY <1>1, <1>3 DEF MenuParts
<1>7. MenuParts'
  <2>1. menu_pc' \in [Menus -> Meal!Prompts \cup Meal!InDriver \cup {"ended"}]
    BY <1>1, <1>3 DEF MenuParts, Meal!InDriver, Meal!Prompts
  <2>2. loop' \in [Menus -> Nat]
    BY <1>1, <1>3 DEF MenuParts
  <2>3. \A q \in Menus : menu_pc'[q] \notin {"main", "shop", "ended"} => shop'[q] \in Shops
    BY <1>1, <1>2, <1>4, <1>5, <1>6 DEF MenuParts
  <2> QED
    BY <1>1, <1>2, <1>4, <2>1, <2>2, <2>3 DEF MenuParts
<1>8. Loops'
  BY <1>1, <1>4, <1>5, <1>6 DEF Loops, Meal!InDriver
<1>9. Owed'
  <2>1. \A led \in leds : \E q \in Menus \ {p} : Owes(q, led)
    BY <1>1, <1>2 DEF Owed, Owes
  <2>2. \A led \in leds : \A q \in Menus \ {p} : Owes(q, led) => Owes(q, led)'
    BY <1>4, <1>5 DEF Owes
  <2> QED
    BY <1>2, <2>1, <2>2 DEF Owed
<1> QED
  BY <1>7, <1>8, <1>9 DEF MenuInv

LEMMA MealStep ==
  ASSUME MenuInv, [Meal!Next]_Meal!vars
  PROVE  MenuInv'
<1>1. CASE UNCHANGED Meal!vars
  <2>1. UNCHANGED <<menu_pc, shop, loop, leds>>
    BY <1>1 DEF Meal!vars, Meal!locals
  <2> QED
    BY <2>1 DEF MenuInv, MenuParts, Loops, Owed, Owes
<1>2. CASE Meal!Next
  <2>1. PICK p \in Menus : Meal!Program(p) \/ Meal!Stop(p)
    BY <1>2 DEF Meal!Next
  <2> QED
    BY <2>1, MenuStep, LightStep, ClearStep, ShowDigitStep DEF Meal!Program
<1> QED
  BY <1>1, <1>2

-----------------------------------------------------------------------------
(* hw1: the bill *)

(* The bill is an int: it has at most ten digits.                          *)
Payable == \A s \in Shops : MaxAmount * Price[s][1] + MaxAmount * Price[s][2] < 10 ^ 10

(* A digit is shown of a number that has so many.                          *)
BillInv ==
  /\ stuck \in [Menus -> BOOLEAN]
  /\ choice \in [Menus -> Meal!Options \cup {Meal!Unset}]
  /\ item \in [Menus -> Meal!Options \cup {Meal!Unset}]
  /\ qty \in [Menus -> [{1, 2} -> 0..MaxAmount]]
  /\ digit \in 0..9 \cup {Meal!Unset}
  /\ \A p \in Menus : /\ menu_pc[p] = "amount" => item[p] \in {1, 2}
                      /\ menu_pc[p] = "digits" => loop[p] < Meal!NumDigits(Meal!Total(p))

(* A number below 10 ^ 10 has some number of digits.                       *)
LEMMA DigitsCount ==
  ASSUME NEW n \in Nat, n < 10 ^ 10
  PROVE  Meal!NumDigits(n) \in 1..10
<1>1. \E d \in 1..10 : n < 10 ^ d /\ (d = 1 \/ 10 ^ (d - 1) <= n)
  OBVIOUS
<1> DEFINE Has(d) == n < 10 ^ d /\ (d = 1 \/ 10 ^ (d - 1) <= n)
<1>2. \E d \in 1..10 : Has(d)
  BY <1>1
<1>3. Meal!NumDigits(n) = CHOOSE d \in 1..10 : Has(d)
  BY DEF Meal!NumDigits
<1> HIDE DEF Has
<1> QED
  BY <1>2, <1>3

(* Each of them is a figure.                                               *)
LEMMA Figure ==
  ASSUME NEW n \in Nat, n < 10 ^ 10, NEW k \in Nat, k < Meal!NumDigits(n)
  PROVE  Meal!Digit(n, k) \in 0..9
<1>1. \A e \in 0..9 : (n \div (10 ^ e)) % 10 \in 0..9
  BY SMT
<1>2. Meal!NumDigits(n) - 1 - k \in 0..9
  BY DigitsCount
<1> QED
  BY <1>1, <1>2 DEF Meal!Digit

(* What a program may order in a shop costs less.                          *)
LEMMA BillFits ==
  ASSUME Payable, MenuParts, BillInv, NEW p \in Menus, shop[p] \in Shops
  PROVE  Meal!Total(p) \in Nat /\ Meal!Total(p) < 10 ^ 10
<1>1. \A a, b, c \in Nat : a <= b => a * c <= b * c
  OBVIOUS
<1>2. /\ Price[shop[p]][1] \in Nat /\ Price[shop[p]][2] \in Nat /\ MaxAmount \in Nat
      /\ qty[p] \in [{1, 2} -> 0..MaxAmount]
  BY DeviceAssumption DEF Meal!MealAssumption, BillInv
<1>3. qty[p][1] \in Nat /\ qty[p][1] <= MaxAmount /\ qty[p][2] \in Nat /\ qty[p][2] <= MaxAmount
  BY <1>2
<1>4. /\ qty[p][1] * Price[shop[p]][1] <= MaxAmount * Price[shop[p]][1]
      /\ qty[p][2] * Price[shop[p]][2] <= MaxAmount * Price[shop[p]][2]
  BY <1>1, <1>2, <1>3
<1>5. \A a, b \in Nat : a * b \in Nat
  OBVIOUS
<1>6. /\ qty[p][1] * Price[shop[p]][1] \in Nat /\ MaxAmount * Price[shop[p]][1] \in Nat
      /\ qty[p][2] * Price[shop[p]][2] \in Nat /\ MaxAmount * Price[shop[p]][2] \in Nat
  BY <1>2, <1>3, <1>5
<1>7. MaxAmount * Price[shop[p]][1] + MaxAmount * Price[shop[p]][2] < 10 ^ 10
  BY DEF Payable
<1> QED
  BY <1>4, <1>6, <1>7 DEF Meal!Total

LEMMA BillInit == Meal!Init => BillInv
<1> SUFFICES ASSUME Meal!Init PROVE BillInv
  OBVIOUS
<1>1. MaxAmount \in Nat
  BY DeviceAssumption DEF Meal!MealAssumption
<1> QED
  BY <1>1 DEF Meal!Init, BillInv, Meal!Unset

(* In the menu: an amount is added to a dish, and only if it is positive.  *)
LEMMA BillMenuStep ==
  ASSUME MenuInv, BillInv, NEW p \in Menus,
         Meal!Main(p) \/ Meal!Shop(p) \/ Meal!Item(p) \/ Meal!Amount(p) \/ Meal!Stop(p)
  PROVE  BillInv'
<1>1. MenuParts /\ MaxAmount \in Nat /\ Amounts \subseteq Int
  BY DeviceAssumption DEF MenuInv, Meal!MealAssumption
<1>2. stuck' \in [Menus -> BOOLEAN]
  BY DEF BillInv, Meal!Main, Meal!Shop, Meal!Item, Meal!Amount, Meal!Stop, Meal!Scan
<1>3. choice' \in [Menus -> Meal!Options \cup {Meal!Unset}]
  BY DEF BillInv, Meal!Main, Meal!Shop, Meal!Item, Meal!Amount, Meal!Stop
<1>4. item' \in [Menus -> Meal!Options \cup {Meal!Unset}]
  BY DEF BillInv, Meal!Main, Meal!Shop, Meal!Item, Meal!Amount, Meal!Stop, Meal!Forget
<1>5. qty' \in [Menus -> [{1, 2} -> 0..MaxAmount]]
  <2>1. CASE Meal!Amount(p)
    <3>1. PICK n \in Amounts \cup {0} :
            /\ menu_pc[p] = "amount" /\ qty[p][item[p]] + n <= MaxAmount
            /\ qty' = IF Meal!Counted(n) THEN [qty EXCEPT ![p][item[p]] = qty[p][item[p]] + n] ELSE qty
      BY <2>1 DEF Meal!Amount, Meal!Goto
    <3>2. n \in Int /\ item[p] \in {1, 2} /\ qty[p][item[p]] \in Nat
      BY <1>1, <3>1 DEF BillInv
    <3>3. Meal!Counted(n) => qty[p][item[p]] + n \in 0..MaxAmount
      BY <1>1, <3>1, <3>2 DEF Meal!Counted
    <3> QED
      BY <3>1, <3>2, <3>3 DEF BillInv
  <2>2. CASE Meal!Main(p) \/ Meal!Shop(p)
    BY <2>2 DEF BillInv, Meal!Main, Meal!Shop
  <2>3. CASE Meal!Item(p) \/ Meal!Stop(p)
    <3>1. qty' = qty \/ qty' = [qty EXCEPT ![p] = [d \in {1, 2} |-> 0]]
      BY <2>3 DEF Meal!Item, Meal!Stop, Meal!Forget
    <3> QED
      BY <1>1, <3>1 DEF BillInv
  <2> QED
    BY <2>1, <2>2, <2>3
<1>6. digit' = digit /\ loop' = loop
  BY DEF Meal!Main, Meal!Shop, Meal!Item, Meal!Amount, Meal!Stop
<1>7. menu_pc'[p] # "digits" /\ (menu_pc'[p] = "amount" => item'[p] \in {1, 2})
  <2>1. CASE Meal!Item(p)
    <3>1. PICK n \in Meal!Options :
            /\ menu_pc' = [menu_pc EXCEPT ![p] =
                             CASE n \in 1..2 -> "amount" [] n = 3 -> "light"
                               [] n = 4 -> "main" [] OTHER -> "item"]
            /\ n # 4 => item' = [item EXCEPT ![p] = n]
      BY <2>1 DEF Meal!Item, Meal!Goto
    <3>2. menu_pc'[p] # "digits" /\ (menu_pc'[p] = "amount" => n \in {1, 2})
      BY <1>1, <3>1 DEF MenuParts, Meal!Options
    <3>3. n # 4 => item'[p] = n
      BY <3>1 DEF BillInv
    <3> QED
      BY <3>2, <3>3
  <2>2. CASE Meal!Main(p) \/ Meal!Shop(p) \/ Meal!Amount(p) \/ Meal!Stop(p)
    <3>1. menu_pc'[p] \in {"main", "shop", "item", "ended"}
      BY <1>1, <2>2 DEF Meal!Main, Meal!Shop, Meal!Amount, Meal!Stop, Meal!Goto, MenuParts
    <3> QED
      BY <3>1
  <2> QED
    BY <2>1, <2>2
<1>8. ASSUME NEW q \in Menus \ {p}
      PROVE  /\ menu_pc'[q] = menu_pc[q] /\ item'[q] = item[q]
             /\ qty'[q] = qty[q] /\ shop'[q] = shop[q]
  <2>1. menu_pc'[q] = menu_pc[q] /\ shop'[q] = shop[q]
    BY <1>1 DEF Meal!Main, Meal!Shop, Meal!Item, Meal!Amount, Meal!Stop, Meal!Goto, Meal!Forget, MenuParts
  <2>2. item'[q] = item[q]
    BY DEF BillInv, Meal!Main, Meal!Shop, Meal!Item, Meal!Amount, Meal!Stop, Meal!Forget
  <2>3. qty'[q] = qty[q]
    BY DEF BillInv, Meal!Main, Meal!Shop, Meal!Item, Meal!Amount, Meal!Stop, Meal!Forget
  <2> QED
    BY <2>1, <2>2, <2>3
<1>9. \A q \in Menus \ {p} : Meal!Total(q)' = Meal!Total(q)
  BY <1>8 DEF Meal!Total
<1>10. \A q \in Menus \ {p} :
         menu_pc'[q] = "digits" => loop'[q] < Meal!NumDigits(Meal!Total(q)')
  BY <1>6, <1>8, <1>9 DEF BillInv
<1>11. \A q \in Menus \ {p} : menu_pc'[q] = "amount" => item'[q] \in {1, 2}
  BY <1>8 DEF BillInv
<1>12. \A q \in Menus :
         /\ menu_pc'[q] = "amount" => item'[q] \in {1, 2}
         /\ menu_pc'[q] = "digits" => loop'[q] < Meal!NumDigits(Meal!Total(q)')
  BY <1>7, <1>10, <1>11
<1>13. \A q \in Menus : Meal!NumDigits(Meal!Total(q))' = Meal!NumDigits(Meal!Total(q)')
  BY DEF Meal!NumDigits
<1> QED
  BY <1>2, <1>3, <1>4, <1>5, <1>6, <1>12, <1>13 DEF BillInv

(* In the driver: the loop over the digits starts with the first, and ends *)
(* with the last.                                                          *)
LEMMA BillDriverStep ==
  ASSUME Payable, MenuInv, BillInv, NEW p \in Menus,
         Meal!Light(p) \/ Meal!Clear(p) \/ Meal!ShowDigit(p)
  PROVE  BillInv'
<1>1. MenuParts /\ MaxAmount \in Nat
  BY DeviceAssumption DEF MenuInv, Meal!MealAssumption
<1>2. menu_pc[p] \in {"light", "clear", "digits"} /\ UNCHANGED <<stuck, choice>>
  BY DEF Meal!Light, Meal!Clear, Meal!ShowDigit, Meal!Loop, Meal!locals
<1>3. /\ shop[p] \in Shops /\ Meal!Total(p) \in Nat /\ Meal!Total(p) < 10 ^ 10
      /\ Meal!NumDigits(Meal!Total(p)) \in 1..10 /\ loop[p] \in Nat
  BY <1>1, <1>2, BillFits, DigitsCount DEF MenuParts
<1>4. CASE Meal!Light(p) \/ Meal!Clear(p)
  <2>1. UNCHANGED <<shop, item, qty, digit>>
    BY <1>4 DEF Meal!Light, Meal!Clear, Meal!locals
  <2>2. \E from \in {"light", "clear"}, to \in {"clear", "digits"} :
          /\ menu_pc[p] = from
          /\ \/ menu_pc' = [menu_pc EXCEPT ![p] = from] /\ loop' = [loop EXCEPT ![p] = loop[p] + 1]
             \/ menu_pc' = [menu_pc EXCEPT ![p] = to] /\ loop' = [loop EXCEPT ![p] = 0]
    BY <1>4 DEF Meal!Light, Meal!Clear, Meal!Loop, Meal!Goto
  <2>3. menu_pc'[p] # "amount" /\ (menu_pc'[p] = "digits" => loop'[p] = 0)
    BY <1>1, <2>2 DEF MenuParts
  <2>4. \A q \in Menus \ {p} : menu_pc'[q] = menu_pc[q] /\ loop'[q] = loop[q]
    BY <1>1, <2>2 DEF MenuParts
  <2>5. \A q \in Menus : Meal!Total(q)' = Meal!Total(q)
    BY <2>1 DEF Meal!Total
  <2>6. \A q \in Menus : Meal!NumDigits(Meal!Total(q))' = Meal!NumDigits(Meal!Total(q))
    BY <2>5 DEF Meal!NumDigits
  <2>7. \A q \in Menus :
          /\ menu_pc'[q] = "amount" => item'[q] \in {1, 2}
          /\ menu_pc'[q] = "digits" => loop'[q] < Meal!NumDigits(Meal!Total(q))'
    BY <1>3, <2>1, <2>3, <2>4, <2>6 DEF BillInv
  <2> QED
    BY <1>2, <2>1, <2>7 DEF BillInv
<1>5. CASE Meal!ShowDigit(p)
  <2>1. /\ menu_pc[p] = "digits" /\ digit' = Meal!Digit(Meal!Total(p), loop[p])
        /\ \/ /\ loop[p] + 1 < Meal!NumDigits(Meal!Total(p))
              /\ menu_pc' = [menu_pc EXCEPT ![p] = "digits"]
              /\ loop' = [loop EXCEPT ![p] = loop[p] + 1]
           \/ /\ menu_pc' = [menu_pc EXCEPT ![p] = "main"]
              /\ loop' = [loop EXCEPT ![p] = 0]
    BY <1>5 DEF Meal!ShowDigit, Meal!Loop, Meal!Goto
  <2>2. /\ menu_pc'[p] \in {"digits", "main"}
        /\ menu_pc'[p] = "digits" => loop'[p] < Meal!NumDigits(Meal!Total(p))
    BY <1>1, <2>1 DEF MenuParts
  <2>3. digit' \in 0..9
    BY <1>3, <2>1, Figure DEF BillInv
  <2>4. /\ item' \in [Menus -> Meal!Options \cup {Meal!Unset}]
        /\ qty' \in [Menus -> [{1, 2} -> 0..MaxAmount]]
    BY <1>1, <1>5 DEF Meal!ShowDigit, Meal!Forget, BillInv
  <2>5. \A q \in Menus : q # p \/ menu_pc'[q] = "digits" =>
          item'[q] = item[q] /\ qty'[q] = qty[q] /\ shop'[q] = shop[q]
    BY <1>1, <1>5 DEF Meal!ShowDigit, Meal!Forget, BillInv, MenuParts
  <2>6. \A q \in Menus \ {p} : menu_pc'[q] = menu_pc[q] /\ loop'[q] = loop[q]
    BY <1>1, <2>1 DEF MenuParts
  <2>7. \A q \in Menus : menu_pc'[q] = "digits" => Meal!Total(q)' = Meal!Total(q)
    BY <2>5 DEF Meal!Total
  <2>8. \A q \in Menus : menu_pc'[q] = "digits" =>
          Meal!NumDigits(Meal!Total(q))' = Meal!NumDigits(Meal!Total(q))
    BY <2>7 DEF Meal!NumDigits
  <2>9. \A q \in Menus :
          /\ menu_pc'[q] = "amount" => item'[q] \in {1, 2}
          /\ menu_pc'[q] = "digits" => loop'[q] < Meal!NumDigits(Meal!Total(q))'
    BY <2>2, <2>5, <2>6, <2>8 DEF BillInv
  <2> QED
    BY <1>2, <2>3, <2>4, <2>9 DEF BillInv
<1> QED
  BY <1>4, <1>5

LEMMA BillStep ==
  ASSUME Payable, MenuInv, BillInv, [Meal!Next]_Meal!vars
  PROVE  BillInv'
<1>1. CASE UNCHANGED Meal!vars
  <2>1. UNCHANGED <<menu_pc, stuck, choice, shop, item, qty, loop, digit>>
    BY <1>1 DEF Meal!vars, Meal!locals
  <2>2. \A p \in Menus : Meal!NumDigits(Meal!Total(p))' = Meal!NumDigits(Meal!Total(p))
    BY <2>1 DEF Meal!NumDigits, Meal!Total
  <2> QED
    BY <2>1, <2>2 DEF BillInv
<1>2. CASE Meal!Next
  <2>1. PICK p \in Menus : Meal!Program(p) \/ Meal!Stop(p)
    BY <1>2 DEF Meal!Next
  <2> QED
    BY <2>1, BillMenuStep, BillDriverStep DEF Meal!Program
<1> QED
  BY <1>1, <1>2

-----------------------------------------------------------------------------
(* lab4: the letters on their way *)

(* What the part h of the display shows.                                   *)
Shown(h) == segs[h][1]

(* From the display back to the device, every letter is no earlier one:    *)
(* the display, the connection, the frame of reader, and the device.       *)
Procession ==
  /\ display_buf = written
  /\ \A k \in 1..Len(stream) :
       /\ \A h \in {1, 2} : Shown(h) <= stream[k][1]
       /\ stream[k][1] <= buf
       /\ \A j \in 1..k : stream[j][1] <= stream[k][1]
  /\ \A h \in {1, 2} : Shown(h) <= buf
  /\ buf <= display_buf

PipelineInv == Pipeline!TypeOK /\ Procession

LEMMA PipelineConstants ==
  /\ Letters \in Nat /\ Letters >= 1 /\ MaxFrames \in Nat /\ MaxFrames >= 1
  /\ Pipeline!Blank = 0 /\ Pipeline!Blank \in Pipeline!Places
  /\ \A x \in Pipeline!Places : x \in Int
  /\ \A h \in Pipeline!Halves : h[1] \in Pipeline!Places /\ h[1] \in Int
  BY DeviceAssumption
     DEF Pipeline!PipelineAssumption, Pipeline!Blank, Pipeline!Places, Pipeline!Halves

(* The two halves of a frame.                                              *)
LEMMA FrameType ==
  ASSUME NEW x \in Pipeline!Places
  PROVE  /\ Pipeline!Frame(x) \in Seq(Pipeline!Halves) /\ Len(Pipeline!Frame(x)) = 2
         /\ Pipeline!Frame(x) \in [{1, 2} -> Pipeline!Halves]
         /\ \A i \in 1..2 : Pipeline!Frame(x)[i][1] = x
<1>1. Pipeline!Frame(x) = << <<x, 1>>, <<x, 2>> >>
  BY DEF Pipeline!Frame
<1>2. <<x, 1>> \in Pipeline!Halves /\ <<x, 2>> \in Pipeline!Halves
  BY DEF Pipeline!Halves
<1>3. Pipeline!Frame(x) \in Seq(Pipeline!Halves) /\ Len(Pipeline!Frame(x)) = 2
  BY <1>1, <1>2
<1>4. 1..2 = {1, 2}
  OBVIOUS
<1>5. Pipeline!Frame(x) \in [1..2 -> Pipeline!Halves]
  BY <1>3, LenProperties
<1>6. \A i \in 1..2 : Pipeline!Frame(x)[i][1] = x
  BY <1>1
<1> QED
  BY <1>3, <1>4, <1>5, <1>6

LEMMA PipelineInit == Pipeline!Init => PipelineInv
<1> SUFFICES ASSUME Pipeline!Init PROVE PipelineInv
  OBVIOUS
<1>1. /\ written = 0 /\ display_buf = 0 /\ reader = "read" /\ buf = 0
      /\ stream = <<>> /\ Len(stream) = 0 /\ split \in BOOLEAN
      /\ segs = Pipeline!Frame(Pipeline!Blank)
  BY PipelineConstants DEF Pipeline!Init
<1>2. \A h \in {1, 2} : Shown(h) = 0
  <2>1. \A h \in 1..2 : segs[h][1] = 0
    BY <1>1, PipelineConstants, FrameType
  <2> QED
    BY <2>1 DEF Shown
<1>3. Pipeline!TypeOK
  BY <1>1, PipelineConstants, FrameType DEF Pipeline!TypeOK, Pipeline!Places
<1>4. Procession
  BY <1>1, <1>2 DEF Procession
<1> QED
  BY <1>3, <1>4 DEF PipelineInv

LEMMA PipelineTypes ==
  ASSUME PipelineInv
  PROVE  /\ Len(stream) \in Nat /\ stream \in Seq(Pipeline!Halves)
         /\ \A k \in 1..Len(stream) : stream[k] \in Pipeline!Halves /\ stream[k][1] \in Int
         /\ buf \in Int /\ display_buf \in Int /\ written \in Int
         /\ \A h \in {1, 2} : Shown(h) \in Int
<1>1. stream \in Seq(Pipeline!Halves) /\ segs \in [{1, 2} -> Pipeline!Halves]
  BY DEF PipelineInv, Pipeline!TypeOK
<1>2. \A k \in 1..Len(stream) : stream[k] \in Pipeline!Halves
  BY <1>1, ElementOfSeq
<1>3. \A h \in {1, 2} : segs[h] \in Pipeline!Halves
  BY <1>1
<1> QED
  BY <1>1, <1>2, <1>3, PipelineConstants, LenProperties
  DEF PipelineInv, Pipeline!TypeOK, Shown

(* writer puts a later letter behind all the others, and reader takes the  *)
(* last one.                                                               *)
LEMMA EndsStep ==
  ASSUME PipelineInv, Pipeline!WriteLetter \/ Pipeline!ReadDevice
  PROVE  PipelineInv'
<1>1. Pipeline!TypeOK /\ Procession
  BY DEF PipelineInv
<1>2. stream' = stream /\ segs' = segs /\ split' = split /\ \A h \in {1, 2} : Shown(h)' = Shown(h)
  BY DEF Pipeline!WriteLetter, Pipeline!ReadDevice, Shown
<1>3. CASE Pipeline!WriteLetter
  <2>1. /\ written' = written + 1 /\ written < Letters /\ display_buf' = written + 1
        /\ UNCHANGED <<reader, buf>>
    BY <1>3 DEF Pipeline!WriteLetter, Pipeline!More, Pipeline!Stored
  <2>2. display_buf = written
    BY <1>1 DEF Procession
  <2>3. Pipeline!TypeOK'
    BY <1>1, <1>2, <2>1, PipelineConstants DEF Pipeline!TypeOK, Pipeline!Places
  <2>4. buf' <= display_buf'
    BY <1>1, <2>1, <2>2, PipelineTypes DEF Procession
  <2>5. Procession'
    BY <1>1, <1>2, <2>1, <2>4 DEF Procession
  <2> QED
    BY <2>3, <2>5 DEF PipelineInv
<1>4. CASE Pipeline!ReadDevice
  <2>1. reader' = "write" /\ buf' = display_buf /\ UNCHANGED <<written, display_buf>>
    BY <1>4 DEF Pipeline!ReadDevice
  <2>2. Pipeline!TypeOK'
    BY <1>1, <1>2, <2>1 DEF Pipeline!TypeOK
  <2>3. \A x \in Int : x <= buf => x <= buf'
    BY <1>1, <2>1, PipelineTypes DEF Procession
  <2>4. buf' <= display_buf'
    BY <2>1, PipelineTypes
  <2>5. Procession'
    BY <1>1, <1>2, <2>1, <2>3, <2>4, PipelineTypes DEF Procession
  <2> QED
    BY <2>2, <2>5 DEF PipelineInv
<1> QED
  BY <1>3, <1>4

(* A frame comes behind those that are on their way.                       *)
LEMMA FrameStep ==
  ASSUME PipelineInv, Pipeline!Send
  PROVE  PipelineInv'
<1> DEFINE n == Len(stream)
           frame == Pipeline!Frame(buf)
<1>1. Pipeline!TypeOK /\ Procession /\ n \in Nat /\ n + 2 <= 2 * MaxFrames
  BY PipelineTypes DEF PipelineInv, Pipeline!Send
<1>2. /\ stream' = stream \o frame /\ reader' = "read"
      /\ UNCHANGED <<written, display_buf, buf, split, segs>>
      /\ \A h \in {1, 2} : Shown(h)' = Shown(h)
  BY DEF Pipeline!Send, Shown
<1>3. frame \in Seq(Pipeline!Halves) /\ Len(frame) = 2 /\ \A i \in 1..2 : frame[i][1] = buf
  BY <1>1, FrameType DEF Pipeline!TypeOK
<1>4. /\ stream' \in Seq(Pipeline!Halves) /\ Len(stream') = n + 2
      /\ \A k \in 1..n : stream'[k] = stream[k]
      /\ \A k \in 1..(n + 2) : ~(k <= n) => stream'[k][1] = buf
  <2> HIDE DEF frame
  <2>1. /\ stream' \in Seq(Pipeline!Halves) /\ Len(stream') = n + Len(frame)
        /\ \A k \in 1..(n + Len(frame)) : stream'[k] = IF k <= n THEN stream[k] ELSE frame[k - n]
    BY <1>2, <1>3, PipelineTypes, ConcatProperties
  <2>2. \A k \in 1..(n + 2) : ~(k <= n) => k - n \in 1..2
    BY <1>1
  <2> QED
    BY <1>1, <1>3, <2>1, <2>2
<1> HIDE DEF n, frame
<1>5. Pipeline!TypeOK'
  BY <1>1, <1>2, <1>4 DEF Pipeline!TypeOK, Pipeline!Halves, Pipeline!Places
<1>6. \A k \in 1..(n + 2) : k \in 1..n \/ ~(k <= n)
  BY <1>1
<1>7. \A h \in {1, 2} : Shown(h) <= buf
  BY <1>1 DEF Procession
<1>8. ASSUME NEW k \in 1..(n + 2)
      PROVE  /\ \A h \in {1, 2} : Shown(h) <= stream'[k][1]
             /\ stream'[k][1] <= buf
             /\ \A j \in 1..k : stream'[j][1] <= stream'[k][1]
  <2>1. \A m \in 1..n : /\ \A h \in {1, 2} : Shown(h) <= stream[m][1]
                        /\ stream[m][1] <= buf
                        /\ \A j \in 1..m : stream[j][1] <= stream[m][1]
    BY <1>1 DEF Procession, n
  <2>2. CASE k \in 1..n
    <3>1. \A j \in 1..k : j \in 1..n
      BY <1>1, <2>2
    <3> QED
      BY <1>4, <2>1, <2>2, <3>1
  <2>3. CASE ~(k <= n)
    <3>1. stream'[k][1] = buf /\ buf <= buf
      BY <1>4, <2>3, PipelineTypes
    <3>2. \A j \in 1..k : j \in 1..(n + 2)
      BY <1>1
    <3>3. \A j \in 1..k : stream'[j][1] <= buf
      BY <1>4, <1>6, <2>1, <3>1, <3>2
    <3> QED
      BY <1>7, <3>1, <3>3
  <2> QED
    BY <1>6, <2>2, <2>3
<1>9. Procession'
  BY <1>1, <1>2, <1>4, <1>8 DEF Procession
<1> QED
  BY <1>5, <1>9 DEF PipelineInv

(* What the display receives was the first of what is on its way; it may   *)
(* receive less than a frame.                                              *)
LEMMA ReceiveStep ==
  ASSUME PipelineInv, NEW halves \in {1, 2}, Pipeline!Receive(halves)
  PROVE  PipelineInv' /\ \A h \in {1, 2} : Shown(h)' >= Shown(h)
<1> DEFINE n == Len(stream)
<1>1. Pipeline!TypeOK /\ Procession /\ n \in Nat /\ halves <= n /\ halves \in 1..n
  BY PipelineTypes DEF PipelineInv, Pipeline!Receive
<1>2. /\ segs' = [k \in {1, 2} |-> IF k <= halves THEN stream[k] ELSE segs[k]]
      /\ stream' = SubSeq(stream, halves + 1, n)
      /\ UNCHANGED <<written, display_buf, reader, buf, split>>
  BY DEF Pipeline!Receive
<1>3. \A h \in {1, 2} : /\ h <= halves => h \in 1..halves /\ h \in 1..n
                        /\ Shown(h)' = IF h <= halves THEN stream[h][1] ELSE Shown(h)
  BY <1>1, <1>2 DEF Shown
<1>4. segs' \in [{1, 2} -> Pipeline!Halves]
  <2>1. \A k \in {1, 2} : k <= halves => stream[k] \in Pipeline!Halves
    BY <1>3, PipelineTypes
  <2> QED
    BY <1>1, <1>2, <2>1 DEF Pipeline!TypeOK
<1>5. /\ stream' \in Seq(Pipeline!Halves) /\ Len(stream') = n - halves
      /\ \A k \in 1..(n - halves) : stream'[k] = stream[halves + k]
  <2>1. \A k \in (halves + 1)..n : stream[k] \in Pipeline!Halves
    BY <1>1, PipelineTypes
  <2>2. /\ SubSeq(stream, halves + 1, n) \in Seq(Pipeline!Halves)
        /\ Len(SubSeq(stream, halves + 1, n)) =
             IF halves + 1 <= n THEN n - (halves + 1) + 1 ELSE 0
        /\ \A k \in 1..(n - (halves + 1) + 1) :
             SubSeq(stream, halves + 1, n)[k] = stream[halves + 1 + k - 1]
    BY <1>1, <2>1, SubSeqProperties
  <2>3. /\ stream' \in Seq(Pipeline!Halves)
        /\ Len(stream') = IF halves + 1 <= n THEN n - (halves + 1) + 1 ELSE 0
        /\ \A k \in 1..(n - (halves + 1) + 1) : stream'[k] = stream[halves + 1 + k - 1]
    BY <1>2, <2>2
  <2> QED
    BY <1>1, <2>3
<1>6. Pipeline!TypeOK'
  <2>1. Len(stream') <= 2 * MaxFrames
    BY <1>1, <1>5, PipelineConstants DEF Pipeline!TypeOK
  <2> QED
    BY <1>1, <1>2, <1>4, <1>5, <2>1 DEF Pipeline!TypeOK, Pipeline!Halves, Pipeline!Places
<1>7. \A m \in 1..n : /\ \A h \in {1, 2} : Shown(h) <= stream[m][1]
                      /\ stream[m][1] <= buf
                      /\ \A j \in 1..m : stream[j][1] <= stream[m][1]
  BY <1>1 DEF Procession
<1> HIDE DEF n
<1>8. ASSUME NEW k \in 1..(n - halves)
      PROVE  /\ \A h \in {1, 2} : Shown(h)' <= stream'[k][1]
             /\ stream'[k][1] <= buf
             /\ \A j \in 1..k : stream'[j][1] <= stream'[k][1]
  <2>1. halves + k \in 1..n /\ stream'[k] = stream[halves + k]
    BY <1>1, <1>5
  <2>2. \A j \in 1..k : halves + j \in 1..(halves + k) /\ stream'[j] = stream[halves + j]
    BY <1>1, <1>5
  <2>3. \A h \in 1..halves : h \in 1..(halves + k)
    BY <1>1
  <2> QED
    BY <1>3, <1>7, <2>1, <2>2, <2>3
<1>9. \A h \in {1, 2} : Shown(h)' >= Shown(h) /\ Shown(h)' <= buf
  <2>1. \A h \in {1, 2} : Shown(h) <= buf /\ Shown(h) \in Int
    BY <1>1, PipelineTypes DEF Procession
  <2>2. \A m \in 1..n : stream[m][1] \in Int
    BY PipelineTypes DEF n
  <2> QED
    BY <1>3, <1>7, <2>1, <2>2
<1>10. Procession'
  BY <1>1, <1>2, <1>5, <1>8, <1>9 DEF Procession
<1> QED
  BY <1>6, <1>9, <1>10 DEF PipelineInv

LEMMA PipelineStep ==
  ASSUME PipelineInv, [Pipeline!Next]_Pipeline!vars
  PROVE  PipelineInv' /\ \A h \in {1, 2} : Shown(h)' >= Shown(h)
<1>1. CASE Pipeline!WriteLetter \/ Pipeline!ReadDevice \/ Pipeline!Send
  <2>1. PipelineInv'
    BY <1>1, EndsStep, FrameStep
  <2>2. \A h \in {1, 2} : Shown(h)' = Shown(h)
    BY <1>1 DEF Pipeline!WriteLetter, Pipeline!ReadDevice, Pipeline!Send, Shown
  <2> QED
    BY <2>1, <2>2, PipelineTypes
<1>2. CASE Pipeline!Update
  <2>1. PICK halves \in {1, 2} : Pipeline!Receive(halves)
    BY <1>2 DEF Pipeline!Update
  <2> QED
    BY <2>1, ReceiveStep
<1>3. CASE Pipeline!Interrupt \/ Pipeline!CallFails \/ Pipeline!CutNoMore \/ UNCHANGED Pipeline!vars
  <2>1. /\ UNCHANGED <<written, display_buf, buf, stream, segs>>
        /\ \A h \in {1, 2} : Shown(h)' = Shown(h)
    BY <1>3
       DEF Pipeline!Interrupt, Pipeline!CallFails, Pipeline!CutNoMore, Pipeline!vars, Shown
  <2>2. reader' \in {"read", "write", "closed", "exited"} /\ split' \in BOOLEAN
    BY <1>3 DEF Pipeline!Interrupt, Pipeline!CallFails, Pipeline!CutNoMore, Pipeline!vars,
                PipelineInv, Pipeline!TypeOK
  <2>3. Pipeline!TypeOK'
    BY <2>1, <2>2 DEF PipelineInv, Pipeline!TypeOK, Pipeline!Halves, Pipeline!Places
  <2>4. Procession'
    BY <2>1 DEF PipelineInv, Procession
  <2> QED
    BY <2>1, <2>3, <2>4, PipelineTypes DEF PipelineInv
<1> QED
  BY <1>1, <1>2, <1>3 DEF Pipeline!Next

-----------------------------------------------------------------------------
(* The three devices *)

LEMMA DevicesInvariance == DevicesSpec => [](DriverInv /\ PipelineInv /\ MenuInv)
<1>1. DevicesInit => DriverInv /\ PipelineInv /\ MenuInv
  BY DriverInit, PipelineInit, MenuInit DEF DevicesInit
<1>2. ASSUME [DevicesNext]_<<device, vars, lab4, hw1>>
      PROVE  [Next]_vars /\ [Pipeline!Next]_Pipeline!vars /\ [Meal!Next]_Meal!vars
  BY <1>2, Zenon DEF DevicesNext, lab4, hw1, Pipeline!vars, Meal!vars, Meal!locals
<1>3. ASSUME DriverInv, PipelineInv, MenuInv, [DevicesNext]_<<device, vars, lab4, hw1>>
      PROVE  DriverInv' /\ PipelineInv' /\ MenuInv'
  BY <1>2, <1>3, DriverStep, PipelineStep, MealStep
<1> QED
  BY <1>1, <1>3, PTL DEF DevicesSpec

(* writer.c:35-41, reader.c:51-62: however writer, reader and the display  *)
(* are delayed and frames are cut, no part of the display goes back to an  *)
(* earlier letter or to nothing.                                           *)
THEOREM LettersInOrder == DevicesSpec => NeverBackwards
<1>1. PipelineInv /\ [DevicesNext]_<<device, vars, lab4, hw1>> =>
        [\A k \in {1, 2} : segs'[k][1] >= segs[k][1]]_segs
  <2>1. [DevicesNext]_<<device, vars, lab4, hw1>> => [Pipeline!Next]_Pipeline!vars
    BY Zenon DEF DevicesNext, lab4, Pipeline!vars
  <2> QED
    BY <2>1, PipelineStep DEF Shown
<1> QED
  BY <1>1, DevicesInvariance, PTL DEF DevicesSpec, NeverBackwards, Pipeline!NeverBackwards

(* HW1_driver.c:85-91: whatever the writes of two programs clear of each   *)
(* other's LEDs, all are off when nobody is in the driver.                 *)
THEOREM LedsOff == DevicesSpec => []AllOffAtRest
<1>1. MenuInv => AllOffAtRest
  <2> SUFFICES ASSUME MenuInv, \A p \in Menus : menu_pc[p] \notin Meal!InDriver
               PROVE  leds = {}
    BY DEF AllOffAtRest, Meal!AllOffAtRest
  <2>1. \A led \in leds : \E p \in Menus : menu_pc[p] \in {"light", "clear"}
    BY DEF MenuInv, Owed, Owes
  <2> QED
    BY <2>1 DEF Meal!InDriver
<1> QED
  BY <1>1, DevicesInvariance, PTL

(* The types of the three devices, for bills that are ints: what the lab3  *)
(* driver indexes with is inside its buffer, the connection of lab4 holds  *)
(* whole halves, and each digit that hw1 shows is one (HW1_driver.c:96).   *)
THEOREM TypesCorrect == ASSUME Payable PROVE DevicesSpec => []TypesOK
<1>1. DevicesInit => BillInv
  BY BillInit DEF DevicesInit
<1>2. ASSUME MenuInv, BillInv, [DevicesNext]_<<device, vars, lab4, hw1>>
      PROVE  BillInv'
  <2>1. [Meal!Next]_Meal!vars
    BY <1>2, Zenon DEF DevicesNext, hw1, Meal!vars, Meal!locals
  <2> QED
    BY <1>2, <2>1, BillStep
<1>3. DriverInv /\ PipelineInv /\ MenuInv /\ BillInv => TypesOK
  <2>1. MenuInv /\ BillInv => Meal!TypeOK
    <3>1. MaxAmount \in Nat
      BY DeviceAssumption DEF Meal!MealAssumption
    <3> QED
      BY <3>1 DEF MenuInv, MenuParts, BillInv, Meal!TypeOK
  <2> QED
    BY <2>1 DEF DriverInv, PipelineInv, TypesOK
<1> QED
  BY <1>1, <1>2, <1>3, DevicesInvariance, PTL DEF DevicesSpec

=============================================================================
