-------------------------- MODULE SegmentPipeline ---------------------------
(***************************************************************************)
(* The sixteen segment display of lab4: writer puts a name into a device   *)
(* of one character, a letter a second; reader reads the device once a     *)
(* second and sends the segments to the display server, which shows what   *)
(* it receives.  Each goes at its own pace.                                *)
(*                                                                         *)
(* A letter is its place in the name, and what it lights is left out.  The *)
(* 16 segments of a frame travel as two halves; a half lights the segments *)
(* of its letter only in the part of the display it belongs to.            *)
(*                                                                         *)
(* External: the connection, a queue of halves.                            *)
(***************************************************************************)
EXTENDS Integers, Sequences

CONSTANTS
  Letters,      (* how many characters the name has                        *)
  MaxFrames     (* bound: frames in the connection when write blocks       *)

PipelineAssumption == Letters \in Nat \ {0} /\ MaxFrames \in Nat \ {0}

Blank == 0

VARIABLES
  written,      (* letters writer has written                              *)
  display_buf,  (* the device: the place written last, Blank at first      *)
  reader,       (* where reader is                                         *)
  buf,          (* the frame it holds                                      *)
  stream,       (* halves on their way: <<place, half>>                    *)
  split,        (* the connection may still cut a frame in two             *)
  segs          (* what the two parts of the display show                  *)

vars == <<written, display_buf, reader, buf, stream, split, segs>>

Places == 0..Letters
Halves == Places \X {1, 2}

TypeOK ==
  /\ written \in Places /\ display_buf \in Places /\ buf \in Places
  /\ reader \in {"read", "write", "closed", "exited"}
  /\ stream \in Seq(Halves) /\ Len(stream) <= 2 * MaxFrames
  /\ split \in BOOLEAN
  /\ segs \in [{1, 2} -> Halves]

Frame(place) == << <<place, 1>>, <<place, 2>> >>

Init ==
  /\ written = 0 /\ display_buf = Blank
  /\ reader = "read" /\ buf = Blank
  /\ stream = <<>> /\ split \in BOOLEAN /\ segs = Frame(Blank)

(* A bug: the terminator is written as well, which the device refuses.     *)
StoredRefused(place) == display_buf

Stored(place) == place

More == written < Letters

WriteLetter ==
  /\ More
  /\ written' = written + 1
  /\ display_buf' = Stored(written')
  /\ UNCHANGED <<reader, buf, stream, split, segs>>

(* A bug: the device forgets a letter that has been read.                  *)
ReadDeviceForgets ==
  /\ reader = "read" /\ reader' = "write"
  /\ buf' = display_buf /\ display_buf' = Blank
  /\ UNCHANGED <<written, stream, split, segs>>

ReadDevice ==
  /\ reader = "read" /\ reader' = "write"
  /\ buf' = display_buf
  /\ UNCHANGED <<written, display_buf, stream, split, segs>>

Send ==
  /\ reader = "write" /\ Len(stream) + 2 <= 2 * MaxFrames
  /\ stream' = stream \o Frame(buf)
  /\ reader' = "read"
  /\ UNCHANGED <<written, display_buf, buf, split, segs>>

(* Ctrl-C closes the device and the connection; the next call fails.       *)
Interrupt ==
  /\ reader \in {"read", "write"} /\ reader' = "closed"
  /\ UNCHANGED <<written, display_buf, buf, stream, split, segs>>

CallFails ==
  /\ reader = "closed" /\ reader' = "exited"
  /\ UNCHANGED <<written, display_buf, buf, stream, split, segs>>

(* From now on recv gives all that is there.                               *)
CutNoMore ==
  /\ split /\ split' = FALSE
  /\ UNCHANGED <<written, display_buf, reader, buf, stream, segs>>

(* recv(16) gives up to a frame of what is there, wherever a frame begins: *)
(* the first half received is shown in the first part of the display, and  *)
(* the segments that are not received stay.                                *)
Receive(halves) ==
  /\ Len(stream) >= halves
  /\ segs' = [k \in {1, 2} |-> IF k <= halves THEN stream[k] ELSE segs[k]]
  /\ stream' = SubSeq(stream, halves + 1, Len(stream))
  /\ UNCHANGED <<written, display_buf, reader, buf, split>>

Update == Receive(2) \/ ((split \/ Len(stream) = 1) /\ Receive(1))

Next == WriteLetter \/ ReadDevice \/ Send \/ Update \/ Interrupt \/ CallFails \/ CutNoMore

Spec == Init /\ [][Next]_vars

Fairness == WF_vars(WriteLetter) /\ WF_vars(ReadDevice \/ Send \/ CallFails) /\ WF_vars(Update)

FairSpec == Spec /\ Fairness

-----------------------------------------------------------------------------
(* However the three are delayed and frames are cut, no part of the        *)
(* display goes back to an earlier letter, nor from a letter to nothing    *)
(* (writer.c:35-41, mydev.c:74-86, reader.c:51-62, seg.py:58-65).          *)
NeverBackwards == [][\A k \in {1, 2} : segs'[k][1] >= segs[k][1]]_segs

(* Both parts of the display show the last letter and stay so, however     *)
(* long writer, which ends then, has been gone.  A cut frame leaves the    *)
(* halves swapped (seg.py:58 knows no frames), but once cuts are over and  *)
(* the display has caught up, which it does ten times a second while       *)
(* reader sends once (seg.py:67, reader.c:67), they are right again.       *)
LastLetterStays ==
  <>(~split /\ stream = <<>>) =>
    (<>[](segs = Frame(Letters)) \/ <>(reader \in {"closed", "exited"}))

=============================================================================
