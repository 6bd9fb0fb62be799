----------------------------- MODULE EStopWire -----------------------------
(* The emergency stop with the bytes of its frames: that EStop may take a   *)
(* frame for its kind, a damaged one for noise, and host for what the host  *)
(* reads.                                                                   *)
EXTENDS EStop, Wire

(* send_frame of the handheld *)
RadioFrame(kind) == Encode(kind, <<>>, MAX_FRAME_LEN)

(* send_state of the pod *)
StateBytes(view) == <<ByteOf(IF view.safety = "Armed" THEN 0 ELSE 1),
                      ByteOf(IF view.link = "Live" THEN 0 ELSE 1)>>
Report(view) == CobsEncode(Encode("StateChange", StateBytes(view), MAX_FRAME_LEN),
                           MAX_ENCODED_LEN)

(* How the radio may damage a frame: up to three bits are inverted, a byte  *)
(* is replaced, the end is missing.                                         *)
Flipped(frame, places) ==
  [n \in 1 .. Len(frame) |-> Xor(frame[n], {i \in Bits : <<n, i>> \in places})]
Damaged(frame) ==
  LET at == (1 .. Len(frame)) \X Bits IN
  ({Flipped(frame, places) : places \in {{p, q, r} : p \in at, q \in at, r \in at}}
   \cup {[frame EXCEPT ![n] = byte] : n \in 1 .. Len(frame), byte \in Byte}
   \cup {SubSeq(frame, 1, n) : n \in 0 .. Len(frame) - 1}) \ {frame}

Robust(kind) ==
  /\ Heard(RadioFrame(kind)) = Classify(kind)
  /\ \A damaged \in Damaged(RadioFrame(kind)) : Heard(damaged) = "BadFrame"
RadioFrames == {[kind |-> kind, robust |-> Robust(kind)] : kind \in {"Heartbeat", "Stop"}}

(* Pod and handheld agree on every frame that is sent, and one that was     *)
(* damaged on its way is noise to the pod: a damaged Stop does not pass for *)
(* a Heartbeat.                                                             *)
AirIsUnderstood ==
  \A n \in 1 .. Len(air) : [kind |-> air[n], robust |-> TRUE] \in RadioFrames

(* The host misses a stretch of two reports. *)
Remains(sent, lost) ==
  SubSeq(sent, 1, lost[1] - 1) \o SubSeq(sent, lost[2] + 1, Len(sent))
Resyncs(old, new) ==
  LET sent == Report(old) \o Report(new) IN
  \A lost \in (1 .. Len(sent)) \X (0 .. Len(sent)) :
    lost[1] <= lost[2] + 1 =>
      LET read == Read(Remains(sent, lost)) IN
      /\ read \subseteq {StateBytes(old), StateBytes(new)}
      /\ lost[2] < Len(Report(old)) => StateBytes(new) \in read

Views == [safety : SafetyState, link : LinkState]
ReportPairs == {[old |-> old, new |-> new, resyncs |-> Resyncs(old, new)] :
                  old \in Views, new \in Views}

(* A host that misses any stretch of two reports in a row, the beginning or *)
(* a delimiter included, reads no state that the pod did not report; if all *)
(* it missed is before the end of the first, it reads the second.           *)
HostResyncs == [][[old |-> host, new |-> host', resyncs |-> TRUE] \in ReportPairs]_vars
=============================================================================
