------------------------------ MODULE RtpStream ------------------------------
(***************************************************************************)
(* From H264Source::HandleFrame over the network to StreamingWorker::run:  *)
(* a frame is cut into RTP packets, the network loses and reorders them,   *)
(* and the receiver, which does not look at sequence numbers, joins        *)
(* payloads until a packet with the marker.  The packet is built in        *)
(* rtp_pkt, a member of the session's H264Source: the threads that stream  *)
(* an on-demand session to different clients all build theirs in it.       *)
(* A live session has one such thread and is the case of one sender.       *)
(***************************************************************************)
EXTENDS Naturals, Sequences

CONSTANTS
  Senders,     \* the threads that stream the session, each to its own receiver
  SizesOf,     \* bound: the frames each sends, as a sequence of sets of sizes
  MaxPayload,  \* MAX_RTP_PAYLOAD_SIZE
  MaxFrame,    \* MAX_SIZE_PROCESSING_FRAME
  RoomOf       \* bound: packets under way to a receiver

ASSUME StreamAssumption ==
  /\ Senders # {}
  /\ SizesOf \in [Senders -> Seq(SUBSET (Nat \ {0, 1}))]
  /\ MaxPayload \in Nat /\ MaxPayload > 2 /\ MaxFrame \in Nat /\ MaxFrame > MaxPayload
  /\ RoomOf \in [Senders -> Nat]

VARIABLES
  sender,   \* where a thread is in HandleFrame, and the bytes of its frame that are behind it
  sizes,    \* the sizes of the frames a thread has handled
  pkt,      \* rtp_pkt
  wire,     \* the packets under way to a receiver
  rx,       \* the locals of StreamingWorker::run
  hurt      \* the frames that did not reach the receiver as they were cut

streamVars == <<sender, sizes, pkt, wire, rx, hurt>>

Byte == [of : Senders, frame : Nat, at : Nat]
(* What is in rtp_pkt before the first frame.                              *)
Blank == [of |-> CHOOSE s \in Senders : TRUE, frame |-> 0, at |-> 0]
Packet == [data : Seq(Byte), marker : BOOLEAN, frame : Nat]
Receiver == [data : Seq(Byte), first : BOOLEAN, offset : {0, 2},
             running : BOOLEAN, heard : SUBSET Nat]

StreamTypeOK ==
  /\ sender \in [Senders -> [pc : {"read", "size", "copy", "header", "send", "done"}, at : Nat]]
  /\ sizes \in [Senders -> Seq(Nat)]
  /\ pkt \in [data : [1..MaxPayload -> Byte], size : 0..MaxPayload, last : BOOLEAN, marker : BOOLEAN]
  /\ wire \in [Senders -> Seq(Packet)]
  /\ rx \in [Senders -> Receiver]
  /\ \A s \in Senders : Len(rx[s].data) < MaxFrame
  /\ hurt \in [Senders -> SUBSET Nat]

StreamInit ==
  /\ sender = [s \in Senders |-> [pc |-> "read", at |-> 0]]
  /\ sizes = [s \in Senders |-> <<>>]
  /\ pkt = [data |-> [i \in 1..MaxPayload |-> Blank], size |-> 0, last |-> FALSE, marker |-> FALSE]
  /\ wire = [s \in Senders |-> <<>>]
  /\ rx = [s \in Senders |-> [data |-> <<>>, first |-> FALSE, offset |-> 0,
                              running |-> TRUE, heard |-> {}]]
  /\ hurt = [s \in Senders |-> {}]

-----------------------------------------------------------------------------
(* H264Source::HandleFrame.                                                *)
Frame(s) == Len(sizes[s])
Bytes(s, from, to) == [i \in 1..(to + 1 - from) |-> [of |-> s, frame |-> Frame(s), at |-> from + i - 1]]
(* The two bytes of an FU-A header.                                        *)
FuA(s) == Bytes(s, 0, 0) \o Bytes(s, 0, 0)
Remaining(s) == sizes[s][Frame(s)] - sender[s].at
Single(n) == n <= MaxPayload
IsLast(s) == Single(sizes[s][Frame(s)]) \/ Remaining(s) + 2 <= MaxPayload
Advance(s) == IF IsLast(s) THEN Remaining(s) ELSE MaxPayload - 2
Piece(s) ==
  LET body == Bytes(s, sender[s].at + 1, sender[s].at + Advance(s))
  IN IF Single(sizes[s][Frame(s)]) THEN body ELSE FuA(s) \o body

At(s, here, there) == sender[s].pc = here /\ sender' = [sender EXCEPT ![s].pc = there]

(* The first byte of a frame that is cut is not sent.                      *)
HandleFrame(s) ==
  /\ sender[s].pc = "read" /\ Frame(s) < Len(SizesOf[s])
  /\ \E n \in SizesOf[s][Frame(s) + 1] :
       /\ sizes' = [sizes EXCEPT ![s] = Append(@, n)]
       /\ sender' = [sender EXCEPT ![s] = [pc |-> "size", at |-> IF Single(n) THEN 0 ELSE 1]]
  /\ UNCHANGED <<pkt, wire, rx, hurt>>

SetSize(s) ==
  /\ At(s, "size", "copy")
  /\ pkt' = [pkt EXCEPT !.size = Len(Piece(s)), !.last = IsLast(s)]
  /\ UNCHANGED <<sizes, wire, rx, hurt>>

(* What a longer packet left behind the new payload stays there.           *)
CopyPayload(s) ==
  /\ At(s, "copy", "header")
  /\ pkt' = [pkt EXCEPT !.data = Piece(s) \o SubSeq(@, Len(Piece(s)) + 1, Len(@))]
  /\ UNCHANGED <<sizes, wire, rx, hurt>>

SetRtpHeader(s) ==
  /\ At(s, "header", "send")
  /\ pkt' = [pkt EXCEPT !.marker = pkt.last]
  /\ UNCHANGED <<sizes, wire, rx, hurt>>

(* The packet goes out as it is in rtp_pkt by now; without room for it in  *)
(* a buffer on its way it is lost.                                         *)
Built(s) == [data |-> SubSeq(pkt.data, 1, pkt.size), marker |-> pkt.marker, frame |-> Frame(s)]
Own(s) == [data |-> Piece(s), marker |-> IsLast(s), frame |-> Frame(s)]
HasRoom(s) == rx[s].running /\ Len(wire[s]) < RoomOf[s]
SendRtpPacket(s) ==
  /\ sender[s].pc = "send"
  /\ wire' = IF HasRoom(s) THEN [wire EXCEPT ![s] = Append(@, Built(s))] ELSE wire
  /\ hurt' = IF HasRoom(s) /\ Built(s) = Own(s) THEN hurt ELSE [hurt EXCEPT ![s] = @ \cup {Frame(s)}]
  /\ sender' = [sender EXCEPT ![s] = [pc |-> IF IsLast(s) THEN "read" ELSE "size",
                                      at |-> @.at + Advance(s)]]
  /\ UNCHANGED <<sizes, pkt, rx>>

(* sendto fails: Teardown, and the thread ends.                            *)
SendFails(s) ==
  /\ At(s, "send", "done")
  /\ UNCHANGED <<sizes, pkt, wire, rx, hurt>>

-----------------------------------------------------------------------------
(* The network.                                                            *)
Lose(s) ==
  /\ wire[s] # <<>>
  /\ wire' = [wire EXCEPT ![s] = Tail(@)]
  /\ hurt' = [hurt EXCEPT ![s] = @ \cup {Head(wire[s]).frame}]
  /\ UNCHANGED <<sender, sizes, pkt, rx>>

(* A packet overtakes the one before it.                                   *)
Overtake(s) ==
  /\ Len(wire[s]) > 1
  /\ wire' = [wire EXCEPT ![s] = <<@[2], @[1]>> \o SubSeq(@, 3, Len(@))]
  /\ hurt' = [hurt EXCEPT ![s] = @ \cup {wire[s][1].frame, wire[s][2].frame}]
  /\ UNCHANGED <<sender, sizes, pkt, rx>>

-----------------------------------------------------------------------------
(* StreamingWorker::run.                                                   *)

(* A packet with the marker that does not start a frame is read as the one *)
(* before it was.                                                          *)
Offset(r, p) == IF ~p.marker THEN 2 ELSE IF ~r.first THEN 0 ELSE r.offset
Joined(r, p) == r.data \o SubSeq(p.data, Offset(r, p) + 1, Len(p.data))
FirstStays(r) == [r EXCEPT !.data = <<>>]   \* a slip: first_frame is not reset
Restart(r) == [r EXCEPT !.data = <<>>, !.first = FALSE]
PastTheEnd(r, p) == Len(Joined(r, p)) > MaxFrame   \* a slip
TooLong(r, p) == Len(Joined(r, p)) >= MaxFrame
(* The packet completes what is passed to the decoder.                     *)
Completes(r, p) == p.marker /\ ~TooLong(r, p)
Since(r, p) == r.heard \cup {p.frame}

ReceivePacket(s) ==
  /\ rx[s].running /\ wire[s] # <<>>
  /\ LET p == Head(wire[s])
         r == [rx[s] EXCEPT !.offset = Offset(rx[s], p), !.heard = @ \cup {p.frame}]
     IN rx' = [rx EXCEPT ![s] =
          IF TooLong(r, p) THEN Restart(r)
          ELSE IF p.marker THEN [Restart(r) EXCEPT !.heard = {}]
          ELSE [r EXCEPT !.data = Joined(r, p), !.first = TRUE]]
  /\ wire' = [wire EXCEPT ![s] = Tail(@)]
  /\ UNCHANGED <<sender, sizes, pkt, hurt>>

(* recv throws, or the decoder has no picture: run returns.                *)
ReceiverEnds(s) ==
  /\ rx[s].running
  /\ rx' = [rx EXCEPT ![s].running = FALSE]
  /\ wire' = [wire EXCEPT ![s] = <<>>]
  /\ UNCHANGED <<sender, sizes, pkt, hurt>>

StreamNext == \E s \in Senders :
  \/ HandleFrame(s) \/ SetSize(s) \/ CopyPayload(s) \/ SetRtpHeader(s) \/ SendRtpPacket(s) \/ SendFails(s)
  \/ Lose(s) \/ Overtake(s) \/ ReceivePacket(s) \/ ReceiverEnds(s)

StreamSpec == StreamInit /\ [][StreamNext]_streamVars

-----------------------------------------------------------------------------
(* The bytes of frame f that are sent, and whether the receiver's buffer   *)
(* has room for them.                                                      *)
Sent(s, f) ==
  LET n == sizes[s][f]
      first == IF Single(n) THEN 1 ELSE 2
  IN [i \in 1..(n + 1 - first) |-> [of |-> s, frame |-> f, at |-> first + i - 1]]
Fits(s, f) == Len(Sent(s, f)) < MaxFrame

(* What a loss, a reordering, another thread's writes in rtp_pkt or too    *)
(* long a frame spoil ends at the next marker: what is decoded is exactly  *)
(* the frame it ends with, or one of the frames since the last decoding    *)
(* was spoiled itself.  (H264Source::HandleFrame, StreamingWorker::run)    *)
SpoiledUpToMarker ==
  \A s \in Senders : wire[s] # <<>> /\ Completes(rx[s], Head(wire[s])) =>
    \/ Joined(rx[s], Head(wire[s])) = Sent(s, Head(wire[s]).frame)
    \/ \E f \in Since(rx[s], Head(wire[s])) : f \in hurt[s] \/ ~Fits(s, f)
=============================================================================
