----------------------------- MODULE RecvBuffer -----------------------------
(***************************************************************************)
(* The receive path of one accepted session: Buffer (CircularBuffer.cpp),  *)
(* Session::RequestRecv and Session::ProcessRecv.  TCP hands over the      *)
(* client's stream in pieces of any length; ProcessRecv cuts it into       *)
(* packets.  One WSARecv is outstanding at a time (SessionPool), so the    *)
(* steps of the handler follow one another; only m_bConnected is changed   *)
(* by other threads meanwhile.                                             *)
(***************************************************************************)
EXTENDS Integers, SequencesExt

CONSTANTS
  BUF_SIZE,    \* capacity of the buffer
  HEADER,      \* sizeof(PacketHeader)
  Sizes,       \* sizes, header included, of the packets a client sends
  Builds,      \* has assert() been kept? the answers of the builds considered
  NoByte,      \* content of a cell that was never written
  MaxPackets   \* bound: packets sent by the client

ASSUME RecvAssumption ==
  /\ BUF_SIZE \in Nat
  /\ HEADER \in 1 .. BUF_SIZE
  /\ Sizes \subseteq {s \in Nat : s >= HEADER}
  /\ Builds \subseteq BOOLEAN
  /\ MaxPackets \in Nat

\* A byte of the stream: the off-th byte of the pkt-th packet.  The header
\* bytes carry the size of the packet.
Byte == [pkt : Nat \ {0}, off : Nat \ {0}, size : Sizes]

Packet(k, s) == [j \in 1 .. s |-> [pkt |-> k, off |-> j, size |-> s]]

VARIABLES
  m_pBuf, m_readPos, m_writePos,   \* the members of Buffer
  m_bConnected,
  pc,          \* "posted": WSARecv outstanding; then the parts of the handler
  sent,        \* history: sizes of the packets the client has sent
  socket,      \* bytes sent and not yet received, in order
  processed    \* history: packets given to ProcessPacket

vars == <<m_pBuf, m_readPos, m_writePos, m_bConnected, pc, sent, socket, processed>>

CalSize == m_writePos - m_readPos

CalFreeSpace == BUF_SIZE - m_writePos

TypeOK ==
  /\ m_pBuf \in [0 .. BUF_SIZE - 1 -> Byte \cup {NoByte}]
  /\ m_readPos \in 0 .. BUF_SIZE
  /\ m_writePos \in 0 .. BUF_SIZE
  /\ m_bConnected \in BOOLEAN
  /\ pc \in {"posted", "received", "parsed", "stopped", "aborted"}
  /\ sent \in Seq(Sizes)
  /\ socket \in Seq(Byte)
  /\ processed \in Seq(Nat \ {0})

\* ProcessAccept has set m_bConnected and posted the first receive.
Init ==
  /\ m_pBuf = [i \in 0 .. BUF_SIZE - 1 |-> NoByte]
  /\ m_readPos = 0
  /\ m_writePos = 0
  /\ m_bConnected = TRUE
  /\ pc = "posted"
  /\ sent = <<>>
  /\ socket = <<>>
  /\ processed = <<>>

\* The client writes a packet to its socket.
ClientSends(s) ==
  /\ Len(sent) < MaxPackets
  /\ sent' = Append(sent, s)
  /\ socket' = socket \o Packet(Len(sent) + 1, s)
  /\ UNCHANGED <<m_pBuf, m_readPos, m_writePos, m_bConnected, pc, processed>>

\* Another thread has seen a failed send of this session.
OtherThreadDisconnects ==
  /\ m_bConnected
  /\ m_bConnected' = FALSE
  /\ UNCHANGED <<m_pBuf, m_readPos, m_writePos, pc, sent, socket, processed>>

\* Zero bytes, or an error: IOThreadMain disconnects, no receive follows.  A
\* receive that was posted without room completes with zero bytes too.
ReceiveFails ==
  /\ pc = "posted"
  /\ pc' = "stopped"
  /\ m_bConnected' = FALSE
  /\ UNCHANGED <<m_pBuf, m_readPos, m_writePos, sent, socket, processed>>

\* The system stores n bytes at GetBufEnd; ProcessRecv moves the write position.
MoveWritePos(n) ==
  /\ pc = "posted"
  /\ m_bConnected
  /\ m_pBuf' = [i \in DOMAIN m_pBuf |->
                  IF i \in m_writePos .. m_writePos + n - 1
                  THEN socket[i - m_writePos + 1]
                  ELSE m_pBuf[i]]
  /\ m_writePos' = m_writePos + n
  /\ socket' = SubSeq(socket, n + 1, Len(socket))
  /\ pc' = "received"
  /\ UNCHANGED <<m_readPos, m_bConnected, sent, processed>>

\* ProcessRecv returns early: the session is no longer connected.
IgnoreReceived ==
  /\ pc = "posted"
  /\ ~m_bConnected
  /\ socket # <<>>
  /\ pc' = "stopped"
  /\ UNCHANGED <<m_pBuf, m_readPos, m_writePos, m_bConnected, sent, socket, processed>>

Header == m_pBuf[m_readPos]

\* Mutant: one byte more is wanted than the packet has.
PacketComplete_OneMore == CalSize >= HEADER /\ CalSize > Header.size

PacketComplete == CalSize >= HEADER /\ CalSize >= Header.size

\* assert(payloadSize <= BUF_SIZE)
SizeFits == CalSize >= HEADER => Header.size <= BUF_SIZE

\* What follows an assert that fails is done in a build without asserts.
AfterAssert(holds) == holds \/ FALSE \in Builds

StopsAtAssert(holds) == ~holds /\ TRUE \in Builds

\* Mutant: the read position stays at the packet.
ProcessPacket_NotConsumed ==
  /\ pc = "received"
  /\ AfterAssert(SizeFits)
  /\ PacketComplete
  /\ processed' = Append(processed, Header.pkt)
  /\ pc' = "parsed"
  /\ UNCHANGED <<m_pBuf, m_readPos, m_writePos, m_bConnected, sent, socket>>

\* At most one packet is processed for one completion.
ProcessPacket ==
  /\ pc = "received"
  /\ AfterAssert(SizeFits)
  /\ PacketComplete
  /\ processed' = Append(processed, Header.pkt)
  /\ m_readPos' = m_readPos + Header.size
  /\ pc' = "parsed"
  /\ UNCHANGED <<m_pBuf, m_writePos, m_bConnected, sent, socket>>

\* Mutant: the handler looks again for the rest instead of receiving it.
PacketIncomplete_LooksAgain ==
  /\ pc = "received"
  /\ AfterAssert(SizeFits)
  /\ ~PacketComplete
  /\ UNCHANGED vars

PacketIncomplete ==
  /\ pc = "received"
  /\ AfterAssert(SizeFits)
  /\ ~PacketComplete
  /\ pc' = "parsed"
  /\ UNCHANGED <<m_pBuf, m_readPos, m_writePos, m_bConnected, sent, socket, processed>>

SizeAssertFails ==
  /\ pc = "received"
  /\ StopsAtAssert(SizeFits)
  /\ pc' = "aborted"
  /\ UNCHANGED <<m_pBuf, m_readPos, m_writePos, m_bConnected, sent, socket, processed>>

\* Mutant: Reset without the shift.
ShiftAndReset_NoShift ==
  /\ m_writePos' = 0
  /\ m_readPos' = 0
  /\ UNCHANGED <<m_pBuf, m_bConnected, sent, socket, processed>>

\* RequestRecv: ShiftBufferForward when bytes are left over, then Reset.
ShiftAndReset ==
  /\ m_pBuf' = [i \in DOMAIN m_pBuf |->
                  IF i < CalSize THEN m_pBuf[m_readPos + i] ELSE m_pBuf[i]]
  /\ m_writePos' = CalSize
  /\ m_readPos' = 0
  /\ UNCHANGED <<m_bConnected, sent, socket, processed>>

\* assert(wsabuf.len != 0): the buffer is full.
RoomLeft == CalSize # BUF_SIZE

RequestRecv ==
  /\ pc = "parsed"
  /\ ShiftAndReset
  /\ \/ AfterAssert(RoomLeft) /\ pc' = "posted"
     \/ StopsAtAssert(RoomLeft) /\ pc' = "aborted"

\* WSARecv fails at once.
RequestRecvFails ==
  /\ pc = "parsed"
  /\ AfterAssert(RoomLeft)
  /\ ShiftAndReset
  /\ pc' = "stopped"

\* The transport delivers what was sent as long as there is room for it.
Receive ==
  \E n \in 1 .. CalFreeSpace : n <= Len(socket) /\ MoveWritePos(n)

Handle ==
  \/ ProcessPacket
  \/ PacketIncomplete
  \/ SizeAssertFails
  \/ RequestRecv

Next ==
  \/ \E s \in Sizes : ClientSends(s)
  \/ OtherThreadDisconnects
  \/ ReceiveFails
  \/ Receive
  \/ IgnoreReceived
  \/ Handle
  \/ RequestRecvFails

Spec == Init /\ [][Next]_vars

\* The transport delivers, the IO thread runs its handler to the end, and a
\* receive without room completes with zero bytes.
FairSpec ==
  /\ Spec
  /\ WF_vars(Receive)
  /\ WF_vars(Handle)
  /\ WF_vars(CalFreeSpace = 0 /\ ReceiveFails)

-----------------------------------------------------------------------------
(* Properties *)

\* The bytes between the two positions.
Window == [i \in 1 .. CalSize |-> m_pBuf[m_readPos + i - 1]]

\* The stream from the first packet that was not processed.
Unprocessed ==
  LET n == Len(processed)
  IN  FlattenSeq([k \in 1 .. Len(sent) - n |-> Packet(n + k, sent[n + k])])

\* Whatever the pieces the stream came in, shifting and resetting the buffer
\* neither loses, repeats nor reorders a byte, and the read position is at a
\* packet boundary: window and socket are the stream still to be processed.
StreamIntact ==
  pc \notin {"stopped", "aborted"} => Window \o socket = Unprocessed

\* Packets are handed to ProcessPacket once each and in the order sent.
ProcessedInOrder ==
  \A i \in 1 .. Len(processed) : processed[i] = i

\* Session.cpp:245 and :277 assert that there is room for the next receive
\* and that a packet fits the buffer.  Although one packet at most is taken
\* out per completion, neither assert fails while a client's packets fit.
AssertsHold ==
  (\A k \in 1 .. Len(sent) : sent[k] <= BUF_SIZE) => pc # "aborted"

\* A packet the buffer cannot hold never reaches ProcessPacket, nor does any
\* packet behind it.
OversizeNeverProcessed ==
  \A i \in 1 .. Len(processed) : sent[processed[i]] <= BUF_SIZE

\* The server keeps reading: all that a client sends is received, unless the
\* connection or the process ends.
StreamDrained ==
  socket # <<>> ~> (socket = <<>> \/ ~m_bConnected \/ pc \in {"stopped", "aborted"})

=============================================================================
