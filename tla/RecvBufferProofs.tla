-------------------------- MODULE RecvBufferProofs --------------------------
(***************************************************************************)
(* Proofs about RecvBuffer for any capacity, header, packet sizes and      *)
(* number of packets.  What is between the read position and the end of    *)
(* the socket is described byte by byte, without a recursion: it starts    *)
(* with the first packet that was not processed, every packet in it is     *)
(* whole, and the next one follows.  That these bytes are the packets sent *)
(* and not processed, joined by FlattenSeq, is proved last: an induction   *)
(* over the number of packets shows what FlattenSeq does when one is added *)
(* at the end (ClientSends) or taken from the front (ProcessPacket).       *)
(***************************************************************************)
EXTENDS RecvBuffer, SequenceTheorems, WellFoundedInduction, TLAPS

\* Bytes received and not processed, then bytes not received.
StreamLen == CalSize + Len(socket)

StreamAt(i) == IF i <= CalSize THEN m_pBuf[m_readPos + i - 1] ELSE socket[i - CalSize]

ByteOf(k, j) == [pkt |-> k, off |-> j, size |-> sent[k]]

\* The packet whose first byte is at i is whole, and what follows it is the
\* first byte of the next packet, or nothing if it is the last one sent.
WholePacketAt(i) ==
  LET k == StreamAt(i).pkt
  IN  /\ k \in 1 .. Len(sent)
      /\ i + sent[k] - 1 <= StreamLen
      /\ \A j \in 1 .. sent[k] : StreamAt(i + j - 1) = ByteOf(k, j)
      /\ IF i + sent[k] <= StreamLen
         THEN k < Len(sent) /\ StreamAt(i + sent[k]) = ByteOf(k + 1, 1)
         ELSE k = Len(sent)

\* The stream is the packets after those processed.
Framed ==
  /\ Len(processed) <= Len(sent)
  /\ StreamLen = 0 <=> Len(processed) = Len(sent)
  /\ StreamLen > 0 => StreamAt(1) = ByteOf(Len(processed) + 1, 1)
  /\ \A i \in 1 .. StreamLen :
       /\ StreamAt(i) \in Byte
       /\ StreamAt(i).off = 1 => WholePacketAt(i)

\* Between handling and receiving there is room for a byte at least, if the
\* packets the client has sent fit the buffer.
RoomAfterParsing ==
  (\A k \in 1 .. Len(sent) : sent[k] <= BUF_SIZE) =>
     /\ pc # "aborted"
     /\ pc = "parsed" => CalSize < BUF_SIZE

Bounds == m_readPos <= m_writePos

IInv == TypeOK /\ Bounds /\ Framed /\ RoomAfterParsing

-----------------------------------------------------------------------------
(* Facts that follow from the invariant *)

LEMMA Constants ==
  /\ BUF_SIZE \in Nat
  /\ HEADER \in Nat /\ 1 <= HEADER /\ HEADER <= BUF_SIZE
  /\ \A s \in Sizes : s \in Nat /\ s >= HEADER
  BY RecvAssumption DEF RecvAssumption

LEMMA Numbers ==
  ASSUME TypeOK, Bounds
  PROVE  /\ m_readPos \in Nat /\ m_writePos \in Nat
         /\ CalSize \in Nat /\ CalSize <= BUF_SIZE /\ CalFreeSpace \in Nat
         /\ Len(socket) \in Nat /\ StreamLen \in Nat
         /\ Len(sent) \in Nat /\ Len(processed) \in Nat
  BY Constants, LenProperties
     DEF TypeOK, Bounds, CalSize, CalFreeSpace, StreamLen

\* When a byte is there, Header is the first byte of the packet to process.
LEMMA HeaderIsFirst ==
  ASSUME TypeOK, Bounds, Framed, CalSize >= HEADER
  PROVE  /\ Len(processed) + 1 \in 1 .. Len(sent)
         /\ Header = ByteOf(Len(processed) + 1, 1)
         /\ Header.size = sent[Len(processed) + 1]
         /\ Header.pkt = Len(processed) + 1
         /\ Header.size \in Sizes
         /\ WholePacketAt(1)
<1>1. CalSize >= 1 /\ StreamLen >= 1
  BY Numbers, Constants DEF StreamLen
<1>2. StreamAt(1) = Header
  BY <1>1, Numbers DEF StreamAt, Header
<1>3. Header = ByteOf(Len(processed) + 1, 1) /\ Len(processed) # Len(sent)
  BY <1>1, <1>2, Numbers DEF Framed
<1>4. Len(processed) + 1 \in 1 .. Len(sent)
  BY <1>3, Numbers DEF Framed
<1>5. sent[Len(processed) + 1] \in Sizes
  BY <1>4, ElementOfSeq DEF TypeOK
<1>6. WholePacketAt(1)
  BY <1>1, <1>2, <1>3, Numbers DEF Framed, ByteOf
<1> QED
  BY <1>3, <1>4, <1>5, <1>6 DEF ByteOf

\* A step that only moves bytes from the socket to the buffer, or inside the
\* buffer, keeps the stream.
LEMMA SameStream ==
  ASSUME Framed, StreamLen' = StreamLen, sent' = sent, processed' = processed,
         \A i \in 1 .. StreamLen : StreamAt(i)' = StreamAt(i),
         StreamLen \in Nat, \A k \in 1 .. Len(sent) : sent[k] \in Nat \ {0},
         Len(sent) \in Nat
  PROVE  Framed'
<1>1. \A k, j : ByteOf(k, j)' = ByteOf(k, j)
  BY DEF ByteOf
<1>2. ASSUME NEW i \in 1 .. StreamLen, StreamAt(i).off = 1
      PROVE  WholePacketAt(i)'
  <2> DEFINE k == StreamAt(i).pkt
  <2>1. WholePacketAt(i)
    BY <1>2 DEF Framed
  <2>2. k \in 1 .. Len(sent) /\ sent[k] \in Nat \ {0} /\ i + sent[k] - 1 <= StreamLen
    BY <2>1 DEF WholePacketAt
  <2>3. StreamAt(i)'.pkt = k
    OBVIOUS
  <2>4. \A j \in 1 .. sent[k] : StreamAt(i + j - 1)' = StreamAt(i + j - 1)
    BY <2>2
  <2>5. i + sent[k] <= StreamLen => StreamAt(i + sent[k])' = StreamAt(i + sent[k])
    BY <2>2
  <2> QED
    BY <1>1, <2>1, <2>2, <2>3, <2>4, <2>5 DEF WholePacketAt
<1> QED
  BY <1>1, <1>2 DEF Framed

LEMMA SentSizes ==
  ASSUME TypeOK
  PROVE  \A k \in 1 .. Len(sent) : sent[k] \in Sizes /\ sent[k] \in Nat \ {0}
  BY ElementOfSeq, Constants DEF TypeOK

-----------------------------------------------------------------------------
(* One lemma per kind of step *)

LEMMA InitIInv == Init => IInv
<1> SUFFICES ASSUME Init PROVE IInv
  OBVIOUS
<1>1. TypeOK
  <2>1. /\ m_pBuf \in [0 .. BUF_SIZE - 1 -> Byte \cup {NoByte}]
        /\ m_readPos \in 0 .. BUF_SIZE /\ m_writePos \in 0 .. BUF_SIZE
        /\ pc \in {"posted", "received", "parsed", "stopped", "aborted"}
    BY Constants DEF Init
  <2>2. m_bConnected \in BOOLEAN
    BY DEF Init
  <2>3. sent \in Seq(Sizes) /\ socket \in Seq(Byte) /\ processed \in Seq(Nat \ {0})
    BY EmptySeq DEF Init
  <2> QED
    BY <2>1, <2>2, <2>3 DEF TypeOK
<1>2. Bounds
  BY DEF Init, Bounds
<1>3. StreamLen = 0 /\ Len(sent) = 0 /\ Len(processed) = 0
  BY EmptySeq DEF Init, StreamLen, CalSize
<1>4. Framed
  BY <1>3 DEF Framed
<1>5. RoomAfterParsing
  BY DEF Init, RoomAfterParsing
<1> QED
  BY <1>1, <1>2, <1>4, <1>5 DEF IInv

\* A packet is put at the end of the stream.
LEMMA ClientSendsIInv ==
  ASSUME IInv, NEW s \in Sizes, ClientSends(s)
  PROVE  IInv'
<1> USE DEF IInv
<1>1. PICK n \in Nat, L \in Nat, c \in Nat, r \in Nat :
        n = Len(sent) /\ L = StreamLen /\ c = CalSize /\ r = Len(socket) /\ L = c + r
  BY Numbers DEF StreamLen
<1>2. s \in Nat /\ s >= 1
  BY Constants
<1>3. PICK new : new = Packet(n + 1, s)
  OBVIOUS
<1>4. /\ sent' = Append(sent, s)
      /\ socket' = socket \o new
      /\ UNCHANGED <<m_pBuf, m_readPos, m_writePos, m_bConnected, pc, processed>>
  BY <1>1, <1>3 DEF ClientSends
<1>5. /\ new \in Seq(Byte) /\ Len(new) = s
      /\ \A j \in 1 .. s : new[j] = [pkt |-> n + 1, off |-> j, size |-> s]
  <2>1. new \in [1 .. s -> Byte]
    BY <1>1, <1>2, <1>3 DEF Packet, Byte
  <2>2. new \in Seq(Byte)
    BY <1>2, <2>1, SeqDef
  <2> QED
    BY <1>2, <1>3, <2>1, <2>2, LenProperties DEF Packet
<1>6. /\ sent' \in Seq(Sizes) /\ Len(sent') = n + 1
      /\ \A k \in 1 .. n : sent'[k] = sent[k]
      /\ sent'[n + 1] = s
  BY <1>1, <1>4, AppendProperties DEF TypeOK
<1>7. /\ socket' \in Seq(Byte) /\ Len(socket') = r + s
      /\ \A i \in 1 .. r : socket'[i] = socket[i]
      /\ \A j \in 1 .. s : socket'[r + j] = new[j]
  <2>1. /\ socket' \in Seq(Byte) /\ Len(socket') = r + s
        /\ \A i \in 1 .. r + s : socket'[i] = IF i <= r THEN socket[i] ELSE new[i - r]
    BY <1>1, <1>4, <1>5, ConcatProperties DEF TypeOK
  <2> QED
    BY <2>1, <1>1, <1>2, SMTT(40)
<1>8. TypeOK' /\ Bounds' /\ RoomAfterParsing'
  BY <1>1, <1>4, <1>6, <1>7, SMTT(40) DEF TypeOK, Bounds, RoomAfterParsing, CalSize
<1>9. CalSize' = c
  BY <1>1, <1>4 DEF CalSize
<1>10. StreamLen' = L + s
  BY <1>1, <1>2, <1>7, <1>9 DEF StreamLen
<1>11. \A k \in 1 .. n, j \in Nat : ByteOf(k, j)' = ByteOf(k, j)
  BY <1>6 DEF ByteOf
<1>12. \A j \in Nat : ByteOf(n + 1, j)' = [pkt |-> n + 1, off |-> j, size |-> s]
  BY <1>6 DEF ByteOf
<1>13. \A i \in 1 .. L : StreamAt(i)' = StreamAt(i)
  <2> SUFFICES ASSUME NEW i \in 1 .. L PROVE StreamAt(i)' = StreamAt(i)
    OBVIOUS
  <2>1. CASE i <= c
    BY <2>1, <1>1, <1>4, <1>9 DEF StreamAt
  <2>2. CASE i > c
    <3>1. i - c \in 1 .. r
      BY <2>2, <1>1
    <3> QED
      BY <2>2, <3>1, <1>1, <1>7, <1>9 DEF StreamAt
  <2> QED
    BY <2>1, <2>2, <1>1
<1>14. \A j \in 1 .. s : StreamAt(L + j)' = ByteOf(n + 1, j)'
  <2> SUFFICES ASSUME NEW j \in 1 .. s PROVE StreamAt(L + j)' = ByteOf(n + 1, j)'
    OBVIOUS
  <2>1. j \in Nat /\ (L + j) - c = r + j /\ ~(L + j <= c)
    BY <1>1, <1>2
  <2>2. StreamAt(L + j)' = socket'[(L + j) - c]
    BY <2>1, <1>9 DEF StreamAt
  <2>3. socket'[r + j] = ByteOf(n + 1, j)'
    BY <2>1, <1>5, <1>7, <1>12
  <2> QED
    BY <2>1, <2>2, <2>3
<1>15. PICK p \in Nat : p = Len(processed) /\ p = Len(processed') /\ p <= n
  BY <1>1, <1>4, Numbers DEF Framed
<1>16. StreamAt(1)' = ByteOf(p + 1, 1)'
  <2>1. CASE L = 0
    <3>1. p = n
      BY <2>1, <1>1, <1>15 DEF Framed
    <3>2. StreamAt(0 + 1)' = ByteOf(n + 1, 1)'
      BY <2>1, <1>2, <1>14
    <3> QED
      BY <3>1, <3>2
  <2>2. CASE L > 0
    <3>1. StreamAt(1) = ByteOf(p + 1, 1) /\ p + 1 \in 1 .. n
      BY <2>2, <1>1, <1>15 DEF Framed
    <3> QED
      BY <2>2, <3>1, <1>1, <1>11, <1>13
  <2> QED
    BY <2>1, <2>2, <1>1
<1>17. ASSUME NEW i \in 1 .. L, StreamAt(i).off = 1
       PROVE  WholePacketAt(i)'
  <2>1. WholePacketAt(i)
    BY <1>1, <1>17 DEF Framed
  <2>2. PICK k \in 1 .. n, z \in Nat \ {0} : k = StreamAt(i).pkt /\ z = sent[k]
    BY <2>1, <1>1, SentSizes DEF WholePacketAt
  <2>3. /\ i + z - 1 <= L
        /\ \A j \in 1 .. z : StreamAt(i + j - 1) = ByteOf(k, j)
        /\ i + z <= L => k < n /\ StreamAt(i + z) = ByteOf(k + 1, 1)
        /\ i + z > L => k = n
    BY <2>1, <2>2, <1>1 DEF WholePacketAt
  <2>4. StreamAt(i)'.pkt = k /\ sent'[k] = z /\ k \in 1 .. n + 1
    BY <2>2, <1>1, <1>6, <1>13
  <2>5. \A j \in 1 .. z : StreamAt(i + j - 1)' = ByteOf(k, j)'
    BY <2>2, <2>3, <1>1, <1>11, <1>13
  <2>6. StreamAt(i + z)' = ByteOf(k + 1, 1)' /\ k < n + 1 /\ i + z <= L + s
    <3>1. CASE i + z <= L
      <4>1. i + z \in 1 .. L /\ k + 1 \in 1 .. n /\ k < n + 1 /\ i + z <= L + s
        BY <3>1, <2>2, <2>3, <1>1, <1>2, SMTT(40)
      <4> QED
        BY <4>1, <3>1, <2>3, <1>11, <1>13
    <3>2. CASE i + z > L
      <4>1. k = n /\ i + z = L + 1
        <5>1. i \in Nat /\ i + z - 1 <= L /\ i + z > L
          BY <3>2, <2>3, <1>1
        <5> QED
          BY <5>1, <3>2, <2>2, <2>3, <1>1, SMTT(40)
      <4> QED
        BY <4>1, <1>1, <1>2, <1>14
    <3> QED
      BY <3>1, <3>2, <2>2, <1>1
  <2> QED
    BY <2>2, <2>3, <2>4, <2>5, <2>6, <1>1, <1>2, <1>6, <1>10 DEF WholePacketAt
<1>18. WholePacketAt(L + 1)'
  <2>1. StreamAt(L + 1)'.pkt = n + 1
    <3>1. 1 \in 1 .. s /\ 1 \in Nat
      BY <1>2
    <3>2. StreamAt(L + 1)' = ByteOf(n + 1, 1)'
      BY <3>1, <1>14
    <3>3. ByteOf(n + 1, 1)' = [pkt |-> n + 1, off |-> 1, size |-> s]
      BY <3>1, <1>12
    <3> QED
      BY <3>2, <3>3
  <2>2. \A j \in 1 .. s : StreamAt((L + 1) + j - 1)' = ByteOf(n + 1, j)'
    <3> SUFFICES ASSUME NEW j \in 1 .. s
                 PROVE  StreamAt((L + 1) + j - 1)' = ByteOf(n + 1, j)'
      OBVIOUS
    <3>1. (L + 1) + j - 1 = L + j
      BY <1>1
    <3> QED
      BY <3>1, <1>14
  <2> QED
    BY <2>1, <2>2, <1>1, <1>2, <1>6, <1>10 DEF WholePacketAt
<1>19. ASSUME NEW i \in 1 .. L + s
       PROVE  StreamAt(i)' \in Byte /\ (StreamAt(i)'.off = 1 => WholePacketAt(i)')
  <2>1. CASE i <= L
    BY <2>1, <1>1, <1>13, <1>17 DEF Framed
  <2>2. CASE i > L
    <3>1. PICK j \in 1 .. s : i = L + j
      <4>1. i - L \in 1 .. s /\ i = L + (i - L)
        BY <2>2, <1>1, <1>2
      <4> QED
        BY <4>1
    <3>2. StreamAt(i)' = [pkt |-> n + 1, off |-> j, size |-> s]
      BY <3>1, <1>12, <1>14
    <3>3. StreamAt(i)' \in Byte /\ StreamAt(i)'.off = j
      BY <3>2, <1>1, <1>2 DEF Byte
    <3> QED
      BY <3>1, <3>3, <1>18
  <2> QED
    BY <2>1, <2>2, <1>1
<1>20. Framed'
  BY <1>1, <1>2, <1>6, <1>10, <1>15, <1>16, <1>19 DEF Framed
<1> QED
  BY <1>8, <1>20

\* Bytes that move from the socket into the buffer keep their place in the
\* stream.
LEMMA ReceiveIInv ==
  ASSUME IInv, NEW n \in 1 .. CalFreeSpace, n <= Len(socket), MoveWritePos(n)
  PROVE  /\ IInv'
         /\ StreamLen' = StreamLen
         /\ \A i \in 1 .. StreamLen : StreamAt(i)' = StreamAt(i)
<1> USE DEF IInv
<1>1. PICK c \in Nat, r \in Nat :
        c = CalSize /\ r = Len(socket) /\ StreamLen = c + r
  BY Numbers DEF StreamLen
<1>2. /\ n \in Nat /\ n >= 1 /\ n <= r /\ m_writePos + n <= BUF_SIZE
      /\ m_readPos \in Nat /\ m_writePos \in Nat /\ c = m_writePos - m_readPos
  BY <1>1, Numbers, Constants DEF CalFreeSpace, CalSize
<1>3. /\ m_pBuf' = [i \in DOMAIN m_pBuf |->
                      IF i \in m_writePos .. m_writePos + n - 1
                      THEN socket[i - m_writePos + 1]
                      ELSE m_pBuf[i]]
      /\ m_writePos' = m_writePos + n
      /\ socket' = SubSeq(socket, n + 1, r)
      /\ pc' = "received"
      /\ UNCHANGED <<m_readPos, m_bConnected, sent, processed>>
  BY <1>1 DEF MoveWritePos
<1>4. \A i \in 1 .. r : socket[i] \in Byte
  BY <1>1, ElementOfSeq DEF TypeOK
<1>5. /\ socket' \in Seq(Byte) /\ Len(socket') = r - n
      /\ \A i \in 1 .. r - n : socket'[i] = socket[n + i]
  <2>1. \A i \in n + 1 .. r : socket[i] \in Byte
    BY <1>2, <1>4
  <2>2. /\ socket' \in Seq(Byte)
        /\ Len(socket') = IF n + 1 <= r THEN r - (n + 1) + 1 ELSE 0
        /\ \A i \in 1 .. r - (n + 1) + 1 : socket'[i] = socket[(n + 1) + i - 1]
    BY <1>2, <1>3, <2>1, SubSeqProperties
  <2>3. r - (n + 1) + 1 = r - n /\ Len(socket') = r - n
    BY <1>2, <2>2
  <2>4. ASSUME NEW i \in 1 .. r - n PROVE socket'[i] = socket[n + i]
    <3>1. (n + 1) + i - 1 = n + i /\ i \in 1 .. r - (n + 1) + 1
      BY <1>2
    <3> QED
      BY <2>2, <3>1
  <2> QED
    BY <2>2, <2>3, <2>4
<1>6. m_pBuf' \in [0 .. BUF_SIZE - 1 -> Byte \cup {NoByte}]
  <2>1. \A i \in m_writePos .. m_writePos + n - 1 : socket[i - m_writePos + 1] \in Byte
    BY <1>2, <1>4
  <2> QED
    BY <2>1, <1>3 DEF TypeOK
<1>7. TypeOK' /\ Bounds' /\ RoomAfterParsing'
  <2>1. m_writePos' \in 0 .. BUF_SIZE /\ Bounds'
    BY <1>2, <1>3, Constants DEF TypeOK, Bounds
  <2>2. RoomAfterParsing'
    BY <1>3 DEF RoomAfterParsing
  <2> QED
    BY <2>1, <2>2, <1>3, <1>5, <1>6 DEF TypeOK
<1>8. CalSize' = c + n
  BY <1>2, <1>3 DEF CalSize
<1>9. StreamLen' = StreamLen
  BY <1>1, <1>2, <1>5, <1>8 DEF StreamLen
<1>10. \A i \in 1 .. StreamLen : StreamAt(i)' = StreamAt(i)
  <2> SUFFICES ASSUME NEW i \in 1 .. c + r PROVE StreamAt(i)' = StreamAt(i)
    BY <1>1
  <2>1. CASE i <= c
    <3>1. /\ m_readPos + i - 1 \in 0 .. BUF_SIZE - 1
          /\ m_readPos + i - 1 \notin m_writePos .. m_writePos + n - 1
          /\ i <= c + n
      BY <2>1, <1>1, <1>2, Constants
    <3>2. m_pBuf'[m_readPos + i - 1] = m_pBuf[m_readPos + i - 1]
      BY <3>1, <1>3 DEF TypeOK
    <3> QED
      BY <2>1, <3>1, <3>2, <1>1, <1>3, <1>8 DEF StreamAt
  <2>2. CASE c < i /\ i <= c + n
    <3>1. /\ m_readPos + i - 1 \in 0 .. BUF_SIZE - 1
          /\ m_readPos + i - 1 \in m_writePos .. m_writePos + n - 1
          /\ (m_readPos + i - 1) - m_writePos + 1 = i - c
          /\ ~(i <= c)
      BY <2>2, <1>1, <1>2, Constants
    <3>2. m_pBuf'[m_readPos + i - 1] = socket[i - c]
      BY <3>1, <1>3 DEF TypeOK
    <3> QED
      BY <2>2, <3>1, <3>2, <1>1, <1>3, <1>8 DEF StreamAt
  <2>3. CASE i > c + n
    <3>1. /\ i - (c + n) \in 1 .. r - n
          /\ n + (i - (c + n)) = i - c
          /\ ~(i <= c) /\ ~(i <= c + n)
      BY <2>3, <1>1, <1>2
    <3>2. socket'[i - (c + n)] = socket[i - c]
      BY <3>1, <1>5
    <3> QED
      BY <3>1, <3>2, <1>1, <1>8 DEF StreamAt
  <2> QED
    BY <2>1, <2>2, <2>3, <1>1, <1>2
<1>11. Framed'
  BY <1>3, <1>9, <1>10, Numbers, SentSizes, SameStream
<1> QED
  BY <1>7, <1>9, <1>10, <1>11

\* The shift keeps what is between the positions.
LEMMA ShiftIInv ==
  ASSUME IInv, ShiftAndReset, pc = "parsed",
         pc' \in {"posted", "stopped", "aborted"},
         pc' = "aborted" => CalSize = BUF_SIZE
  PROVE  /\ IInv'
         /\ StreamLen' = StreamLen
         /\ \A i \in 1 .. StreamLen : StreamAt(i)' = StreamAt(i)
<1> USE DEF IInv
<1>1. PICK c \in Nat, r \in Nat :
        c = CalSize /\ r = Len(socket) /\ StreamLen = c + r
  BY Numbers DEF StreamLen
<1>2. /\ c <= BUF_SIZE /\ m_readPos \in Nat /\ m_writePos \in 0 .. BUF_SIZE
      /\ c = m_writePos - m_readPos
  BY <1>1, Numbers DEF CalSize, TypeOK
<1>3. /\ m_pBuf' = [i \in DOMAIN m_pBuf |->
                      IF i < c THEN m_pBuf[m_readPos + i] ELSE m_pBuf[i]]
      /\ m_writePos' = c /\ m_readPos' = 0
      /\ UNCHANGED <<m_bConnected, sent, socket, processed>>
  BY <1>1 DEF ShiftAndReset
<1>4. \A i \in 0 .. BUF_SIZE - 1 : i < c => m_readPos + i \in 0 .. BUF_SIZE - 1
  BY <1>1, <1>2, Constants
<1>5. m_pBuf' \in [0 .. BUF_SIZE - 1 -> Byte \cup {NoByte}]
  BY <1>3, <1>4 DEF TypeOK
<1>6. TypeOK' /\ Bounds'
  BY <1>1, <1>2, <1>3, <1>5, Constants DEF TypeOK, Bounds
<1>7. CalSize' = c /\ StreamLen' = StreamLen
  BY <1>1, <1>3 DEF CalSize, StreamLen
<1>8. RoomAfterParsing'
  BY <1>1, <1>2, <1>3, Constants DEF RoomAfterParsing
<1>9. \A i \in 1 .. StreamLen : StreamAt(i)' = StreamAt(i)
  <2> SUFFICES ASSUME NEW i \in 1 .. c + r PROVE StreamAt(i)' = StreamAt(i)
    BY <1>1
  <2>1. CASE i <= c
    <3>1. /\ i - 1 \in 0 .. BUF_SIZE - 1 /\ i - 1 < c
          /\ m_readPos + (i - 1) = m_readPos + i - 1 /\ 0 + i - 1 = i - 1
      BY <2>1, <1>1, <1>2, Constants
    <3>2. m_pBuf'[i - 1] = m_pBuf[m_readPos + i - 1]
      BY <3>1, <1>3 DEF TypeOK
    <3> QED
      BY <2>1, <3>1, <3>2, <1>1, <1>3, <1>7 DEF StreamAt
  <2>2. CASE i > c
    <3>1. ~(i <= c)
      BY <2>2, <1>1
    <3> QED
      BY <3>1, <1>1, <1>3, <1>7 DEF StreamAt
  <2> QED
    BY <2>1, <2>2, <1>1
<1>10. Framed'
  BY <1>3, <1>7, <1>9, Numbers, SentSizes, SameStream
<1> QED
  BY <1>6, <1>7, <1>8, <1>9, <1>10

\* The packet at the head is whole and leaves the stream as a whole.
LEMMA ProcessIInv ==
  ASSUME IInv, ProcessPacket
  PROVE  /\ IInv'
         /\ processed' = Append(processed, Len(processed) + 1)
         /\ sent[Len(processed) + 1] <= CalSize
         /\ StreamLen' = StreamLen - sent[Len(processed) + 1]
         /\ \A i \in 1 .. StreamLen - sent[Len(processed) + 1] :
              StreamAt(i)' = StreamAt(i + sent[Len(processed) + 1])
<1> USE DEF IInv
<1>1. /\ pc = "received" /\ CalSize >= HEADER /\ CalSize >= Header.size
      /\ processed' = Append(processed, Header.pkt)
      /\ m_readPos' = m_readPos + Header.size
      /\ pc' = "parsed"
      /\ UNCHANGED <<m_pBuf, m_writePos, m_bConnected, sent, socket>>
  BY DEF ProcessPacket, PacketComplete
<1>2. PICK c \in Nat, r \in Nat, L \in Nat, n \in Nat, p \in Nat :
        /\ c = CalSize /\ r = Len(socket) /\ L = StreamLen /\ L = c + r
        /\ n = Len(sent) /\ p = Len(processed)
  BY Numbers DEF StreamLen
<1>3. /\ p + 1 \in 1 .. n /\ Header.pkt = p + 1
      /\ Header.size = sent[p + 1] /\ WholePacketAt(1)
  BY <1>1, <1>2, HeaderIsFirst
<1>4. PICK z \in Nat : z = sent[p + 1] /\ z >= 1 /\ z >= HEADER /\ z <= c
  BY <1>1, <1>2, <1>3, SentSizes, Constants
<1>5. /\ m_readPos \in Nat /\ m_writePos \in 0 .. BUF_SIZE /\ c = m_writePos - m_readPos
      /\ c <= BUF_SIZE
  BY <1>2, Numbers DEF CalSize, TypeOK
<1>6. m_readPos' = m_readPos + z /\ processed' = Append(processed, p + 1)
  BY <1>1, <1>3, <1>4
<1>7. CalSize' = c - z /\ StreamLen' = L - z
  <2>1. CalSize' = c - z
    BY <1>1, <1>4, <1>5, <1>6 DEF CalSize
  <2>2. StreamLen' = (c - z) + r
    BY <2>1, <1>1, <1>2 DEF StreamLen
  <2> QED
    BY ONLY <1>2, <2>1, <2>2, c \in Nat, r \in Nat, z \in Nat
<1>8. processed' \in Seq(Nat \ {0}) /\ Len(processed') = p + 1
  <2>1. p + 1 \in Nat \ {0}
    BY <1>2
  <2> QED
    BY <2>1, <1>2, <1>6, AppendProperties DEF TypeOK
<1>9. TypeOK' /\ Bounds'
  <2>1. BUF_SIZE \in Nat
    BY Constants
  <2>2. m_readPos + z <= m_writePos /\ m_writePos <= BUF_SIZE /\ m_readPos + z \in Nat
    BY ONLY <1>4, <1>5, <2>1, z \in Nat, c \in Nat
  <2>3. m_readPos' \in 0 .. BUF_SIZE /\ m_readPos' <= m_writePos
    BY ONLY <2>1, <2>2, <1>5, <1>6, z \in Nat
  <2> QED
    BY <2>3, <1>1, <1>8 DEF TypeOK, Bounds
<1>10. RoomAfterParsing'
  <2>1. CalSize' < BUF_SIZE /\ pc' = "parsed"
    BY <1>1, <1>4, <1>5, <1>7, Constants
  <2> QED
    BY <2>1, Constants DEF RoomAfterParsing
<1>11. \A i \in 1 .. L - z : StreamAt(i)' = StreamAt(i + z)
  <2> SUFFICES ASSUME NEW i \in 1 .. L - z PROVE StreamAt(i)' = StreamAt(i + z)
    OBVIOUS
  <2>1. /\ i <= c - z <=> i + z <= c
        /\ (m_readPos + z) + i - 1 = m_readPos + (i + z) - 1
        /\ i - (c - z) = (i + z) - c
    BY ONLY <1>5, i \in 1 .. L - z, L \in Nat, c \in Nat, z \in Nat
  <2> QED
    BY <2>1, <1>1, <1>2, <1>6, <1>7 DEF StreamAt
<1>12. \A k, j : ByteOf(k, j)' = ByteOf(k, j)
  BY <1>1 DEF ByteOf
<1>13. /\ 1 + z - 1 <= L
       /\ IF 1 + z <= L THEN p + 1 < n /\ StreamAt(1 + z) = ByteOf(p + 2, 1) ELSE p + 1 = n
  <2>1. StreamAt(1).pkt = p + 1
    <3>1. L > 0
      BY <1>2, <1>4
    <3> QED
      BY <3>1, <1>2 DEF Framed, ByteOf
  <2>2. (p + 1) + 1 = p + 2
    BY <1>2
  <2> QED
    BY <2>1, <2>2, <1>2, <1>3, <1>4 DEF WholePacketAt
<1>14. ASSUME NEW i \in 1 .. L - z
       PROVE  StreamAt(i)' \in Byte /\ (StreamAt(i)'.off = 1 => WholePacketAt(i)')
  <2>1. i + z \in 1 .. L /\ StreamAt(i)' = StreamAt(i + z)
    BY <1>2, <1>4, <1>11
  <2>2. StreamAt(i + z) \in Byte
    BY <2>1, <1>2 DEF Framed
  <2>3. ASSUME StreamAt(i + z).off = 1 PROVE WholePacketAt(i)'
    <3>1. WholePacketAt(i + z)
      BY <2>1, <2>3, <1>2 DEF Framed
    <3>2. PICK k \in 1 .. n, y \in Nat \ {0} : k = StreamAt(i + z).pkt /\ y = sent[k]
      BY <3>1, <1>2, SentSizes DEF WholePacketAt
    <3>3. /\ (i + z) + y - 1 <= L
          /\ \A j \in 1 .. y : StreamAt((i + z) + j - 1) = ByteOf(k, j)
          /\ (i + z) + y <= L => k < n /\ StreamAt((i + z) + y) = ByteOf(k + 1, 1)
          /\ (i + z) + y > L => k = n
      BY <3>1, <3>2, <1>2 DEF WholePacketAt
    <3>4. i + y - 1 <= L - z /\ (i + y <= L - z <=> (i + z) + y <= L)
      BY ONLY <3>3, i \in 1 .. L - z, L \in Nat, z \in Nat, y \in Nat \ {0}
    <3>5. \A j \in 1 .. y : StreamAt(i + j - 1)' = ByteOf(k, j)'
      <4> SUFFICES ASSUME NEW j \in 1 .. y
                   PROVE  StreamAt(i + j - 1)' = ByteOf(k, j)'
        OBVIOUS
      <4>1. i + j - 1 \in 1 .. L - z /\ (i + j - 1) + z = (i + z) + j - 1
        BY <3>2, <3>4, <1>2, SMTT(40)
      <4> QED
        BY <4>1, <3>3, <1>11, <1>12
    <3>6. i + y <= L - z => k < n /\ StreamAt(i + y)' = ByteOf(k + 1, 1)'
      <4> SUFFICES ASSUME i + y <= L - z
                   PROVE  k < n /\ StreamAt(i + y)' = ByteOf(k + 1, 1)'
        OBVIOUS
      <4>1. i + y \in 1 .. L - z /\ (i + y) + z = (i + z) + y
        BY ONLY i + y <= L - z, i \in 1 .. L - z, L \in Nat, z \in Nat, y \in Nat \ {0}
      <4> QED
        BY <4>1, <3>3, <3>4, <1>11, <1>12
    <3>7. ~(i + y <= L - z) => k = n
      BY <3>2, <3>3, <1>2
    <3>8. StreamAt(i)'.pkt = k /\ sent'[k] = y /\ Len(sent') = n
      BY <2>1, <3>2, <1>1, <1>2
    <3> QED
      BY <3>2, <3>4, <3>5, <3>6, <3>7, <3>8, <1>7 DEF WholePacketAt
  <2> QED
    BY <2>1, <2>2, <2>3
<1>15. Framed'
  <2>1. p + 1 <= n /\ Len(sent') = n /\ L - z \in Nat
    BY <1>1, <1>2, <1>3, <1>4
  <2>2. L - z = 0 <=> p + 1 = n
    BY <1>2, <1>4, <1>13, SMTT(40)
  <2>3. L - z > 0 => StreamAt(1)' = ByteOf((p + 1) + 1, 1)'
    <3> SUFFICES ASSUME L - z > 0 PROVE StreamAt(1)' = ByteOf((p + 1) + 1, 1)'
      OBVIOUS
    <3>1. 1 \in 1 .. L - z /\ 1 + z <= L /\ (p + 1) + 1 = p + 2
      BY <2>1, <1>2, <1>4
    <3> QED
      BY <3>1, <1>11, <1>12, <1>13
  <2> QED
    BY <2>1, <2>2, <2>3, <1>7, <1>8, <1>14 DEF Framed
<1>16. processed' = Append(processed, Len(processed) + 1) /\ sent[Len(processed) + 1] <= CalSize
  BY <1>2, <1>4, <1>6
<1>17. /\ StreamLen' = StreamLen - sent[Len(processed) + 1]
       /\ \A i \in 1 .. StreamLen - sent[Len(processed) + 1] :
            StreamAt(i)' = StreamAt(i + sent[Len(processed) + 1])
  BY <1>2, <1>4, <1>7, <1>11, Zenon
<1> QED
  BY <1>9, <1>10, <1>15, <1>16, <1>17, Zenon

\* The steps that leave the bytes where they are.
LEMMA ControlIInv ==
  ASSUME IInv,
         \/ OtherThreadDisconnects \/ ReceiveFails \/ IgnoreReceived
         \/ PacketIncomplete \/ SizeAssertFails \/ UNCHANGED vars
  PROVE  IInv' /\ processed' = processed /\ sent' = sent
<1> USE DEF IInv
<1>1. UNCHANGED <<m_pBuf, m_readPos, m_writePos, sent, socket, processed>>
  BY DEF OtherThreadDisconnects, ReceiveFails, IgnoreReceived, PacketIncomplete,
         SizeAssertFails, vars
<1>2. TypeOK'
  <2>1. m_bConnected' \in BOOLEAN
    BY DEF OtherThreadDisconnects, ReceiveFails, IgnoreReceived, PacketIncomplete,
           SizeAssertFails, vars, TypeOK
  <2>2. pc' \in {"posted", "received", "parsed", "stopped", "aborted"}
    BY DEF OtherThreadDisconnects, ReceiveFails, IgnoreReceived, PacketIncomplete,
           SizeAssertFails, vars, TypeOK
  <2> QED
    BY <1>1, <2>1, <2>2 DEF TypeOK
<1>3. Bounds'
  BY <1>1 DEF Bounds
<1>4. Framed'
  <2>1. StreamLen' = StreamLen /\ \A i \in 1 .. StreamLen : StreamAt(i)' = StreamAt(i)
    BY <1>1 DEF StreamLen, StreamAt, CalSize
  <2> QED
    BY <1>1, <2>1, Numbers, SentSizes, SameStream
<1>5. RoomAfterParsing'
  <2> SUFFICES ASSUME \A k \in 1 .. Len(sent) : sent[k] <= BUF_SIZE
               PROVE  /\ pc' # "aborted"
                      /\ pc' = "parsed" => CalSize < BUF_SIZE
    BY <1>1 DEF RoomAfterParsing, CalSize
  <2>1. CalSize >= HEADER => Header.size \in Sizes /\ Header.size <= BUF_SIZE
    BY HeaderIsFirst
  <2>2. CASE PacketIncomplete
    <3>1. pc' = "parsed" /\ (CalSize < HEADER \/ CalSize < Header.size)
      <4>1. CalSize >= HEADER => ~(CalSize >= Header.size)
        BY <2>2 DEF PacketIncomplete, PacketComplete
      <4>2. CalSize >= HEADER => Header.size \in Nat
        BY <2>1, Constants
      <4> QED
        BY <2>2, <4>1, <4>2, Numbers, Constants DEF PacketIncomplete
    <3> QED
      BY <3>1, <2>1, Numbers, Constants
  <2>3. CASE SizeAssertFails
    BY <2>1, <2>3 DEF SizeAssertFails, StopsAtAssert, SizeFits
  <2>4. CASE OtherThreadDisconnects \/ ReceiveFails \/ IgnoreReceived \/ UNCHANGED vars
    BY <2>4 DEF OtherThreadDisconnects, ReceiveFails, IgnoreReceived, vars, RoomAfterParsing
  <2> QED
    BY <2>2, <2>3, <2>4
<1> QED
  BY <1>1, <1>2, <1>3, <1>4, <1>5

-----------------------------------------------------------------------------
(* The theorems *)

LEMMA NextIInv == IInv /\ [Next]_vars => IInv'
<1> SUFFICES ASSUME IInv, [Next]_vars PROVE IInv'
  OBVIOUS
<1>1. ASSUME NEW s \in Sizes, ClientSends(s) PROVE IInv'
  BY <1>1, ClientSendsIInv
<1>2. CASE Receive
  BY <1>2, ReceiveIInv DEF Receive
<1>3. CASE ProcessPacket
  BY <1>3, ProcessIInv
<1>4. CASE RequestRecv \/ RequestRecvFails
  <2>1. /\ ShiftAndReset /\ pc = "parsed"
        /\ pc' \in {"posted", "stopped", "aborted"}
        /\ pc' = "aborted" => CalSize = BUF_SIZE
    BY <1>4 DEF RequestRecv, RequestRecvFails, StopsAtAssert, RoomLeft
  <2> QED
    BY <2>1, ShiftIInv
<1>5. CASE \/ OtherThreadDisconnects \/ ReceiveFails \/ IgnoreReceived
           \/ PacketIncomplete \/ SizeAssertFails \/ UNCHANGED vars
  BY <1>5, ControlIInv
<1> QED
  BY <1>1, <1>2, <1>3, <1>4, <1>5 DEF Next, Handle

\* IInv is inductive.
THEOREM Inductive == Spec => []IInv
  BY InitIInv, NextIInv, PTL DEF Spec

\* Every variable keeps its type: the positions stay inside the buffer.
THEOREM TypeCorrect == Spec => []TypeOK
  BY Inductive, PTL DEF IInv

\* If the packets of the client fit, neither assert of the receive path fails.
THEOREM AssertsHoldTheorem == Spec => []AssertsHold
<1>1. IInv => AssertsHold
  BY DEF IInv, RoomAfterParsing, AssertsHold
<1> QED
  BY <1>1, Inductive, PTL

\* A step that leaves the history of processed packets alone.
LEMMA SameProcessed ==
  ASSUME IInv, [Next]_vars, ~ProcessPacket
  PROVE  processed' = processed
  BY DEF Next, ClientSends, OtherThreadDisconnects, ReceiveFails, Receive, MoveWritePos,
         IgnoreReceived, Handle, PacketIncomplete, SizeAssertFails, RequestRecv,
         RequestRecvFails, ShiftAndReset, vars

\* Packets are handed to ProcessPacket once each and in the order sent.
THEOREM InOrder == Spec => []ProcessedInOrder
<1>1. Init => ProcessedInOrder
  BY EmptySeq DEF Init, ProcessedInOrder
<1>2. IInv /\ ProcessedInOrder /\ [Next]_vars => ProcessedInOrder'
  <2> SUFFICES ASSUME IInv, ProcessedInOrder, [Next]_vars PROVE ProcessedInOrder'
    OBVIOUS
  <2>1. CASE ProcessPacket
    <3>1. PICK p \in Nat : p = Len(processed) /\ processed' = Append(processed, p + 1)
      BY <2>1, ProcessIInv, Numbers DEF IInv
    <3>2. /\ Len(processed') = p + 1 /\ processed'[p + 1] = p + 1
          /\ \A i \in 1 .. p : processed'[i] = processed[i]
      <4>1. processed \in Seq(Nat \ {0}) /\ p + 1 \in Nat \ {0}
        BY <3>1 DEF IInv, TypeOK
      <4> QED
        BY <3>1, <4>1, AppendProperties
    <3> QED
      BY <3>1, <3>2 DEF ProcessedInOrder
  <2>2. CASE ~ProcessPacket
    BY <2>2, SameProcessed DEF ProcessedInOrder
  <2> QED
    BY <2>1, <2>2
<1> QED
  BY <1>1, <1>2, Inductive, PTL DEF Spec

\* Sent sizes are not forgotten.
LEMMA SentGrows ==
  ASSUME IInv, [Next]_vars
  PROVE  \A k \in 1 .. Len(sent) : k \in 1 .. Len(sent') /\ sent'[k] = sent[k]
<1>1. CASE \E s \in Sizes : ClientSends(s)
  <2>1. PICK s \in Sizes : sent' = Append(sent, s)
    BY <1>1 DEF ClientSends
  <2>2. /\ Len(sent') = Len(sent) + 1 /\ Len(sent) \in Nat
        /\ \A k \in 1 .. Len(sent) : sent'[k] = sent[k]
    BY <2>1, AppendProperties, LenProperties DEF IInv, TypeOK
  <2> QED
    BY <2>2
<1>2. CASE ~ \E s \in Sizes : ClientSends(s)
  <2>1. sent' = sent
    BY <1>2 DEF Next, OtherThreadDisconnects, ReceiveFails, Receive, MoveWritePos,
         IgnoreReceived, Handle, ProcessPacket, PacketIncomplete, SizeAssertFails,
         RequestRecv, RequestRecvFails, ShiftAndReset, vars
  <2> QED
    BY <2>1
<1> QED
  BY <1>1, <1>2

\* A packet larger than the buffer never reaches ProcessPacket, in a build
\* without asserts too.
THEOREM OversizeTheorem == Spec => []OversizeNeverProcessed
<1> DEFINE Fits == \A i \in 1 .. Len(processed) :
                     processed[i] \in 1 .. Len(sent) /\ sent[processed[i]] <= BUF_SIZE
<1>1. Init => Fits
  BY EmptySeq DEF Init
<1>2. IInv /\ Fits /\ [Next]_vars => Fits'
  <2> SUFFICES ASSUME IInv, Fits, [Next]_vars PROVE Fits'
    OBVIOUS
  <2>1. CASE ProcessPacket
    <3>1. PICK p \in Nat : /\ p = Len(processed) /\ processed' = Append(processed, p + 1)
                           /\ sent[p + 1] <= CalSize /\ sent' = sent
      BY <2>1, ProcessIInv, Numbers DEF IInv, ProcessPacket
    <3>2. /\ Len(processed') = p + 1 /\ processed'[p + 1] = p + 1
          /\ \A i \in 1 .. p : processed'[i] = processed[i]
      <4>1. processed \in Seq(Nat \ {0}) /\ p + 1 \in Nat \ {0}
        BY <3>1 DEF IInv, TypeOK
      <4> QED
        BY <3>1, <4>1, AppendProperties
    <3>3. p + 1 \in 1 .. Len(sent)
      BY <2>1, <3>1, HeaderIsFirst DEF IInv, ProcessPacket, PacketComplete
    <3>4. sent[p + 1] <= BUF_SIZE
      BY <3>1, <3>3, Numbers, SentSizes, Constants DEF IInv
    <3> QED
      BY <3>1, <3>2, <3>3, <3>4
  <2>2. CASE ~ProcessPacket
    BY <2>2, SameProcessed, SentGrows
  <2> QED
    BY <2>1, <2>2
<1>3. Fits => OversizeNeverProcessed
  BY DEF OversizeNeverProcessed
<1> QED
  BY <1>1, <1>2, <1>3, Inductive, PTL DEF Spec

-----------------------------------------------------------------------------
(* Joining sequences: what FlattenSeq gives when one is put at either end. *)

\* Induction over a set of numbers: one that has 0, and with a number the
\* next one, has them all, since the least one outside it would follow one
\* that is inside.
LEMMA SetInduction ==
  ASSUME NEW S, 0 \in S, \A n \in Nat : n \in S => n + 1 \in S
  PROVE  Nat \subseteq S
<1>1. ASSUME Nat \ S # {}
      PROVE  FALSE
  <2>1. PICK n \in Nat \ S : \A k \in Nat \ S : <<k, n>> \notin OpToRel(<, Nat)
    BY <1>1, NatLessThanWellFounded, WFMin, Zenon
  <2>2. n - 1 \in Nat /\ (n - 1) + 1 = n
    OBVIOUS
  <2>3. <<n - 1, n>> \in OpToRel(<, Nat)
    BY <2>2 DEF OpToRel
  <2> QED
    BY <2>1, <2>2, <2>3, Zenon
<1> QED
  BY <1>1

\* Kept as names, so that a sequence of sequences is one to the provers
\* only where it has to be.
Cat(x, y) == x \o y

ArrayOf(A) == Seq(A)

LEMMA CatTyped == \A A : \A x, y \in ArrayOf(A) : Cat(x, y) \in ArrayOf(A)
  BY ConcatProperties DEF Cat, ArrayOf

LEMMA CatEmpty ==
  \A A : \A x \in ArrayOf(A) : Cat(x, <<>>) = x /\ Cat(<<>>, x) = x /\ <<>> \in ArrayOf(A)
  BY ConcatEmptySeq, EmptySeq DEF Cat, ArrayOf

LEMMA CatAssociative ==
  \A A : \A x, y, z \in ArrayOf(A) : Cat(Cat(x, y), z) = Cat(x, Cat(y, z))
  BY ConcatAssociative DEF Cat, ArrayOf

\* f[j] joins the first j of the n sequences in ss, as FlattenSeq does it.
Joins(f, ss, n) == f = [j \in 1 .. n |-> IF j = 1 THEN ss[j] ELSE Cat(f[j - 1], ss[j])]

LEMMA JoinsAt ==
  ASSUME NEW n \in Nat, NEW ss, NEW f, Joins(f, ss, n)
  PROVE  /\ n # 0 => f[1] = ss[1]
         /\ \A j \in Nat \ {0} : j < n => f[j + 1] = Cat(f[j], ss[j + 1])
<1>1. \A j \in 1 .. n : f[j] = IF j = 1 THEN ss[j] ELSE Cat(f[j - 1], ss[j])
  BY DEF Joins
<1>2. ASSUME NEW j \in Nat \ {0}, j < n
      PROVE  f[j + 1] = Cat(f[j], ss[j + 1])
  <2>1. j + 1 \in 1 .. n /\ j + 1 # 1 /\ (j + 1) - 1 = j
    BY <1>2
  <2> QED
    BY <1>1, <2>1
<1> QED
  BY <1>1, <1>2

LEMMA JoinsExist ==
  ASSUME NEW n \in Nat, NEW ss
  PROVE  \E f : Joins(f, ss, n)
<1> DEFINE S == {k \in Nat : \E f : Joins(f, ss, k)}
<1>1. 0 \in S
  <2>1. Joins([j \in 1 .. 0 |-> 0], ss, 0)
    BY DEF Joins
  <2> QED
    BY <2>1
<1>2. ASSUME NEW k \in Nat, k \in S
      PROVE  k + 1 \in S
  <2>1. PICK f : Joins(f, ss, k)
    BY <1>2
  <2> DEFINE g == [j \in 1 .. k + 1 |-> IF j = 1 THEN ss[j] ELSE Cat(f[j - 1], ss[j])]
  <2>2. \A j \in 1 .. k : g[j] = f[j]
    <3>1. \A j \in 1 .. k : f[j] = IF j = 1 THEN ss[j] ELSE Cat(f[j - 1], ss[j])
      BY <2>1 DEF Joins
    <3> QED
      BY <3>1
  <2>3. \A j \in 1 .. k + 1 : j # 1 => j - 1 \in 1 .. k
    OBVIOUS
  <2>4. Joins(g, ss, k + 1)
    BY <2>2, <2>3 DEF Joins
  <2> QED
    BY <2>4
<1>3. n \in S
  <2> HIDE DEF S
  <2> QED
    BY <1>1, <1>2, SetInduction
<1> QED
  BY <1>3

\* The same first sequences are joined to the same.
LEMMA JoinsAgree ==
  ASSUME NEW n \in Nat, NEW m \in Nat, n <= m, NEW ss, NEW tt,
         \A j \in 1 .. n : tt[j] = ss[j],
         NEW f, NEW g, Joins(f, ss, n), Joins(g, tt, m)
  PROVE  \A j \in 1 .. n : f[j] = g[j]
<1>1. /\ n # 0 => f[1] = ss[1]
      /\ \A j \in Nat \ {0} : j < n => f[j + 1] = Cat(f[j], ss[j + 1])
  BY JoinsAt
<1>2. /\ m # 0 => g[1] = tt[1]
      /\ \A j \in Nat \ {0} : j < m => g[j + 1] = Cat(g[j], tt[j + 1])
  BY JoinsAt
<1> DEFINE S == {j \in Nat : j \in 1 .. n => f[j] = g[j]}
<1>3. 0 \in S
  OBVIOUS
<1>4. ASSUME NEW j \in Nat, j \in S
      PROVE  j + 1 \in S
  <2>1. CASE j = 0
    BY <1>1, <1>2, <2>1
  <2>2. CASE j # 0 /\ j + 1 \in 1 .. n
    <3>1. f[j] = g[j] /\ ss[j + 1] = tt[j + 1] /\ j < n /\ j < m
      BY <1>4, <2>2
    <3>2. f[j + 1] = Cat(f[j], ss[j + 1]) /\ g[j + 1] = Cat(g[j], tt[j + 1])
      BY <1>1, <1>2, <2>2, <3>1
    <3> QED
      BY <3>1, <3>2
  <2> QED
    BY <2>1, <2>2
<1>5. Nat \subseteq S
  <2> HIDE DEF S
  <2> QED
    BY <1>3, <1>4, SetInduction
<1> QED
  BY <1>5

LEMMA JoinsTyped ==
  ASSUME NEW A, NEW n \in Nat, NEW ss, \A j \in 1 .. n : ss[j] \in ArrayOf(A),
         NEW f, Joins(f, ss, n)
  PROVE  \A j \in 1 .. n : f[j] \in ArrayOf(A)
<1>1. /\ n # 0 => f[1] = ss[1]
      /\ \A j \in Nat \ {0} : j < n => f[j + 1] = Cat(f[j], ss[j + 1])
  BY JoinsAt
<1> DEFINE S == {j \in Nat : j \in 1 .. n => f[j] \in ArrayOf(A)}
<1>2. 0 \in S
  OBVIOUS
<1>3. ASSUME NEW j \in Nat, j \in S
      PROVE  j + 1 \in S
  <2>1. CASE j = 0
    BY <1>1, <2>1
  <2>2. CASE j # 0 /\ j + 1 \in 1 .. n
    <3>1. PICK x \in ArrayOf(A), y \in ArrayOf(A) :
            x = f[j] /\ y = ss[j + 1] /\ f[j + 1] = Cat(x, y)
      BY <1>1, <1>3, <2>2
    <3>2. Cat(x, y) \in ArrayOf(A)
      BY CatTyped
    <3> QED
      BY <3>1, <3>2
  <2> QED
    BY <2>1, <2>2
<1>4. Nat \subseteq S
  <2> HIDE DEF S
  <2> QED
    BY <1>2, <1>3, SetInduction
<1> QED
  BY <1>4

\* The last of them is what FlattenSeq gives.
LEMMA FlattenIs ==
  ASSUME NEW n \in Nat, n # 0, NEW ss, Len(ss) = n, NEW f, Joins(f, ss, n)
  PROVE  FlattenSeq(ss) = f[n]
<1> DEFINE g == CHOOSE h : Joins(h, ss, n)
<1>1. Joins(g, ss, n)
  BY JoinsExist
<1>2. FlattenSeq(ss) = g[n]
  BY Zenon DEF FlattenSeq, Joins, Cat
<1>3. f[n] = g[n]
  <2> HIDE DEF g
  <2>1. n <= n /\ n \in 1 .. n
    OBVIOUS
  <2> QED
    BY <1>1, <2>1, JoinsAgree
<1> QED
  BY <1>2, <1>3

LEMMA FlattenNothing == \A ss : Len(ss) = 0 => FlattenSeq(ss) = ss
  BY DEF FlattenSeq

\* A sequence put at the end comes last.
LEMMA FlattenLast ==
  ASSUME NEW A, NEW n \in Nat, NEW ss, NEW tt, Len(ss) = n, Len(tt) = n + 1,
         n = 0 => ss = <<>>, \A j \in 1 .. n : tt[j] = ss[j], tt[n + 1] \in ArrayOf(A)
  PROVE  FlattenSeq(tt) = Cat(FlattenSeq(ss), tt[n + 1])
<1>1. PICK f : Joins(f, tt, n + 1)
  <2>1. n + 1 \in Nat
    OBVIOUS
  <2> QED
    BY <2>1, JoinsExist
<1>2. /\ FlattenSeq(tt) = f[n + 1] /\ f[1] = tt[1]
      /\ n # 0 => f[n + 1] = Cat(f[n], tt[n + 1])
  <2>1. n + 1 \in Nat /\ n + 1 # 0
    OBVIOUS
  <2> QED
    BY <1>1, <2>1, FlattenIs, JoinsAt
<1>3. CASE n = 0
  <2>1. PICK x \in ArrayOf(A) : x = tt[n + 1]
    OBVIOUS
  <2>2. Cat(<<>>, x) = x
    BY CatEmpty
  <2> QED
    BY <1>2, <1>3, <2>1, <2>2, FlattenNothing
<1>4. CASE n # 0
  <2>1. PICK g : Joins(g, ss, n)
    BY JoinsExist
  <2>2. FlattenSeq(ss) = g[n]
    BY <1>4, <2>1, FlattenIs
  <2>3. g[n] = f[n]
    <3>1. n \in 1 .. n /\ n <= n + 1 /\ n + 1 \in Nat
      BY <1>4
    <3> QED
      BY <1>1, <2>1, <3>1, JoinsAgree
  <2> QED
    BY <1>2, <1>4, <2>2, <2>3
<1> QED
  BY <1>3, <1>4

\* A sequence put in front comes first.
LEMMA FlattenFirst ==
  ASSUME NEW A, NEW n \in Nat, NEW ss, NEW tt, Len(ss) = n, Len(tt) = n + 1,
         n = 0 => ss = <<>>, \A j \in 1 .. n : tt[j + 1] = ss[j] /\ ss[j] \in ArrayOf(A),
         tt[1] \in ArrayOf(A)
  PROVE  FlattenSeq(tt) = Cat(tt[1], FlattenSeq(ss))
<1>1. PICK p \in ArrayOf(A) : p = tt[1]
  OBVIOUS
<1>2. PICK f : Joins(f, tt, n + 1)
  <2>1. n + 1 \in Nat
    OBVIOUS
  <2> QED
    BY <2>1, JoinsExist
<1>3. /\ FlattenSeq(tt) = f[n + 1] /\ f[1] = p
      /\ \A j \in Nat \ {0} : j < n + 1 => f[j + 1] = Cat(f[j], tt[j + 1])
  <2>1. n + 1 \in Nat /\ n + 1 # 0
    OBVIOUS
  <2>2. FlattenSeq(tt) = f[n + 1]
    BY <1>2, <2>1, FlattenIs
  <2>3. /\ n + 1 # 0 => f[1] = tt[1]
        /\ \A j \in Nat \ {0} : j < n + 1 => f[j + 1] = Cat(f[j], tt[j + 1])
    BY ONLY <1>2, <2>1, JoinsAt
  <2> QED
    BY <1>1, <2>1, <2>2, <2>3, Zenon
<1>4. CASE n = 0
  <2>1. Cat(p, <<>>) = p
    BY CatEmpty
  <2> QED
    BY <1>1, <1>3, <1>4, <2>1, FlattenNothing
<1>5. CASE n # 0
  <2>1. PICK g : Joins(g, ss, n)
    BY JoinsExist
  <2>2. /\ FlattenSeq(ss) = g[n] /\ g[1] = ss[1]
        /\ \A j \in Nat \ {0} : j < n => g[j + 1] = Cat(g[j], ss[j + 1])
    <3>1. FlattenSeq(ss) = g[n]
      BY <1>5, <2>1, FlattenIs
    <3>2. /\ n # 0 => g[1] = ss[1]
          /\ \A j \in Nat \ {0} : j < n => g[j + 1] = Cat(g[j], ss[j + 1])
      BY ONLY n \in Nat, <2>1, JoinsAt
    <3> QED
      BY <1>5, <3>1, <3>2, Zenon
  <2>3. \A j \in 1 .. n : g[j] \in ArrayOf(A)
    BY <2>1, JoinsTyped
  <2> DEFINE S == {k \in Nat : k \in 1 .. n => f[k + 1] = Cat(p, g[k])}
  <2>4. 0 \in S
    OBVIOUS
  <2>5. ASSUME NEW k \in Nat, k \in S
        PROVE  k + 1 \in S
    <3>1. SUFFICES ASSUME k + 1 \in 1 .. n PROVE f[(k + 1) + 1] = Cat(p, g[k + 1])
      OBVIOUS
    <3>2. PICK y \in ArrayOf(A) : y = ss[k + 1]
      BY <3>1
    <3>3. f[(k + 1) + 1] = Cat(f[k + 1], y)
      <4>1. k + 1 \in Nat \ {0} /\ k + 1 < n + 1 /\ tt[(k + 1) + 1] = y
        BY <3>1, <3>2
      <4> QED
        BY <1>3, <4>1
    <3>4. CASE k = 0
      <4>1. f[k + 1] = p /\ g[k + 1] = y
        BY <1>3, <2>2, <3>2, <3>4
      <4> QED
        BY <3>3, <4>1
    <3>5. CASE k # 0
      <4>1. k \in 1 .. n /\ k \in Nat \ {0} /\ k < n
        BY <3>1, <3>5
      <4>2. PICK x \in ArrayOf(A) : x = g[k]
        BY <2>3, <4>1
      <4>3. f[k + 1] = Cat(p, x) /\ g[k + 1] = Cat(x, y)
        BY <2>2, <2>5, <3>2, <4>1, <4>2
      <4>4. Cat(Cat(p, x), y) = Cat(p, Cat(x, y))
        BY CatAssociative
      <4> QED
        BY <3>3, <4>3, <4>4
    <3> QED
      BY <3>4, <3>5
  <2>6. n \in S
    <3>1. Nat \subseteq S
      <4> HIDE DEF S
      <4> QED
        BY <2>4, <2>5, SetInduction
    <3> QED
      BY <3>1
  <2> QED
    BY <1>1, <1>3, <1>5, <2>2, <2>6
<1> QED
  BY <1>4, <1>5

LEMMA FlattenTyped ==
  ASSUME NEW A, NEW n \in Nat, NEW ss, Len(ss) = n, n = 0 => ss = <<>>,
         \A j \in 1 .. n : ss[j] \in ArrayOf(A)
  PROVE  FlattenSeq(ss) \in ArrayOf(A)
<1>1. CASE n = 0
  BY <1>1, FlattenNothing, EmptySeq DEF ArrayOf
<1>2. CASE n # 0
  <2>1. PICK f : Joins(f, ss, n)
    BY JoinsExist
  <2>2. FlattenSeq(ss) = f[n]
    BY <1>2, <2>1, FlattenIs
  <2>3. \A j \in 1 .. n : f[j] \in ArrayOf(A)
    BY <2>1, JoinsTyped
  <2>4. n \in 1 .. n
    BY <1>2
  <2> QED
    BY <2>2, <2>3, <2>4, Zenon
<1> QED
  BY <1>1, <1>2

-----------------------------------------------------------------------------
(* The stream *)

\* The packets of these sizes after the first n.
PacketsAfter(sizes, n) == [k \in 1 .. Len(sizes) - n |-> Packet(n + k, sizes[n + k])]

LEMMA PacketTyped ==
  ASSUME NEW k \in Nat \ {0}, NEW s \in Sizes
  PROVE  Packet(k, s) \in Seq(Byte) /\ Len(Packet(k, s)) = s
<1>1. s \in Nat
  BY Constants
<1>2. Packet(k, s) \in [1 .. s -> Byte]
  BY <1>1 DEF Packet, Byte
<1>3. Packet(k, s) \in Seq(Byte)
  BY <1>1, <1>2, SeqDef
<1> QED
  BY <1>1, <1>2, <1>3, LenProperties DEF Packet

LEMMA PacketsAre ==
  ASSUME NEW sizes, NEW n \in Nat, NEW m \in Nat, Len(sizes) = n + m
  PROVE  PacketsAfter(sizes, n) = [k \in 1 .. m |-> Packet(n + k, sizes[n + k])]
<1>1. Len(sizes) - n = m
  BY ONLY Len(sizes) = n + m, n \in Nat, m \in Nat
<1> QED
  BY <1>1, Zenon DEF PacketsAfter

LEMMA PacketsLen ==
  ASSUME NEW sizes, NEW n \in Nat, NEW m \in Nat, Len(sizes) = n + m
  PROVE  Len(PacketsAfter(sizes, n)) = m
<1>1. PacketsAfter(sizes, n) = [k \in 1 .. m |-> Packet(n + k, sizes[n + k])]
  BY PacketsAre, Zenon
<1> QED
  BY ONLY m \in Nat, <1>1

LEMMA PacketsNone ==
  ASSUME NEW sizes, NEW n \in Nat, NEW m \in Nat, Len(sizes) = n + m
  PROVE  m = 0 => PacketsAfter(sizes, n) = <<>>
<1>1. PacketsAfter(sizes, n) = [k \in 1 .. m |-> Packet(n + k, sizes[n + k])]
  BY PacketsAre, Zenon
<1>2. Len(PacketsAfter(sizes, n)) = m
  BY PacketsLen, Zenon
<1> SUFFICES ASSUME m = 0 PROVE PacketsAfter(sizes, n) = <<>>
  OBVIOUS
<1>3. 1 .. m = {}
  BY ONLY m = 0
<1>4. PacketsAfter(sizes, n) \in [1 .. m -> {}]
  BY ONLY <1>1, <1>3
<1>5. PacketsAfter(sizes, n) \in Seq({})
  BY ONLY m \in Nat, <1>4, SeqDef
<1> QED
  BY ONLY m = 0, <1>2, <1>5, EmptySeq

LEMMA PacketsAt ==
  ASSUME NEW sizes \in Seq(Sizes), NEW n \in Nat, NEW m \in Nat, Len(sizes) = n + m
  PROVE  \A k \in 1 .. m : /\ PacketsAfter(sizes, n)[k] = Packet(n + k, sizes[n + k])
                            /\ PacketsAfter(sizes, n)[k] \in ArrayOf(Byte)
<1>1. ASSUME NEW k \in 1 .. m
      PROVE  Packet(n + k, sizes[n + k]) \in ArrayOf(Byte)
  <2>1. n + k \in Nat \ {0} /\ n + k \in 1 .. Len(sizes)
    BY <1>1
  <2>2. sizes[n + k] \in Sizes
    BY <2>1, ElementOfSeq
  <2> QED
    BY <2>1, <2>2, PacketTyped DEF ArrayOf
<1>2. PacketsAfter(sizes, n) = [k \in 1 .. m |-> Packet(n + k, sizes[n + k])]
  BY PacketsAre, Zenon
<1> QED
  BY <1>1, <1>2, Zenon

\* One more packet is sent.
LEMMA PacketSent ==
  ASSUME NEW sizes \in Seq(Sizes), NEW n \in Nat, n <= Len(sizes), NEW s \in Sizes
  PROVE  FlattenSeq(PacketsAfter(Append(sizes, s), n))
           = FlattenSeq(PacketsAfter(sizes, n)) \o Packet(Len(sizes) + 1, s)
<1>1. PICK m \in Nat, l \in Nat : l = Len(sizes) /\ Len(sizes) = n + m
  <2>1. Len(sizes) \in Nat
    BY LenProperties
  <2>2. Len(sizes) - n \in Nat /\ Len(sizes) = n + (Len(sizes) - n)
    BY ONLY <2>1, n \in Nat, n <= Len(sizes)
  <2> QED
    BY <2>1, <2>2, Zenon
<1>2. PICK more \in Seq(Sizes) :
        /\ more = Append(sizes, s) /\ Len(more) = l + 1
        /\ more[l + 1] = s /\ \A k \in 1 .. l : more[k] = sizes[k]
  <2>1. PICK more : more = Append(sizes, s)
    BY Zenon
  <2>2. /\ more \in Seq(Sizes) /\ Len(more) = Len(sizes) + 1
        /\ more[Len(sizes) + 1] = s
        /\ \A k \in 1 .. Len(sizes) : more[k] = sizes[k]
    BY <2>1, AppendProperties
  <2> QED
    BY <1>1, <2>1, <2>2, Zenon
<1>3. PICK ss, tt : ss = PacketsAfter(sizes, n) /\ tt = PacketsAfter(more, n)
  BY Zenon
<1>4. /\ Len(ss) = m /\ (m = 0 => ss = <<>>)
      /\ \A k \in 1 .. m : ss[k] = Packet(n + k, sizes[n + k])
  <2>1. Len(ss) = m
    BY <1>1, <1>3, PacketsLen
  <2>2. m = 0 => ss = <<>>
    BY <1>1, <1>3, PacketsNone
  <2>3. \A k \in 1 .. m : ss[k] = Packet(n + k, sizes[n + k]) /\ ss[k] \in ArrayOf(Byte)
    BY <1>1, <1>3, PacketsAt, Zenon
  <2> QED
    BY <2>1, <2>2, <2>3, Zenon
<1>5. m + 1 \in Nat /\ Len(more) = n + (m + 1) /\ n + (m + 1) = l + 1 /\ m + 1 \in 1 .. m + 1
  BY ONLY n \in Nat, m \in Nat, l \in Nat, <1>1, <1>2
<1>6. /\ Len(tt) = m + 1
      /\ \A k \in 1 .. m + 1 : tt[k] = Packet(n + k, more[n + k]) /\ tt[k] \in ArrayOf(Byte)
  <2>1. Len(tt) = m + 1
    BY <1>3, <1>5, PacketsLen
  <2>2. \A k \in 1 .. m + 1 : tt[k] = Packet(n + k, more[n + k]) /\ tt[k] \in ArrayOf(Byte)
    BY <1>3, <1>5, PacketsAt, Zenon
  <2> QED
    BY <2>1, <2>2, Zenon
<1>7. tt[m + 1] = Packet(l + 1, s) /\ tt[m + 1] \in ArrayOf(Byte)
  BY <1>2, <1>5, <1>6, Zenon
<1>8. ASSUME NEW k \in 1 .. m
      PROVE  tt[k] = ss[k]
  <2>1. k \in 1 .. m + 1 /\ n + k \in 1 .. l
    BY ONLY n \in Nat, m \in Nat, k \in 1 .. m, <1>1
  <2> QED
    BY <1>2, <1>4, <1>6, <2>1, Zenon
<1>9. FlattenSeq(tt) = Cat(FlattenSeq(ss), tt[m + 1])
  <2>1. Len(ss) = m /\ (m = 0 => ss = <<>>) /\ Len(tt) = m + 1 /\ \A k \in 1 .. m : tt[k] = ss[k]
    BY <1>4, <1>6, <1>8, Zenon
  <2> QED
    BY ONLY m \in Nat, <1>7, <2>1, FlattenLast
<1> QED
  BY <1>1, <1>2, <1>3, <1>7, <1>9, Zenon DEF Cat

\* The first packet that was not processed comes first.
LEMMA PacketFirst ==
  ASSUME NEW sizes \in Seq(Sizes), NEW n \in Nat, n < Len(sizes)
  PROVE  FlattenSeq(PacketsAfter(sizes, n))
           = Packet(n + 1, sizes[n + 1]) \o FlattenSeq(PacketsAfter(sizes, n + 1))
<1>1. PICK m \in Nat :
        /\ Len(sizes) = (n + 1) + m /\ Len(sizes) = n + (m + 1)
        /\ n + 1 \in Nat /\ m + 1 \in Nat /\ 1 \in 1 .. m + 1
  <2>1. Len(sizes) \in Nat
    BY LenProperties
  <2>2. /\ Len(sizes) - (n + 1) \in Nat /\ Len(sizes) = (n + 1) + (Len(sizes) - (n + 1))
        /\ Len(sizes) = n + ((Len(sizes) - (n + 1)) + 1)
        /\ n + 1 \in Nat /\ (Len(sizes) - (n + 1)) + 1 \in Nat
        /\ 1 \in 1 .. (Len(sizes) - (n + 1)) + 1
    BY ONLY <2>1, n \in Nat, n < Len(sizes)
  <2> QED
    BY <2>2, Zenon
<1>2. PICK ss, tt : ss = PacketsAfter(sizes, n + 1) /\ tt = PacketsAfter(sizes, n)
  BY Zenon
<1>3. /\ Len(ss) = m /\ (m = 0 => ss = <<>>)
      /\ \A k \in 1 .. m : ss[k] = Packet((n + 1) + k, sizes[(n + 1) + k]) /\ ss[k] \in ArrayOf(Byte)
  <2>1. Len(ss) = m
    BY <1>1, <1>2, PacketsLen
  <2>2. m = 0 => ss = <<>>
    BY <1>1, <1>2, PacketsNone
  <2>3. \A k \in 1 .. m : ss[k] = Packet((n + 1) + k, sizes[(n + 1) + k]) /\ ss[k] \in ArrayOf(Byte)
    BY <1>1, <1>2, PacketsAt, Zenon
  <2> QED
    BY <2>1, <2>2, <2>3, Zenon
<1>4. /\ Len(tt) = m + 1
      /\ \A k \in 1 .. m + 1 : tt[k] = Packet(n + k, sizes[n + k]) /\ tt[k] \in ArrayOf(Byte)
  <2>1. Len(tt) = m + 1
    BY <1>1, <1>2, PacketsLen
  <2>2. \A k \in 1 .. m + 1 : tt[k] = Packet(n + k, sizes[n + k]) /\ tt[k] \in ArrayOf(Byte)
    BY <1>1, <1>2, PacketsAt, Zenon
  <2> QED
    BY <2>1, <2>2, Zenon
<1>5. ASSUME NEW k \in 1 .. m
      PROVE  tt[k + 1] = ss[k]
  <2>1. k + 1 \in 1 .. m + 1 /\ n + (k + 1) = (n + 1) + k
    BY ONLY n \in Nat, m \in Nat, k \in 1 .. m
  <2> QED
    BY <1>3, <1>4, <2>1, Zenon
<1>6. FlattenSeq(tt) = Cat(tt[1], FlattenSeq(ss))
  <2>1. /\ Len(ss) = m /\ (m = 0 => ss = <<>>) /\ Len(tt) = m + 1 /\ tt[1] \in ArrayOf(Byte)
        /\ \A k \in 1 .. m : tt[k + 1] = ss[k] /\ ss[k] \in ArrayOf(Byte)
    BY <1>1, <1>3, <1>4, <1>5, Zenon
  <2> QED
    BY ONLY m \in Nat, <2>1, FlattenFirst
<1>7. tt[1] = Packet(n + 1, sizes[n + 1])
  BY <1>1, <1>4, Zenon
<1> QED
  BY <1>2, <1>6, <1>7, Zenon DEF Cat

LEMMA UnprocessedTyped ==
  ASSUME NEW sizes \in Seq(Sizes), NEW n \in Nat, n <= Len(sizes)
  PROVE  FlattenSeq(PacketsAfter(sizes, n)) \in ArrayOf(Byte)
<1>1. PICK m \in Nat : Len(sizes) = n + m
  <2>1. Len(sizes) \in Nat
    BY LenProperties
  <2>2. Len(sizes) - n \in Nat /\ Len(sizes) = n + (Len(sizes) - n)
    BY ONLY <2>1, n \in Nat, n <= Len(sizes)
  <2> QED
    BY <2>2, Zenon
<1>2. PICK ss : ss = PacketsAfter(sizes, n)
  BY Zenon
<1>3. Len(ss) = m /\ (m = 0 => ss = <<>>) /\ \A k \in 1 .. m : ss[k] \in ArrayOf(Byte)
  <2>1. Len(ss) = m
    BY <1>1, <1>2, PacketsLen
  <2>2. m = 0 => ss = <<>>
    BY <1>1, <1>2, PacketsNone
  <2>3. \A k \in 1 .. m : ss[k] = Packet(n + k, sizes[n + k]) /\ ss[k] \in ArrayOf(Byte)
    BY <1>1, <1>2, PacketsAt, Zenon
  <2> QED
    BY <2>1, <2>2, <2>3, Zenon
<1>4. FlattenSeq(ss) \in ArrayOf(Byte)
  BY ONLY m \in Nat, <1>3, FlattenTyped
<1> QED
  BY <1>2, <1>4, Zenon

-----------------------------------------------------------------------------
(* Window and socket are the stream *)

Rest == Window \o socket

RestIsStream ==
  /\ Rest \in Seq(Byte)
  /\ Len(Rest) = StreamLen
  /\ \A i \in 1 .. StreamLen : Rest[i] = StreamAt(i)

LEMMA WindowTyped ==
  ASSUME IInv
  PROVE  /\ Window \in Seq(Byte) /\ Len(Window) = CalSize
         /\ \A i \in 1 .. CalSize : Window[i] = StreamAt(i)
<1>1. PICK c \in Nat, r \in Nat : c = CalSize /\ r = Len(socket) /\ StreamLen = c + r
  BY Numbers DEF StreamLen, IInv
<1>2. PICK w : w = Window
  OBVIOUS
<1>3. w = [i \in 1 .. c |-> m_pBuf[m_readPos + i - 1]]
  BY <1>1, <1>2 DEF Window
<1>4. ASSUME NEW i \in 1 .. c
      PROVE  m_pBuf[m_readPos + i - 1] = StreamAt(i) /\ StreamAt(i) \in Byte
  <2>1. i <= c /\ i \in 1 .. c + r
    BY <1>1
  <2> QED
    BY <1>1, <2>1 DEF IInv, Framed, StreamAt
<1>5. w \in [1 .. c -> Byte] /\ \A i \in 1 .. c : w[i] = StreamAt(i)
  BY <1>3, <1>4, Zenon
<1>6. w \in Seq(Byte) /\ Len(w) = c
  BY ONLY c \in Nat, <1>5, SeqDef, LenProperties
<1> QED
  BY <1>1, <1>2, <1>5, <1>6, Zenon

LEMMA RestLemma == IInv => RestIsStream
<1> SUFFICES ASSUME IInv PROVE RestIsStream
  OBVIOUS
<1>1. PICK c \in Nat, r \in Nat : c = CalSize /\ r = Len(socket) /\ StreamLen = c + r
  BY Numbers DEF StreamLen, IInv
<1>2. PICK w, s : w = Window /\ s = socket
  OBVIOUS
<1>3. /\ w \in Seq(Byte) /\ Len(w) = c /\ s \in Seq(Byte) /\ Len(s) = r
      /\ \A i \in 1 .. c : w[i] = StreamAt(i)
  BY <1>1, <1>2, WindowTyped DEF IInv, TypeOK
<1>4. /\ w \o s \in Seq(Byte) /\ Len(w \o s) = c + r
      /\ \A i \in 1 .. c + r : (w \o s)[i] = IF i <= c THEN w[i] ELSE s[i - c]
  BY ONLY <1>3, ConcatProperties
<1>5. ASSUME NEW i \in 1 .. c + r
      PROVE  (w \o s)[i] = StreamAt(i)
  <2>1. CASE i <= c
    <3>1. i \in 1 .. c
      BY <2>1
    <3> QED
      BY <2>1, <3>1, <1>3, <1>4
  <2>2. CASE ~(i <= c)
    BY <2>2, <1>1, <1>2, <1>4 DEF StreamAt
  <2> QED
    BY <2>1, <2>2
<1>6. Rest = w \o s
  BY <1>2 DEF Rest
<1> QED
  BY <1>1, <1>4, <1>5, <1>6, Zenon DEF RestIsStream

LEMMA RestLemmaNext == IInv' => RestIsStream'
  BY RestLemma, PTL

Intact == Rest = FlattenSeq(PacketsAfter(sent, Len(processed)))

LEMMA InitIntact == Init => Intact
<1> SUFFICES ASSUME Init PROVE Intact
  OBVIOUS
<1>1. IInv /\ sent = <<>> /\ processed = <<>> /\ StreamLen = 0
  <2>1. StreamLen = 0
    BY EmptySeq DEF Init, StreamLen, CalSize
  <2> QED
    BY <2>1, InitIInv DEF Init
<1>2. PICK rest : rest = Rest
  OBVIOUS
<1>3. rest \in Seq(Byte) /\ Len(rest) = 0
  BY <1>1, <1>2, RestLemma DEF RestIsStream
<1>4. rest = <<>>
  BY ONLY <1>3, EmptySeq
<1>5. Len(sent) = 0 /\ Len(processed) = 0 /\ Len(sent) = 0 + 0 /\ 0 \in Nat
  BY <1>1, EmptySeq
<1>6. PacketsAfter(sent, 0) = <<>>
  BY <1>5, PacketsNone, Zenon
<1> QED
  <2>1. FlattenSeq(<<>>) = <<>>
    BY FlattenNothing
  <2>2. Len(processed) = 0
    BY <1>5
  <2> QED
    BY <1>2, <1>4, <1>6, <2>1, <2>2, Zenon DEF Intact

\* The stream as a sequence is the same after a step that keeps its bytes.
LEMMA SameIntact ==
  ASSUME IInv, IInv', Intact, sent' = sent, processed' = processed,
         StreamLen' = StreamLen, \A i \in 1 .. StreamLen : StreamAt(i)' = StreamAt(i)
  PROVE  Intact'
<1>1. PICK rest, new, l : rest = Rest /\ new = Rest' /\ l = StreamLen
  BY Zenon
<1>2. rest \in Seq(Byte) /\ Len(rest) = l /\ \A i \in 1 .. l : rest[i] = StreamAt(i)
  BY <1>1, RestLemma DEF RestIsStream
<1>3. new \in Seq(Byte) /\ Len(new) = l /\ \A i \in 1 .. l : new[i] = StreamAt(i)'
  BY <1>1, RestLemmaNext DEF RestIsStream
<1>4. \A i \in 1 .. l : new[i] = rest[i]
  BY <1>1, <1>2, <1>3, Zenon
<1>5. new = rest
  BY ONLY <1>2, <1>3, <1>4, SeqEqual
<1> QED
  BY <1>1, <1>5, Zenon DEF Intact

\* A packet that is sent comes last.
LEMMA SendsIntact ==
  ASSUME IInv, IInv', Intact, NEW s \in Sizes, ClientSends(s)
  PROVE  Intact'
<1>1. PICK n, p, w, r, new :
        /\ n = Len(sent) /\ p = Len(processed) /\ w = Window /\ r = socket
        /\ new = Packet(n + 1, s)
  BY Zenon
<1>2. n \in Nat /\ p \in Nat /\ p <= n /\ sent \in Seq(Sizes)
  BY <1>1, Numbers DEF IInv, Framed, TypeOK
<1>3. sent' = Append(sent, s) /\ socket' = r \o new /\ processed' = processed
  BY <1>1 DEF ClientSends
<1>4. Window' = w
  BY <1>1 DEF ClientSends, Window, CalSize
<1>5. Cat(Cat(w, r), new) = Cat(w, Cat(r, new))
  <2>1. w \in ArrayOf(Byte) /\ r \in ArrayOf(Byte)
    BY <1>1, WindowTyped DEF IInv, TypeOK, ArrayOf
  <2>2. new \in ArrayOf(Byte)
    <3>1. n + 1 \in Nat \ {0}
      BY <1>2
    <3> QED
      BY <1>1, <3>1, PacketTyped DEF ArrayOf
  <2> QED
    BY ONLY <2>1, <2>2, CatAssociative
<1>6. Rest' = Cat(Rest, new)
  BY <1>1, <1>3, <1>4, <1>5, Zenon DEF Rest, Cat
<1>7. FlattenSeq(PacketsAfter(Append(sent, s), p))
        = FlattenSeq(PacketsAfter(sent, p)) \o Packet(Len(sent) + 1, s)
  BY <1>1, <1>2, PacketSent, Zenon
<1> QED
  BY <1>1, <1>3, <1>6, <1>7, Zenon DEF Intact, Cat

\* The packet that is processed came first.
LEMMA ProcessIntact ==
  ASSUME IInv, IInv', Intact, ProcessPacket
  PROVE  Intact'
<1>1. PICK n, p, l, z, rest, new, packet, unprocessed :
        /\ n = Len(sent) /\ p = Len(processed) /\ l = StreamLen /\ z = sent[p + 1]
        /\ rest = Rest /\ new = Rest' /\ packet = Packet(p + 1, z)
        /\ unprocessed = FlattenSeq(PacketsAfter(sent, p + 1))
  BY Zenon
<1>2. n \in Nat /\ p \in Nat /\ l \in Nat /\ sent \in Seq(Sizes)
  BY <1>1, Numbers DEF IInv, TypeOK
<1>3. p + 1 \in 1 .. n /\ z \in Sizes /\ z \in Nat
  <2>1. CalSize >= HEADER
    BY DEF ProcessPacket, PacketComplete
  <2>2. Len(processed) + 1 \in 1 .. Len(sent)
    BY <2>1, HeaderIsFirst DEF IInv
  <2>3. p + 1 \in 1 .. n /\ p + 1 \in 1 .. Len(sent)
    BY <1>1, <2>2, Zenon
  <2>4. z \in Sizes
    BY <1>1, <1>2, <2>3, ElementOfSeq
  <2> QED
    BY <2>3, <2>4, Constants
<1>4. /\ sent' = sent /\ processed' = Append(processed, p + 1)
      /\ StreamLen' = l - z
      /\ \A i \in 1 .. l - z : StreamAt(i)' = StreamAt(i + z)
  <2>1. sent' = sent
    BY DEF ProcessPacket
  <2> QED
    BY <1>1, <2>1, ProcessIInv, Zenon
<1>5. Len(processed') = p + 1
  <2>1. p + 1 \in Nat \ {0} /\ processed \in Seq(Nat \ {0})
    BY <1>2 DEF IInv, TypeOK
  <2> QED
    BY <1>1, <1>4, <2>1, AppendProperties
<1>6. rest \in Seq(Byte) /\ Len(rest) = l /\ \A i \in 1 .. l : rest[i] = StreamAt(i)
  BY <1>1, RestLemma DEF RestIsStream
<1>7. /\ new \in Seq(Byte) /\ Len(new) = l - z
      /\ \A i \in 1 .. l - z : new[i] = StreamAt(i)'
  BY <1>1, <1>4, RestLemmaNext DEF RestIsStream
<1>8. packet \in Seq(Byte) /\ Len(packet) = z
  <2>1. p + 1 \in Nat \ {0}
    BY <1>2
  <2> QED
    BY <1>1, <1>3, <2>1, PacketTyped, Zenon
<1>9. unprocessed \in Seq(Byte)
  <2>1. p + 1 \in Nat /\ p + 1 <= Len(sent)
    BY <1>1, <1>2, <1>3
  <2> QED
    BY <1>1, <1>2, <2>1, UnprocessedTyped, Zenon DEF ArrayOf
<1>10. rest = packet \o unprocessed
  <2>1. p < Len(sent)
    BY <1>1, <1>2, <1>3
  <2>2. FlattenSeq(PacketsAfter(sent, p))
          = Packet(p + 1, sent[p + 1]) \o FlattenSeq(PacketsAfter(sent, p + 1))
    BY <1>2, <2>1, PacketFirst, Zenon
  <2> QED
    BY <1>1, <2>2, Zenon DEF Intact
<1>11. PICK u \in Nat : u = Len(unprocessed)
  BY <1>9, LenProperties
<1>12. /\ Len(packet \o unprocessed) = z + u
       /\ \A i \in 1 .. z + u :
            (packet \o unprocessed)[i] = IF i <= z THEN packet[i] ELSE unprocessed[i - z]
  BY ONLY <1>8, <1>9, <1>11, ConcatProperties
<1>13. l = z + u /\ l - z = u
  BY ONLY <1>2, <1>3, <1>6, <1>10, <1>12, u \in Nat
<1>14. ASSUME NEW i \in 1 .. u
       PROVE  new[i] = unprocessed[i]
  <2>1. /\ i + z \in 1 .. z + u /\ ~(i + z <= z) /\ (i + z) - z = i
        /\ i + z \in 1 .. l /\ i \in 1 .. l - z
    BY ONLY <1>2, <1>3, <1>13, u \in Nat, i \in 1 .. u
  <2>2. (packet \o unprocessed)[i + z] = unprocessed[i]
    BY <1>12, <2>1
  <2>3. rest[i + z] = unprocessed[i]
    BY <1>10, <2>2, Zenon
  <2>4. rest[i + z] = StreamAt(i + z) /\ new[i] = StreamAt(i)' /\ StreamAt(i)' = StreamAt(i + z)
    BY <1>4, <1>6, <1>7, <2>1, Zenon
  <2> QED
    BY <2>3, <2>4, Zenon
<1>15. new = unprocessed
  BY ONLY <1>7, <1>9, <1>11, <1>13, <1>14, SeqEqual
<1> QED
  BY <1>1, <1>4, <1>5, <1>15, Zenon DEF Intact

\* Whatever the pieces the stream came in, what is between the positions
\* followed by what is in the socket is the packets that were sent and not
\* processed, one after the other.
THEOREM StreamIntactTheorem == Spec => []StreamIntact
<1>1. IInv /\ Intact /\ [Next]_vars => Intact'
  <2> SUFFICES ASSUME IInv, Intact, [Next]_vars PROVE Intact'
    OBVIOUS
  <2>1. IInv'
    BY NextIInv
  <2>2. CASE \E s \in Sizes : ClientSends(s)
    BY <2>1, <2>2, SendsIntact
  <2>3. CASE Receive
    <3>1. PICK k \in 1 .. CalFreeSpace : k <= Len(socket) /\ MoveWritePos(k)
      BY <2>3 DEF Receive
    <3>2. sent' = sent /\ processed' = processed
      BY <3>1 DEF MoveWritePos
    <3> QED
      BY <3>1, <3>2, ReceiveIInv, SameIntact
  <2>4. CASE ProcessPacket
    BY <2>1, <2>4, ProcessIntact
  <2>5. CASE RequestRecv \/ RequestRecvFails
    <3>1. /\ ShiftAndReset /\ pc = "parsed"
          /\ pc' \in {"posted", "stopped", "aborted"}
          /\ pc' = "aborted" => CalSize = BUF_SIZE
      BY <2>5 DEF RequestRecv, RequestRecvFails, StopsAtAssert, RoomLeft
    <3>2. sent' = sent /\ processed' = processed
      BY <3>1 DEF ShiftAndReset
    <3> QED
      BY <3>1, <3>2, ShiftIInv, SameIntact
  <2>6. CASE \/ OtherThreadDisconnects \/ ReceiveFails \/ IgnoreReceived
             \/ PacketIncomplete \/ SizeAssertFails \/ UNCHANGED vars
    <3>1. UNCHANGED <<m_pBuf, m_readPos, m_writePos, sent, socket, processed>>
      BY <2>6 DEF OtherThreadDisconnects, ReceiveFails, IgnoreReceived, PacketIncomplete,
                  SizeAssertFails, vars
    <3> QED
      BY <3>1 DEF Intact, Rest, Window, CalSize
  <2> QED
    BY <2>2, <2>3, <2>4, <2>5, <2>6 DEF Next, Handle
<1>2. Intact => StreamIntact
  BY DEF Intact, StreamIntact, Rest, Unprocessed, PacketsAfter
<1> QED
  BY <1>1, <1>2, InitIntact, Inductive, PTL DEF Spec
=============================================================================
