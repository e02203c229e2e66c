-------------------------------- MODULE Buffer --------------------------------
(***************************************************************************)
(* Buffer (Buffer.h, Buffer.cpp): a vector of bytes and two indices, the   *)
(* unread bytes between them.  Used by the loop's thread of a connection   *)
(* alone; what can go wrong is the arithmetic of the indices when space is *)
(* made, and the one read that spreads over the vector and a second block  *)
(* on the stack.                                                           *)
(*                                                                         *)
(* m_buffer is a sequence, so the byte at index i of the code is           *)
(* m_buffer[i + 1].                                                        *)
(***************************************************************************)
EXTENDS Naturals, Sequences

CONSTANTS
  Byte,            \* the bytes
  Zero,            \* the byte resize() fills with
  kCheapPrepend,
  kInitialSize,
  kExtraBufSize,   \* size of readFd's block on the stack
  MaxLen,          \* bound on the length of what is appended or received
  MaxReadable      \* bound on readableBytes()

ASSUME BufferAssumption ==
  /\ Zero \in Byte
  /\ kCheapPrepend \in Nat /\ kInitialSize \in Nat
  /\ kExtraBufSize \in Nat /\ MaxLen \in Nat /\ MaxReadable \in Nat

VARIABLES
  m_buffer, m_readerIndex, m_writerIndex,
  moved   \* history: the bytes the last operation took in or gave out

vars == <<m_buffer, m_readerIndex, m_writerIndex, moved>>

\* What may be appended or arrive on the socket.
Data == UNION {[1..n -> Byte] : n \in 0..MaxLen}

Init ==
  /\ m_buffer = [i \in 1..(kCheapPrepend + kInitialSize) |-> Zero]
  /\ m_readerIndex = kCheapPrepend
  /\ m_writerIndex = kCheapPrepend
  /\ moved = <<>>

readableBytes == m_writerIndex - m_readerIndex
writableBytes == Len(m_buffer) - m_writerIndex
prependableBytes == m_readerIndex

\* std::copy of data to index at; what lies beyond the vector is not stored.
copyTo(buffer, at, data) ==
  [i \in 1..Len(buffer) |->
     IF i \in (at + 1)..(at + Len(data)) THEN data[i - at] ELSE buffer[i]]

\* resize(size) to a larger vector.
resize(buffer, size) ==
  [i \in 1..size |-> IF i <= Len(buffer) THEN buffer[i] ELSE Zero]

Unread == SubSeq(m_buffer, m_readerIndex + 1, m_writerIndex)

------------------------------------------------------------------------------
(***************************************************************************)
(* append and the space for it, as functions of [buf, r, w], the vector    *)
(* and the two indices: readFd appends after it has moved m_writerIndex.   *)
(***************************************************************************)

State(buf, r, w) == [buf |-> buf, r |-> r, w |-> w]

\* Seeded fault: the prepended bytes are counted as free.
tooSmall_noPrepend(s, len) == Len(s.buf) - s.w + s.r < len

\* Is the free space before and behind the unread bytes not enough?
tooSmall(s, len) == Len(s.buf) - s.w + s.r < len + kCheapPrepend

\* makeSpace: the vector grows behind m_writerIndex,
grown(s, len) == State(resize(s.buf, s.w + len), s.r, s.w)

\* or the unread bytes move to the front.
compacted(s) ==
  State(copyTo(s.buf, kCheapPrepend, SubSeq(s.buf, s.r + 1, s.w)),
        kCheapPrepend, kCheapPrepend + (s.w - s.r))

\* Seeded fault: the vector grows whenever there is no room behind.
ensureWriteableBytes_grows(s, len) ==
  IF Len(s.buf) - s.w >= len THEN s ELSE grown(s, len)

ensureWriteableBytes(s, len) ==
  IF Len(s.buf) - s.w >= len THEN s
  ELSE IF tooSmall(s, len) THEN grown(s, len) ELSE compacted(s)

appendTo(s, data) ==
  LET e == ensureWriteableBytes(s, Len(data)) IN
    State(copyTo(e.buf, e.w, data), e.r, e.w + Len(data))

Become(s) ==
  /\ m_buffer' = s.buf
  /\ m_readerIndex' = s.r
  /\ m_writerIndex' = s.w

Now == State(m_buffer, m_readerIndex, m_writerIndex)

------------------------------------------------------------------------------
(***************************************************************************)
(* The operations.                                                         *)
(***************************************************************************)

append(data) == Become(appendTo(Now, data)) /\ moved' = data

\* Seeded fault: m_writerIndex is not moved to the end before the rest is appended.
readFd_keepsWriter(data) ==
  LET writable == writableBytes
      first == copyTo(m_buffer, m_writerIndex, data)
  IN
    /\ Len(data) <= writable + (IF writable < kExtraBufSize THEN kExtraBufSize ELSE 0)
    /\ IF Len(data) <= writable
       THEN Become(State(first, m_readerIndex, m_writerIndex + Len(data)))
       ELSE Become(appendTo(State(first, m_readerIndex, m_writerIndex),
                            SubSeq(data, writable + 1, Len(data))))
    /\ moved' = data

\* readFd: readv fills the space behind m_writerIndex and, if that is smaller
\* than the block on the stack, the block; what is there is appended.
readFd(data) ==
  LET writable == writableBytes
      first == copyTo(m_buffer, m_writerIndex, data)
  IN
    /\ Len(data) <= writable + (IF writable < kExtraBufSize THEN kExtraBufSize ELSE 0)
    /\ IF Len(data) <= writable
       THEN Become(State(first, m_readerIndex, m_writerIndex + Len(data)))
       ELSE Become(appendTo(State(first, m_readerIndex, Len(m_buffer)),
                            SubSeq(data, writable + 1, Len(data))))
    /\ moved' = data

\* retrieve(len), and retrieveAll for len at or above readableBytes().
retrieve(len) ==
  IF len < readableBytes
  THEN m_readerIndex' = m_readerIndex + len /\ UNCHANGED m_writerIndex
  ELSE m_readerIndex' = kCheapPrepend /\ m_writerIndex' = kCheapPrepend

\* writeFd and retrieve(n): the kernel takes n of the unread bytes.
writeFd(n) ==
  /\ n <= readableBytes
  /\ moved' = SubSeq(m_buffer, m_readerIndex + 1, m_readerIndex + n)
  /\ retrieve(n)
  /\ UNCHANGED m_buffer

\* retrieveAsString(len) copies len bytes from the vector, then retrieves.  (Asked
\* for more than is there, it would return stale bytes, or bytes from beyond the
\* vector.)
retrieveAsString(len) ==
  /\ len <= readableBytes
  /\ moved' = SubSeq(m_buffer, m_readerIndex + 1, m_readerIndex + len)
  /\ retrieve(len)
  /\ UNCHANGED m_buffer

Fits(data) == readableBytes + Len(data) <= MaxReadable

Next ==
  \/ \E data \in Data : Fits(data) /\ (append(data) \/ readFd(data))
  \/ \E n \in 0..MaxReadable : writeFd(n)
  \/ \E len \in 0..MaxReadable : retrieveAsString(len)

Spec == Init /\ [][Next]_vars

------------------------------------------------------------------------------
(***************************************************************************)
(* Properties.                                                             *)
(***************************************************************************)

\* The types, and the order of the indices: prepend <= reader <= writer <= size.
TypeOK ==
  /\ m_buffer \in Seq(Byte)
  /\ m_readerIndex \in Nat /\ m_writerIndex \in Nat
  /\ kCheapPrepend <= m_readerIndex
  /\ m_readerIndex <= m_writerIndex
  /\ m_writerIndex <= Len(m_buffer)
  /\ moved \in Seq(Byte)

Stream == INSTANCE ByteQueue WITH content <- Unread

\* Whatever moves and grows, the buffer is a queue of bytes (Buffer.h:63-134,
\* 170-185, Buffer.cpp:8-57): what an operation takes in is put behind what is
\* there, and what it gives out is taken from the front.
IsByteQueue == Stream!Spec

\* The vector grows only if the unread bytes do not fit in it any more
\* (makeSpace, Buffer.h:172), so its size follows the largest backlog.
GrowsOnlyWhenFull ==
  [][Len(m_buffer') > Len(m_buffer) =>
       kCheapPrepend + readableBytes' > Len(m_buffer)]_vars

==============================================================================
