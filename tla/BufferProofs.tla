----------------------------- MODULE BufferProofs -----------------------------
(***************************************************************************)
(* Theorems about Buffer, for any size of the vector, of the prepended     *)
(* space and of readFd's block on the stack: its indices stay in order and *)
(* it is a queue of bytes.                                                 *)
(***************************************************************************)
EXTENDS Buffer, SequenceTheorems, TLAPS

------------------------------------------------------------------------------
(***************************************************************************)
(* Vectors: a slice, std::copy and resize, by their elements.              *)
(***************************************************************************)

\* The bytes of a vector between two indices, as SubSeq gives them.
LEMMA SliceProperties ==
  ASSUME NEW buf \in Seq(Byte), NEW lo \in Nat, NEW hi \in Nat,
         lo <= hi, hi <= Len(buf)
  PROVE  /\ SubSeq(buf, lo + 1, hi) \in Seq(Byte)
         /\ Len(SubSeq(buf, lo + 1, hi)) = hi - lo
         /\ \A i \in 1..(hi - lo) : SubSeq(buf, lo + 1, hi)[i] = buf[lo + i]
<1>1. \A i \in (lo + 1)..hi : buf[i] \in Byte
  BY ElementOfSeq, LenProperties
<1>. QED
  BY <1>1, SubSeqProperties

\* std::copy keeps the length and changes the copied range alone (Buffer.h:132, 179-181).
LEMMA CopyProperties ==
  ASSUME NEW buf \in Seq(Byte), NEW at \in Nat, NEW data \in Seq(Byte)
  PROVE  /\ copyTo(buf, at, data) \in Seq(Byte)
         /\ Len(copyTo(buf, at, data)) = Len(buf)
         /\ \A i \in 1..Len(buf) :
              copyTo(buf, at, data)[i] =
                IF at < i /\ i <= at + Len(data) THEN data[i - at] ELSE buf[i]
<1>1. Len(buf) \in Nat /\ Len(data) \in Nat
  BY LenProperties
<1>2. \A i \in 1..Len(buf) : buf[i] \in Byte
  BY ElementOfSeq
<1>3. \A i \in 1..Len(data) : data[i] \in Byte
  BY ElementOfSeq
<1>4. \A i \in 1..Len(buf) :
        i \in (at + 1)..(at + Len(data)) <=> at < i /\ i <= at + Len(data)
  BY <1>1
<1>5. \A i \in 1..Len(buf) :
        at < i /\ i <= at + Len(data) => i - at \in 1..Len(data)
  BY <1>1
<1>6. copyTo(buf, at, data) \in [1..Len(buf) -> Byte]
  BY <1>2, <1>3, <1>4, <1>5 DEF copyTo
<1>. QED
  BY <1>1, <1>4, <1>6 DEF copyTo

\* resize to a larger size keeps what is there (Buffer.h:174).
LEMMA ResizeProperties ==
  ASSUME NEW buf \in Seq(Byte), NEW size \in Nat
  PROVE  /\ resize(buf, size) \in Seq(Byte)
         /\ Len(resize(buf, size)) = size
         /\ \A i \in 1..size : i <= Len(buf) => resize(buf, size)[i] = buf[i]
<1>1. Len(buf) \in Nat
  BY LenProperties
<1>2. \A i \in 1..Len(buf) : buf[i] \in Byte
  BY ElementOfSeq
<1>3. resize(buf, size) \in [1..size -> Byte]
  BY <1>1, <1>2, BufferAssumption DEF resize
<1>. QED
  BY <1>3 DEF resize

------------------------------------------------------------------------------
(***************************************************************************)
(* Room and append, on states [buf, r, w] with their indices in order.     *)
(***************************************************************************)

InOrder(s) ==
  /\ s.buf \in Seq(Byte)
  /\ s.r \in Nat /\ s.w \in Nat
  /\ kCheapPrepend <= s.r /\ s.r <= s.w /\ s.w <= Len(s.buf)

Slice(s) == SubSeq(s.buf, s.r + 1, s.w)

\* The unread bytes of a state, by their elements.
LEMMA SliceIs ==
  ASSUME NEW s, InOrder(s)
  PROVE  /\ Slice(s) \in Seq(Byte)
         /\ Len(Slice(s)) = s.w - s.r
         /\ \A i \in 1..(s.w - s.r) : Slice(s)[i] = s.buf[s.r + i]
  BY SliceProperties DEF InOrder, Slice

\* Growing the vector keeps the unread bytes and makes room (Buffer.h:172-175).
LEMMA GrownKeeps ==
  ASSUME NEW s, InOrder(s), NEW len \in Nat, Len(s.buf) - s.w < len
  PROVE  /\ InOrder(grown(s, len))
         /\ Slice(grown(s, len)) = Slice(s)
         /\ Len(grown(s, len).buf) - grown(s, len).w >= len
<1>. DEFINE g == grown(s, len)
<1>1. Len(s.buf) \in Nat
  BY LenProperties DEF InOrder
<1>2. /\ g.buf = resize(s.buf, s.w + len)
      /\ g.r = s.r /\ g.w = s.w
  BY DEF grown, State
<1>. HIDE DEF g
<1>3. /\ g.buf \in Seq(Byte)
      /\ Len(g.buf) = s.w + len
      /\ \A i \in 1..(s.w + len) : i <= Len(s.buf) => g.buf[i] = s.buf[i]
  <2>. DEFINE size == s.w + len
              resized == resize(s.buf, size)
  <2>1. s.buf \in Seq(Byte) /\ size \in Nat
    BY DEF InOrder
  <2>. HIDE DEF size
  <2>2. /\ resized \in Seq(Byte) /\ Len(resized) = size
        /\ \A i \in 1..size : i <= Len(s.buf) => resized[i] = s.buf[i]
    BY <2>1, ResizeProperties
  <2>. HIDE DEF resized
  <2>3. g.buf = resized
    BY <1>2 DEF size, resized
  <2>. QED
    BY <2>2, <2>3 DEF size
<1>4. InOrder(g) /\ Len(g.buf) - g.w >= len
  BY <1>1, <1>2, <1>3 DEF InOrder
<1>5. /\ Slice(s) \in Seq(Byte) /\ Len(Slice(s)) = s.w - s.r
      /\ \A i \in 1..(s.w - s.r) : Slice(s)[i] = s.buf[s.r + i]
  BY SliceIs
<1>6. /\ Slice(g) \in Seq(Byte) /\ Len(Slice(g)) = s.w - s.r
      /\ \A i \in 1..(s.w - s.r) : Slice(g)[i] = g.buf[s.r + i]
  BY <1>2, <1>4, SliceIs
<1>7. \A i \in 1..(s.w - s.r) : g.buf[s.r + i] = s.buf[s.r + i]
  <2>. TAKE i \in 1..(s.w - s.r)
  <2>1. s.r + i \in 1..(s.w + len) /\ s.r + i <= Len(s.buf)
    BY <1>1, SMTT(30) DEF InOrder
  <2>. QED
    BY <1>3, <2>1
<1>8. Slice(g) = Slice(s)
  BY <1>5, <1>6, <1>7, SeqEqual
<1>. QED
  BY <1>4, <1>8 DEF g

\* Moving the unread bytes to the front keeps them, and makes the room that the
\* test before it promised (Buffer.h:176-184).
LEMMA CompactedKeeps ==
  ASSUME NEW s, InOrder(s), NEW len \in Nat, ~tooSmall(s, len)
  PROVE  /\ InOrder(compacted(s))
         /\ Slice(compacted(s)) = Slice(s)
         /\ Len(compacted(s).buf) - compacted(s).w >= len
<1>. DEFINE c == compacted(s)
<1>1. Len(s.buf) \in Nat /\ kCheapPrepend \in Nat
  BY LenProperties, BufferAssumption DEF InOrder
<1>2. /\ Slice(s) \in Seq(Byte) /\ Len(Slice(s)) = s.w - s.r
      /\ \A i \in 1..(s.w - s.r) : Slice(s)[i] = s.buf[s.r + i]
  BY SliceIs
<1>3. /\ c.buf = copyTo(s.buf, kCheapPrepend, Slice(s))
      /\ c.r = kCheapPrepend /\ c.w = kCheapPrepend + (s.w - s.r)
  BY DEF compacted, State, Slice
<1>. HIDE DEF c
<1>4. /\ c.buf \in Seq(Byte)
      /\ Len(c.buf) = Len(s.buf)
      /\ \A i \in 1..Len(s.buf) :
           c.buf[i] = IF kCheapPrepend < i /\ i <= kCheapPrepend + Len(Slice(s))
                      THEN Slice(s)[i - kCheapPrepend] ELSE s.buf[i]
  <2>. DEFINE moving == Slice(s)
              copied == copyTo(s.buf, kCheapPrepend, moving)
  <2>1. s.buf \in Seq(Byte) /\ kCheapPrepend \in Nat /\ moving \in Seq(Byte)
    BY <1>1, <1>2 DEF InOrder
  <2>. HIDE DEF moving
  <2>2. /\ copied \in Seq(Byte)
        /\ Len(copied) = Len(s.buf)
        /\ \A i \in 1..Len(s.buf) :
             copied[i] = IF kCheapPrepend < i /\ i <= kCheapPrepend + Len(moving)
                           THEN moving[i - kCheapPrepend] ELSE s.buf[i]
    BY <2>1, CopyProperties
  <2>. HIDE DEF copied
  <2>3. c.buf = copied
    BY <1>3 DEF moving, copied
  <2>. QED
    BY <2>2, <2>3 DEF moving
<1>5. InOrder(c)
  BY <1>1, <1>3, <1>4 DEF InOrder
<1>6. Len(c.buf) - c.w >= len
  BY <1>1, <1>3, <1>4 DEF InOrder, tooSmall
<1>7. /\ Slice(c) \in Seq(Byte) /\ Len(Slice(c)) = s.w - s.r
      /\ \A i \in 1..(s.w - s.r) : Slice(c)[i] = c.buf[kCheapPrepend + i]
  <2>1. c.w - c.r = s.w - s.r
    BY <1>1, <1>3 DEF InOrder
  <2>. QED
    BY <1>3, <1>5, <2>1, SliceIs
<1>8. \A i \in 1..(s.w - s.r) : c.buf[kCheapPrepend + i] = Slice(s)[i]
  <2>. TAKE i \in 1..(s.w - s.r)
  <2>1. /\ kCheapPrepend + i \in 1..Len(s.buf)
        /\ kCheapPrepend < kCheapPrepend + i
        /\ kCheapPrepend + i <= kCheapPrepend + Len(Slice(s))
        /\ (kCheapPrepend + i) - kCheapPrepend = i
    BY <1>1, <1>2, SMTT(30) DEF InOrder
  <2>. QED
    BY <1>4, <2>1
<1>9. Slice(c) = Slice(s)
  BY <1>2, <1>7, <1>8, SeqEqual
<1>. QED
  BY <1>5, <1>6, <1>9 DEF c

\* ensureWriteableBytes keeps the unread bytes and makes room.
LEMMA EnsureMakesRoom ==
  ASSUME NEW s, InOrder(s), NEW len \in Nat
  PROVE  /\ InOrder(ensureWriteableBytes(s, len))
         /\ Slice(ensureWriteableBytes(s, len)) = Slice(s)
         /\ Len(ensureWriteableBytes(s, len).buf)
              - ensureWriteableBytes(s, len).w >= len
<1>1. Len(s.buf) \in Nat /\ s.w \in Nat
  BY LenProperties DEF InOrder
<1>2. CASE Len(s.buf) - s.w >= len
  BY <1>2 DEF ensureWriteableBytes
<1>3. CASE Len(s.buf) - s.w < len /\ tooSmall(s, len)
  <2>1. ensureWriteableBytes(s, len) = grown(s, len)
    BY <1>1, <1>3 DEF ensureWriteableBytes
  <2>. QED
    BY <1>3, <2>1, GrownKeeps
<1>4. CASE Len(s.buf) - s.w < len /\ ~tooSmall(s, len)
  <2>1. ensureWriteableBytes(s, len) = compacted(s)
    BY <1>1, <1>4 DEF ensureWriteableBytes
  <2>. QED
    BY <1>4, <2>1, CompactedKeeps
<1>. QED
  BY <1>1, <1>2, <1>3, <1>4

\* Copying data behind the unread bytes, where there is room for n of them, puts
\* those n behind them.
LEMMA CopyBehindAdds ==
  ASSUME NEW s, InOrder(s), NEW data \in Seq(Byte), NEW n \in 0..Len(data),
         s.w + n <= Len(s.buf)
  PROVE  /\ InOrder(State(copyTo(s.buf, s.w, data), s.r, s.w + n))
         /\ Slice(State(copyTo(s.buf, s.w, data), s.r, s.w + n))
              = Slice(s) \o SubSeq(data, 1, n)
<1>. DEFINE a == State(copyTo(s.buf, s.w, data), s.r, s.w + n)
            front == SubSeq(data, 1, n)
<1>1. Len(s.buf) \in Nat /\ Len(data) \in Nat /\ n \in Nat /\ kCheapPrepend \in Nat
  BY LenProperties, BufferAssumption DEF InOrder
<1>2. /\ a.buf = copyTo(s.buf, s.w, data)
      /\ a.r = s.r /\ a.w = s.w + n
  BY DEF State
<1>. HIDE DEF a
<1>3. /\ a.buf \in Seq(Byte)
      /\ Len(a.buf) = Len(s.buf)
      /\ \A i \in 1..Len(s.buf) :
           a.buf[i] = IF s.w < i /\ i <= s.w + Len(data)
                      THEN data[i - s.w] ELSE s.buf[i]
  <2>1. s.buf \in Seq(Byte) /\ s.w \in Nat
    BY DEF InOrder
  <2>. QED
    BY <1>2, <2>1, CopyProperties
<1>4. InOrder(a)
  BY <1>1, <1>2, <1>3 DEF InOrder
<1>5. /\ Slice(s) \in Seq(Byte) /\ Len(Slice(s)) = s.w - s.r
      /\ \A i \in 1..(s.w - s.r) : Slice(s)[i] = s.buf[s.r + i]
  BY SliceIs
<1>6. /\ front \in Seq(Byte) /\ Len(front) = n
      /\ \A i \in 1..n : front[i] = data[i]
  <2>1. /\ SubSeq(data, 0 + 1, n) \in Seq(Byte)
        /\ Len(SubSeq(data, 0 + 1, n)) = n - 0
        /\ \A i \in 1..(n - 0) : SubSeq(data, 0 + 1, n)[i] = data[0 + i]
    BY <1>1, SliceProperties
  <2>. QED
    BY <1>1, <2>1
<1>. HIDE DEF front
<1>7. /\ Slice(a) \in Seq(Byte) /\ Len(Slice(a)) = (s.w + n) - s.r
      /\ \A i \in 1..((s.w + n) - s.r) : Slice(a)[i] = a.buf[s.r + i]
  BY <1>2, <1>4, SliceIs
<1>8. /\ Slice(s) \o front \in Seq(Byte)
      /\ Len(Slice(s) \o front) = (s.w - s.r) + n
      /\ \A i \in 1..((s.w - s.r) + n) :
           (Slice(s) \o front)[i] =
             IF i <= s.w - s.r THEN Slice(s)[i] ELSE front[i - (s.w - s.r)]
  <2>1. /\ Slice(s) \o front \in Seq(Byte)
        /\ Len(Slice(s) \o front) = Len(Slice(s)) + Len(front)
        /\ \A i \in 1..(Len(Slice(s)) + Len(front)) :
             (Slice(s) \o front)[i] =
               IF i <= Len(Slice(s)) THEN Slice(s)[i] ELSE front[i - Len(Slice(s))]
    <3>. DEFINE old == Slice(s)
    <3>1. old \in Seq(Byte) /\ front \in Seq(Byte)
      BY <1>5, <1>6
    <3>. HIDE DEF old
    <3>2. /\ old \o front \in Seq(Byte)
          /\ Len(old \o front) = Len(old) + Len(front)
          /\ \A i \in 1..(Len(old) + Len(front)) :
               (old \o front)[i] = IF i <= Len(old) THEN old[i] ELSE front[i - Len(old)]
      BY <3>1, ConcatProperties
    <3>. QED
      BY <3>2 DEF old
  <2>. QED
    BY <1>5, <1>6, <2>1
<1>9. \A i \in 1..((s.w + n) - s.r) : Slice(a)[i] = (Slice(s) \o front)[i]
  <2>. TAKE i \in 1..((s.w + n) - s.r)
  <2>1. /\ s.r \in Nat /\ s.w \in Nat /\ s.r <= s.w
        /\ i \in Nat \ {0} /\ s.r + i <= s.w + n
    BY <1>1 DEF InOrder
  <2>2. s.r + i \in 1..Len(s.buf) /\ i \in 1..((s.w - s.r) + n)
    BY <1>1, <2>1, SMTT(30)
  <2>3. CASE i <= s.w - s.r
    <3>1. ~(s.w < s.r + i) /\ i \in 1..(s.w - s.r)
      BY <2>1, <2>3
    <3>2. Slice(a)[i] = a.buf[s.r + i]
      BY <1>7
    <3>3. a.buf[s.r + i] = s.buf[s.r + i]
      BY <1>3, <2>2, <3>1
    <3>4. (Slice(s) \o front)[i] = Slice(s)[i]
      BY <1>8, <2>2, <2>3
    <3>. QED
      BY <1>5, <3>1, <3>2, <3>3, <3>4
  <2>4. CASE ~(i <= s.w - s.r)
    <3>. DEFINE j == i - (s.w - s.r)
    <3>1. (s.r + i) - s.w = j /\ j \in 1..n
      BY <1>1, <2>1, <2>4
    <3>2. s.w < s.r + i /\ s.r + i <= s.w + Len(data)
      BY <1>1, <2>1, <2>4
    <3>3. Slice(a)[i] = data[j]
      <4>1. Slice(a)[i] = a.buf[s.r + i]
        BY <1>7
      <4>2. a.buf[s.r + i] = data[(s.r + i) - s.w]
        BY <1>3, <2>2, <3>2
      <4>. QED
        BY <3>1, <4>1, <4>2
    <3>4. (Slice(s) \o front)[i] = front[j]
      BY <1>8, <2>2, <2>4
    <3>. QED
      BY <1>6, <3>1, <3>3, <3>4
  <2>. QED
    BY <2>3, <2>4
<1>10. Len(Slice(a)) = Len(Slice(s) \o front)
  BY <1>1, <1>7, <1>8 DEF InOrder
<1>11. Slice(a) = Slice(s) \o front
  BY <1>7, <1>8, <1>9, <1>10, SeqEqual
<1>. QED
  BY <1>4, <1>11 DEF a, front

\* append puts the data behind the unread bytes (Buffer.h:129-134).
LEMMA AppendAdds ==
  ASSUME NEW s, InOrder(s), NEW data \in Seq(Byte)
  PROVE  /\ InOrder(appendTo(s, data))
         /\ Slice(appendTo(s, data)) = Slice(s) \o data
<1>. DEFINE e == ensureWriteableBytes(s, Len(data))
<1>1. Len(data) \in Nat
  BY LenProperties
<1>2. InOrder(e) /\ Slice(e) = Slice(s) /\ Len(e.buf) - e.w >= Len(data)
  BY <1>1, EnsureMakesRoom
<1>3. Len(e.buf) \in Nat /\ e.w \in Nat
  BY <1>2, LenProperties DEF InOrder
<1>4. Len(data) \in 0..Len(data) /\ e.w + Len(data) <= Len(e.buf)
  BY <1>1, <1>2, <1>3
<1>5. appendTo(s, data) = State(copyTo(e.buf, e.w, data), e.r, e.w + Len(data))
  BY DEF appendTo
<1>6. SubSeq(data, 1, Len(data)) = data
  BY SubSeqFull
<1>. HIDE DEF e
<1>. QED
  BY <1>2, <1>4, <1>5, <1>6, CopyBehindAdds

------------------------------------------------------------------------------
(***************************************************************************)
(* The operations, and the theorems.                                       *)
(***************************************************************************)

\* Every data is a sequence of bytes.
LEMMA DataAreBytes == \A data \in Data : data \in Seq(Byte)
  BY SMT DEF Data

\* The invariant is InOrder of the state at hand.
LEMMA TypeIsOrder == TypeOK <=> InOrder(Now) /\ moved \in Seq(Byte)
  BY DEF TypeOK, InOrder, Now, State

LEMMA UnreadIsSlice == Unread = Slice(Now)
  BY DEF Unread, Slice, Now, State

\* A state that Become takes over is the next one.
LEMMA BecomeIsNext ==
  ASSUME NEW s, Become(s), InOrder(s)
  PROVE  InOrder(Now)' /\ Unread' = Slice(s)
  BY DEF Become, InOrder, Now, State, Unread, Slice

\* append puts data behind the unread bytes.
LEMMA AppendIsPut ==
  ASSUME TypeOK, NEW data \in Seq(Byte), append(data)
  PROVE  TypeOK' /\ Unread' = Unread \o moved'
<1>. DEFINE s == appendTo(Now, data)
<1>1. InOrder(s) /\ Slice(s) = Slice(Now) \o data
  BY TypeIsOrder, AppendAdds
<1>2. Become(s) /\ moved' = data
  BY DEF append
<1>. HIDE DEF s
<1>3. InOrder(Now)' /\ Unread' = Slice(s)
  BY <1>1, <1>2, BecomeIsNext
<1>4. TypeOK'
  BY <1>2, <1>3 DEF TypeOK, InOrder, Now, State
<1>. QED
  BY <1>1, <1>2, <1>3, <1>4, UnreadIsSlice

\* readFd puts what readv read behind the unread bytes, whether it fits behind
\* m_writerIndex or spreads over the block on the stack (Buffer.cpp:8-41).
LEMMA ReadFdIsPut ==
  ASSUME TypeOK, NEW data \in Seq(Byte), readFd(data)
  PROVE  TypeOK' /\ Unread' = Unread \o moved'
<1>. DEFINE writable == writableBytes
            first == copyTo(m_buffer, m_writerIndex, data)
<1>1. InOrder(Now) /\ Now.buf = m_buffer /\ Now.r = m_readerIndex /\ Now.w = m_writerIndex
  BY TypeIsOrder DEF Now, State
<1>2. /\ Len(m_buffer) \in Nat /\ m_writerIndex \in Nat /\ m_writerIndex <= Len(m_buffer)
      /\ Len(data) \in Nat /\ writable \in Nat
  BY LenProperties DEF TypeOK, writableBytes
<1>3. moved' = data
  BY DEF readFd
<1>4. SUFFICES InOrder(Now)' /\ Unread' = Unread \o data
  BY <1>3 DEF TypeOK, InOrder, Now, State
<1>5. CASE Len(data) <= writable
  <2>. DEFINE s == State(first, m_readerIndex, m_writerIndex + Len(data))
  <2>1. m_writerIndex + Len(data) <= Len(m_buffer) /\ Len(data) \in 0..Len(data)
    BY <1>2, <1>5 DEF writableBytes
  <2>2. /\ InOrder(s)
        /\ Slice(s) = Slice(Now) \o SubSeq(data, 1, Len(data))
    BY <1>1, <2>1, CopyBehindAdds
  <2>3. Become(s)
    BY <1>5 DEF readFd
  <2>. HIDE DEF s
  <2>4. InOrder(Now)' /\ Unread' = Slice(s)
    BY <2>2, <2>3, BecomeIsNext
  <2>. QED
    BY <2>2, <2>4, SubSeqFull, UnreadIsSlice
<1>6. CASE Len(data) > writable
  <2>. DEFINE full == State(first, m_readerIndex, Len(m_buffer))
              rest == SubSeq(data, writable + 1, Len(data))
              s == appendTo(full, rest)
  <2>1. /\ writable \in 0..Len(data) /\ m_writerIndex + writable = Len(m_buffer)
        /\ m_writerIndex + writable <= Len(m_buffer)
    BY <1>2, <1>6 DEF writableBytes
  <2>2. /\ InOrder(full)
        /\ Slice(full) = Slice(Now) \o SubSeq(data, 1, writable)
    BY <1>1, <2>1, CopyBehindAdds
  <2>3. rest \in Seq(Byte) /\ SubSeq(data, 1, writable) \in Seq(Byte)
    <3>1. SubSeq(data, 0 + 1, writable) \in Seq(Byte)
      BY <1>2, <1>6, SliceProperties
    <3>2. rest \in Seq(Byte)
      BY <1>2, <1>6, SliceProperties
    <3>. QED
      BY <3>1, <3>2
  <2>4. SubSeq(data, 1, writable) \o rest = data
    <3>1. /\ 1 \in 1..(Len(data) + 1) /\ writable \in (1 - 1)..Len(data)
          /\ Len(data) \in writable..Len(data)
      BY <1>2, <1>6
    <3>2. SubSeq(data, 1, writable) \o rest = SubSeq(data, 1, Len(data))
      BY <3>1, ConcatAdjacentSubSeq
    <3>. QED
      BY <3>2, SubSeqFull
  <2>5. Become(s)
    BY <1>2, <1>6 DEF readFd
  <2>. HIDE DEF full, rest
  <2>6. InOrder(s) /\ Slice(s) = Slice(full) \o rest
    BY <2>2, <2>3, AppendAdds
  <2>. HIDE DEF s
  <2>7. InOrder(Now)' /\ Unread' = Slice(s)
    BY <2>5, <2>6, BecomeIsNext
  <2>8. Slice(Now) \in Seq(Byte)
    BY <1>1, SliceIs
  <2>9. (Slice(Now) \o SubSeq(data, 1, writable)) \o rest = Slice(Now) \o data
    <3>. DEFINE start == SubSeq(data, 1, writable)
    <3>1. start \in Seq(Byte) /\ rest \in Seq(Byte)
      BY <2>3
    <3>2. start \o rest = data
      BY <2>4
    <3>3. SUFFICES (Slice(Now) \o start) \o rest = Slice(Now) \o data
      OBVIOUS
    <3>. HIDE DEF start
    <3>4. (Slice(Now) \o start) \o rest = Slice(Now) \o (start \o rest)
      BY <2>8, <3>1, ConcatAssociative, SMTT(30)
    <3>. QED
      BY <3>2, <3>4
  <2>. QED
    BY <2>2, <2>6, <2>7, <2>9, UnreadIsSlice
<1>. QED
  BY <1>2, <1>5, <1>6

\* Giving out the first n bytes and retrieving as many takes them from the front;
\* the indices start over when nothing is left (Buffer.h:69-88, 104-109).
LEMMA RetrieveIsTake ==
  ASSUME TypeOK, NEW n \in Nat, n <= readableBytes,
         moved' = SubSeq(m_buffer, m_readerIndex + 1, m_readerIndex + n),
         retrieve(n), UNCHANGED m_buffer
  PROVE  TypeOK' /\ Stream!Take
<1>1. /\ m_buffer \in Seq(Byte) /\ Len(m_buffer) \in Nat
      /\ m_readerIndex \in Nat /\ m_writerIndex \in Nat /\ kCheapPrepend \in Nat
      /\ kCheapPrepend <= m_readerIndex /\ m_readerIndex <= m_writerIndex
      /\ m_writerIndex <= Len(m_buffer)
  BY LenProperties, BufferAssumption DEF TypeOK
<1>2. n <= m_writerIndex - m_readerIndex
  BY DEF readableBytes
<1>3. /\ Unread \in Seq(Byte) /\ Len(Unread) = m_writerIndex - m_readerIndex
      /\ \A i \in 1..(m_writerIndex - m_readerIndex) : Unread[i] = m_buffer[m_readerIndex + i]
  BY <1>1, SliceProperties DEF Unread
<1>4. moved' \in Seq(Byte)
  <2>1. m_readerIndex + n \in Nat /\ m_readerIndex + n <= Len(m_buffer)
    BY <1>1, <1>2
  <2>. QED
    BY <1>1, <2>1, SliceProperties
<1>5. TypeOK'
  BY <1>1, <1>2, <1>4 DEF TypeOK, retrieve, readableBytes
<1>6. moved' = SubSeq(Unread, 1, n)
  <2>1. /\ moved' \in Seq(Byte) /\ Len(moved') = n
        /\ \A i \in 1..n : moved'[i] = m_buffer[m_readerIndex + i]
    <3>1. /\ m_readerIndex + n \in Nat /\ m_readerIndex + n <= Len(m_buffer)
          /\ (m_readerIndex + n) - m_readerIndex = n
      BY <1>1, <1>2
    <3>. QED
      BY <1>1, <3>1, SliceProperties
  <2>2. /\ SubSeq(Unread, 0 + 1, n) \in Seq(Byte)
        /\ Len(SubSeq(Unread, 0 + 1, n)) = n - 0
        /\ \A i \in 1..(n - 0) : SubSeq(Unread, 0 + 1, n)[i] = Unread[0 + i]
    BY <1>1, <1>2, <1>3, SliceProperties
  <2>3. \A i \in 1..n : Unread[0 + i] = m_buffer[m_readerIndex + i]
    BY <1>1, <1>2, <1>3
  <2>. QED
    BY <2>1, <2>2, <2>3, SeqEqual
<1>7. Unread' = SubSeq(Unread, n + 1, Len(Unread))
  <2>1. /\ SubSeq(Unread, n + 1, Len(Unread)) \in Seq(Byte)
        /\ Len(SubSeq(Unread, n + 1, Len(Unread))) = Len(Unread) - n
        /\ \A i \in 1..(Len(Unread) - n) :
             SubSeq(Unread, n + 1, Len(Unread))[i] = Unread[n + i]
    <3>1. Len(Unread) \in Nat /\ n <= Len(Unread)
      BY <1>1, <1>2, <1>3
    <3>. QED
      BY <1>3, <3>1, SliceProperties
  <2>2. CASE n < readableBytes
    <3>1. Unread' = SubSeq(m_buffer, (m_readerIndex + n) + 1, m_writerIndex)
      BY <2>2 DEF retrieve, Unread
    <3>2. /\ Unread' \in Seq(Byte)
          /\ Len(Unread') = m_writerIndex - (m_readerIndex + n)
          /\ \A i \in 1..(m_writerIndex - (m_readerIndex + n)) :
               Unread'[i] = m_buffer[(m_readerIndex + n) + i]
      <4>1. m_readerIndex + n \in Nat /\ m_readerIndex + n <= m_writerIndex
        BY <1>1, <1>2
      <4>. QED
        BY <1>1, <3>1, <4>1, SliceProperties
    <3>3. Len(Unread') = Len(Unread) - n
      BY <1>1, <1>3, <3>2
    <3>4. \A i \in 1..(Len(Unread) - n) :
            Unread[n + i] = m_buffer[(m_readerIndex + n) + i]
      <4>. TAKE i \in 1..(Len(Unread) - n)
      <4>1. /\ n + i \in 1..(m_writerIndex - m_readerIndex)
            /\ m_readerIndex + (n + i) = (m_readerIndex + n) + i
        BY <1>1, <1>2, <1>3
      <4>. QED
        BY <1>3, <4>1
    <3>. QED
      BY <1>1, <1>3, <2>1, <3>2, <3>3, <3>4, SeqEqual
  <2>3. CASE ~(n < readableBytes)
    <3>1. Unread' = SubSeq(m_buffer, kCheapPrepend + 1, kCheapPrepend)
      BY <2>3 DEF retrieve, Unread
    <3>2. Unread' = <<>>
      BY <1>1, <3>1, SubSeqEmpty
    <3>3. Len(Unread) < n + 1
      BY <1>1, <1>2, <1>3, <2>3 DEF readableBytes
    <3>4. SubSeq(Unread, n + 1, Len(Unread)) = <<>>
      BY <1>1, <1>3, <3>3, SubSeqEmpty, SMTT(30)
    <3>. QED
      BY <3>2, <3>4
  <2>. QED
    BY <2>2, <2>3
<1>8. n \in 0..Len(Unread)
  BY <1>1, <1>2, <1>3
<1>. QED
  BY <1>5, <1>6, <1>7, <1>8 DEF Stream!Take

\* Every step keeps the indices in order and is a step of the queue or leaves it.
LEMMA StepIsQueueStep ==
  ASSUME TypeOK, [Next]_vars
  PROVE  TypeOK' /\ [Stream!Next]_<<Unread, moved>>
<1>1. ASSUME NEW data \in Data, append(data) \/ readFd(data)
      PROVE  TypeOK' /\ Stream!Put
  BY <1>1, DataAreBytes, AppendIsPut, ReadFdIsPut DEF Stream!Put
<1>2. ASSUME NEW n \in 0..MaxReadable, writeFd(n) \/ retrieveAsString(n)
      PROVE  TypeOK' /\ Stream!Take
  <2>1. n \in Nat
    BY BufferAssumption
  <2>. QED
    BY <1>2, <2>1, RetrieveIsTake DEF writeFd, retrieveAsString
<1>3. CASE UNCHANGED vars
  BY <1>3 DEF vars, TypeOK, Unread
<1>. QED
  BY <1>1, <1>2, <1>3 DEF Next, Stream!Next

\* The vector starts empty, with its indices in order.
LEMMA InitIsQueueInit == Init => TypeOK /\ Stream!Init
<1>. SUFFICES ASSUME Init PROVE TypeOK /\ Stream!Init
  OBVIOUS
<1>1. kCheapPrepend \in Nat /\ kInitialSize \in Nat /\ Zero \in Byte
  BY BufferAssumption
<1>2. /\ m_buffer \in [1..(kCheapPrepend + kInitialSize) -> Byte]
      /\ kCheapPrepend + kInitialSize \in Nat
  BY <1>1 DEF Init
<1>3. m_buffer \in Seq(Byte) /\ Len(m_buffer) = kCheapPrepend + kInitialSize
  BY <1>2
<1>4. moved \in Seq(Byte)
  BY DEF Init
<1>5. Unread = <<>>
  BY <1>1, SubSeqEmpty DEF Init, Unread
<1>. QED
  BY <1>1, <1>3, <1>4, <1>5 DEF Init, TypeOK, Stream!Init

\* The indices stay in order, prepend <= reader <= writer <= size, whatever
\* sequence of operations runs: no size computed from them (Buffer.h:31-52) wraps.
THEOREM TypeCorrect == Spec => []TypeOK
<1>1. Init => TypeOK
  BY InitIsQueueInit
<1>2. TypeOK /\ [Next]_vars => TypeOK'
  BY StepIsQueueStep
<1>. QED
  BY <1>1, <1>2, PTL DEF Spec

\* The buffer implements the queue: no operation loses, repeats, invents or
\* reorders a byte, whatever the sizes are.
THEOREM BufferIsByteQueue == Spec => IsByteQueue
<1>1. Init => TypeOK /\ Stream!Init
  BY InitIsQueueInit
<1>2. TypeOK /\ [Next]_vars => TypeOK' /\ [Stream!Next]_<<Unread, moved>>
  BY StepIsQueueStep
<1>. QED
  BY <1>1, <1>2, PTL DEF Spec, IsByteQueue, Stream!Spec

------------------------------------------------------------------------------
(***************************************************************************)
(* When the vector grows.                                                  *)
(***************************************************************************)

\* append makes the vector longer only if the unread bytes and the new ones do
\* not fit in it with the prepended space (Buffer.h:116-134, 170-185).
LEMMA AppendGrowsWhenFull ==
  ASSUME NEW s, InOrder(s), NEW data \in Seq(Byte),
         Len(appendTo(s, data).buf) > Len(s.buf)
  PROVE  kCheapPrepend + (appendTo(s, data).w - appendTo(s, data).r) > Len(s.buf)
<1>. DEFINE len == Len(data)
            e == ensureWriteableBytes(s, len)
<1>1. /\ s.buf \in Seq(Byte) /\ Len(s.buf) \in Nat /\ len \in Nat /\ kCheapPrepend \in Nat
      /\ s.r \in Nat /\ s.w \in Nat /\ s.r <= s.w /\ s.w <= Len(s.buf)
  BY LenProperties, BufferAssumption DEF InOrder
<1>2. InOrder(e)
  BY <1>1, EnsureMakesRoom
<1>3. /\ appendTo(s, data).buf = copyTo(e.buf, e.w, data)
      /\ appendTo(s, data).r = e.r
      /\ appendTo(s, data).w = e.w + len
  BY DEF appendTo, State
<1>4. e = s \/ (e = grown(s, len) /\ tooSmall(s, len)) \/ e = compacted(s)
  BY DEF ensureWriteableBytes
<1>. HIDE DEF e, len
<1>5. Len(copyTo(e.buf, e.w, data)) = Len(e.buf)
  <2>1. e.buf \in Seq(Byte) /\ e.w \in Nat
    BY <1>2 DEF InOrder
  <2>. QED
    BY <2>1, CopyProperties
<1>6. Len(e.buf) > Len(s.buf)
  BY <1>3, <1>5
<1>7. e # s
  BY <1>1, <1>6
<1>8. e # compacted(s)
  <2>1. Slice(s) \in Seq(Byte)
    BY SliceIs
  <2>2. compacted(s).buf = copyTo(s.buf, kCheapPrepend, Slice(s))
    BY DEF compacted, State, Slice
  <2>3. Len(compacted(s).buf) = Len(s.buf)
    BY <1>1, <2>1, <2>2, CopyProperties
  <2>. QED
    BY <1>1, <1>6, <2>3
<1>9. e.r = s.r /\ e.w = s.w /\ Len(s.buf) - s.w + s.r < len + kCheapPrepend
  BY <1>4, <1>7, <1>8 DEF grown, State, tooSmall
<1>10. kCheapPrepend + ((s.w + len) - s.r) > Len(s.buf)
  BY <1>1, <1>9, SMTT(30)
<1>. QED
  BY <1>3, <1>9, <1>10

\* readFd, too: what did not fit behind m_writerIndex is appended to a full vector.
LEMMA ReadFdGrowsWhenFull ==
  ASSUME TypeOK, NEW data \in Seq(Byte), readFd(data), Len(m_buffer') > Len(m_buffer)
  PROVE  kCheapPrepend + (m_writerIndex' - m_readerIndex') > Len(m_buffer)
<1>. DEFINE writable == writableBytes
            first == copyTo(m_buffer, m_writerIndex, data)
            full == State(first, m_readerIndex, Len(m_buffer))
            rest == SubSeq(data, writable + 1, Len(data))
<1>1. /\ m_buffer \in Seq(Byte) /\ Len(m_buffer) \in Nat /\ Len(data) \in Nat
      /\ m_writerIndex \in Nat /\ m_readerIndex \in Nat /\ writable \in Nat
      /\ m_writerIndex <= Len(m_buffer)
  BY LenProperties DEF TypeOK, writableBytes
<1>2. first \in Seq(Byte) /\ Len(first) = Len(m_buffer)
  BY <1>1, CopyProperties
<1>3. Len(data) > writable
  <2>. SUFFICES ASSUME ~(Len(data) > writable) PROVE FALSE
    OBVIOUS
  <2>1. Len(data) <= writable
    BY <1>1
  <2>2. m_buffer' = first
    BY <2>1 DEF readFd, Become, State
  <2>. QED
    BY <1>1, <1>2, <2>2
<1>4. Become(appendTo(full, rest))
  BY <1>1, <1>3 DEF readFd
<1>5. rest \in Seq(Byte)
  BY <1>1, <1>3, SliceProperties
<1>6. InOrder(full) /\ full.buf = first
  BY <1>1, <1>2 DEF InOrder, State, TypeOK
<1>. HIDE DEF first, full, rest
<1>7. /\ m_buffer' = appendTo(full, rest).buf
      /\ m_writerIndex' = appendTo(full, rest).w
      /\ m_readerIndex' = appendTo(full, rest).r
  BY <1>4 DEF Become
<1>. QED
  BY <1>2, <1>5, <1>6, <1>7, AppendGrowsWhenFull

\* The vector grows for want of space alone, so its size follows the largest
\* backlog however appends, reads and retrieves alternate.
THEOREM GrowsForWantOfSpace == Spec => GrowsOnlyWhenFull
<1>1. TypeOK /\ [Next]_vars =>
        [Len(m_buffer') > Len(m_buffer) =>
           kCheapPrepend + readableBytes' > Len(m_buffer)]_vars
  <2>. SUFFICES ASSUME TypeOK, [Next]_vars, Len(m_buffer') > Len(m_buffer)
                PROVE  kCheapPrepend + (m_writerIndex' - m_readerIndex') > Len(m_buffer)
    BY DEF readableBytes
  <2>0. Len(m_buffer) \in Nat
    BY LenProperties DEF TypeOK
  <2>1. ASSUME NEW data \in Data, append(data)
        PROVE  kCheapPrepend + (m_writerIndex' - m_readerIndex') > Len(m_buffer)
    <3>1. data \in Seq(Byte)
      BY DataAreBytes
    <3>2. InOrder(Now) /\ Now.buf = m_buffer
      BY TypeIsOrder DEF Now, State
    <3>3. /\ m_buffer' = appendTo(Now, data).buf
          /\ m_writerIndex' = appendTo(Now, data).w
          /\ m_readerIndex' = appendTo(Now, data).r
      BY <2>1 DEF append, Become
    <3>. QED
      BY <3>1, <3>2, <3>3, AppendGrowsWhenFull
  <2>2. ASSUME NEW data \in Data, readFd(data)
        PROVE  kCheapPrepend + (m_writerIndex' - m_readerIndex') > Len(m_buffer)
    BY <2>2, DataAreBytes, ReadFdGrowsWhenFull
  <2>3. ASSUME NEW n \in 0..MaxReadable, writeFd(n) \/ retrieveAsString(n) PROVE FALSE
    BY <2>0, <2>3 DEF writeFd, retrieveAsString
  <2>4. ~ UNCHANGED vars
    BY <2>0 DEF vars
  <2>. QED
    BY <2>1, <2>2, <2>3, <2>4 DEF Next
<1>. QED
  BY <1>1, TypeCorrect, PTL DEF Spec, GrowsOnlyWhenFull

==============================================================================
