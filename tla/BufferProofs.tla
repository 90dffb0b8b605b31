---------------------------- MODULE BufferProofs ----------------------------
(***************************************************************************)
(* Proofs about the two byte buffers.  Buffer.tla, for every size of the   *)
(* prefix, of the initial buffer and of the data, and every sequence of    *)
(* calls; and Logger.tla, at the end, for every size of its fixed buffer   *)
(* and every sequence of log statements.                                   *)
(***************************************************************************)
EXTENDS Buffer, Logger, TLAPS

BufferType == [buffer : Seq(Byte), readerIndex : Nat, writerIndex : Nat]

(* A buffer whose indices are in order. *)
WellFormed(x) ==
    /\ x \in BufferType
    /\ x.readerIndex <= x.writerIndex
    /\ x.writerIndex <= Len(x.buffer)

-----------------------------------------------------------------------------
(* Sequences of the same length with the same elements are equal. *)
LEMMA SeqExtensionality ==
    ASSUME NEW S, NEW s \in Seq(S), NEW t \in Seq(S), Len(s) = Len(t),
           \A i \in 1..Len(s) : s[i] = t[i]
    PROVE  s = t
  OBVIOUS

LEMMA ConcatElements ==
    ASSUME NEW S, NEW s \in Seq(S), NEW t \in Seq(S)
    PROVE  /\ s \o t \in Seq(S)
           /\ Len(s \o t) = Len(s) + Len(t)
           /\ \A i \in 1..Len(s) : (s \o t)[i] = s[i]
           /\ \A i \in 1..(Len(s) + Len(t)) : i > Len(s) => (s \o t)[i] = t[i - Len(s)]
  OBVIOUS

LEMMA CopyToType ==
    ASSUME NEW old \in Seq(Byte), NEW at \in Nat, NEW data \in Seq(Byte)
    PROVE  /\ CopyTo(old, at, data) \in Seq(Byte)
           /\ Len(CopyTo(old, at, data)) = Len(old)
           /\ \A i \in 1..Len(old) : CopyTo(old, at, data)[i] =
                IF at < i /\ i <= at + Len(data) THEN data[i - at] ELSE old[i]
  BY DEF CopyTo

LEMMA CopyToAt ==
    ASSUME NEW old \in Seq(Byte), NEW at \in Nat, NEW data \in Seq(Byte),
           NEW i \in 1..Len(data), at + i \in 1..Len(old)
    PROVE  CopyTo(old, at, data)[at + i] = data[i]
  BY DEF CopyTo

LEMMA ResizedType ==
    ASSUME NEW old \in Seq(Byte), NEW n \in Nat
    PROVE  /\ Resized(old, n) \in Seq(Byte)
           /\ Len(Resized(old, n)) = n
           /\ \A i \in 1..n : Resized(old, n)[i] =
                IF i <= Len(old) THEN old[i] ELSE Zero
  BY ByteAssumption DEF Resized

LEMMA ContentType ==
    ASSUME NEW x, WellFormed(x)
    PROVE  /\ readableBytes(x) \in Nat
           /\ writableBytes(x) \in Nat
           /\ Content(x) \in Seq(Byte)
           /\ Len(Content(x)) = readableBytes(x)
           /\ \A i \in 1..readableBytes(x) : Content(x)[i] = x.buffer[x.readerIndex + i]
<1>1. /\ readableBytes(x) \in Nat
      /\ writableBytes(x) \in Nat
  BY DEF WellFormed, BufferType, readableBytes, writableBytes
<1>2. \A i \in 1..readableBytes(x) : x.buffer[x.readerIndex + i] \in Byte
  BY DEF WellFormed, BufferType, readableBytes
<1> QED  BY <1>1, <1>2 DEF Content

(* makeSpace() makes the space it is asked for, moves bytes only towards   *)
(* the front, and keeps the readable bytes.                                *)
LEMMA MakeSpaceCorrect ==
    ASSUME NEW x, WellFormed(x), NEW len \in Nat, writableBytes(x) < len
    PROVE  /\ WellFormed(makeSpace(x, len))
           /\ Content(makeSpace(x, len)) = Content(x)
           /\ writableBytes(makeSpace(x, len)) >= len
           /\ Len(makeSpace(x, len).buffer) >= Len(x.buffer)
           /\ makeSpace(x, len).readerIndex # x.readerIndex =>
                kCheapPrepend < x.readerIndex
<1> DEFINE y == makeSpace(x, len)
<1>0. /\ x.buffer \in Seq(Byte) /\ x.readerIndex \in Nat /\ x.writerIndex \in Nat
      /\ x.readerIndex <= x.writerIndex /\ x.writerIndex <= Len(x.buffer)
      /\ Len(x.buffer) \in Nat
  BY DEF WellFormed, BufferType
<1>1. CASE writableBytes(x) + prependableBytes(x) < len + kCheapPrepend
  <2>1. y = [x EXCEPT !.buffer = Resized(x.buffer, x.writerIndex + len)]
    BY <1>1 DEF makeSpace
  <2> DEFINE n == x.writerIndex + len
             r == Resized(x.buffer, n)
  <2>a. n \in Nat /\ n > Len(x.buffer)
    BY <1>0 DEF writableBytes
  <2>b. /\ r \in Seq(Byte) /\ Len(r) = n
        /\ \A i \in 1..n : r[i] = IF i <= Len(x.buffer) THEN x.buffer[i] ELSE Zero
    BY <1>0, <2>a, ResizedType
  <2> HIDE DEF r
  <2>2. /\ y.buffer = r
        /\ y.readerIndex = x.readerIndex /\ y.writerIndex = x.writerIndex
        /\ y \in BufferType
    <3> x \in BufferType
      BY DEF WellFormed
    <3>1. y = [x EXCEPT !.buffer = r]
      BY <2>1 DEF r
    <3> HIDE DEF y
    <3> QED  BY <2>b, <3>1 DEF BufferType
  <2>3. Len(y.buffer) = x.writerIndex + len /\ Len(y.buffer) >= Len(x.buffer)
    BY <2>a, <2>b, <2>2, <1>0
  <2>4. WellFormed(y)
    BY <2>2, <2>3, <1>0 DEF WellFormed
  <2>5. Content(y) = Content(x)
    <3>1. readableBytes(y) = readableBytes(x)
      BY <2>2 DEF readableBytes
    <3>2. \A i \in 1..readableBytes(x) :
             y.buffer[y.readerIndex + i] = x.buffer[x.readerIndex + i]
      <4> SUFFICES ASSUME NEW i \in 1..readableBytes(x)
                   PROVE  y.buffer[y.readerIndex + i] = x.buffer[x.readerIndex + i]
        OBVIOUS
      <4>1. x.readerIndex + i \in 1..n /\ x.readerIndex + i <= Len(x.buffer)
        BY <1>0, <2>a DEF readableBytes
      <4> QED  BY <2>b, <2>2, <4>1
    <3> QED  BY <3>1, <3>2 DEF Content
  <2> QED  BY <2>2, <2>3, <2>4, <2>5, <1>0 DEF writableBytes
<1>2. CASE ~(writableBytes(x) + prependableBytes(x) < len + kCheapPrepend)
  <2>0. kCheapPrepend \in Nat
    BY SizeAssumption
  <2>1. kCheapPrepend < x.readerIndex
    BY <1>0, <1>2, <2>0 DEF writableBytes, prependableBytes
  <2>2. y = [buffer |-> CopyTo(x.buffer, kCheapPrepend, Content(x)),
             readerIndex |-> kCheapPrepend,
             writerIndex |-> kCheapPrepend + readableBytes(x)]
    BY <1>2 DEF makeSpace
  <2>3. /\ y.buffer = CopyTo(x.buffer, kCheapPrepend, Content(x))
        /\ y.buffer \in Seq(Byte) /\ Len(y.buffer) = Len(x.buffer)
    BY <2>0, <2>2, <1>0, ContentType, CopyToType
  <2>4. /\ y.readerIndex = kCheapPrepend
        /\ y.writerIndex = kCheapPrepend + readableBytes(x)
        /\ y \in BufferType
    BY <2>0, <2>2, <2>3, ContentType DEF BufferType
  <2>5. WellFormed(y) /\ readableBytes(y) = readableBytes(x)
    BY <1>0, <2>0, <2>1, <2>3, <2>4, ContentType DEF WellFormed, readableBytes
  <2>6. Content(y) = Content(x)
    <3>1. \A i \in 1..readableBytes(x) : y.buffer[kCheapPrepend + i] = Content(x)[i]
      <4> SUFFICES ASSUME NEW i \in 1..readableBytes(x)
                   PROVE  y.buffer[kCheapPrepend + i] = Content(x)[i]
        OBVIOUS
      <4>1. kCheapPrepend + i \in 1..Len(x.buffer)
        BY <1>0, <2>0, <2>1 DEF readableBytes
      <4>2. Content(x) \in Seq(Byte) /\ Len(Content(x)) = readableBytes(x)
        BY ContentType
      <4>3. i \in 1..Len(Content(x))
        BY <4>2
      <4> QED  BY <2>0, <2>3, <4>1, <4>2, <4>3, <1>0, CopyToAt
    <3> QED  BY <3>1, <2>4, <2>5, ContentType DEF Content
  <2> QED  BY <1>0, <1>2, <2>0, <2>1, <2>3, <2>4, <2>5, <2>6
           DEF writableBytes, prependableBytes, readableBytes
<1> QED  BY <1>1, <1>2

LEMMA EnsureWritableCorrect ==
    ASSUME NEW x, WellFormed(x), NEW len \in Nat
    PROVE  LET y == ensureWritableBytes(x, len) IN
           /\ WellFormed(y)
           /\ Content(y) = Content(x)
           /\ writableBytes(y) >= len
           /\ Len(y.buffer) >= Len(x.buffer)
           /\ y.readerIndex # x.readerIndex => kCheapPrepend < x.readerIndex
<1>0. writableBytes(x) \in Nat
  BY ContentType
<1>1. CASE writableBytes(x) < len
  <2>1. ensureWritableBytes(x, len) = makeSpace(x, len)
    BY <1>1 DEF ensureWritableBytes
  <2> QED  BY <1>1, <2>1, MakeSpaceCorrect
<1>2. CASE ~(writableBytes(x) < len)
  <2>1. ensureWritableBytes(x, len) = x
    BY <1>2 DEF ensureWritableBytes
  <2>2. Len(x.buffer) \in Nat
    BY DEF WellFormed, BufferType
  <2> QED  BY <1>0, <1>2, <2>1, <2>2
<1> QED  BY <1>1, <1>2

(* Writing data that fits puts it behind the readable bytes. *)
LEMMA WriteCorrect ==
    ASSUME NEW x, WellFormed(x), NEW data \in Seq(Byte), Len(data) <= writableBytes(x)
    PROVE  /\ WellFormed(write(x, data))
           /\ Content(write(x, data)) = Content(x) \o data
           /\ Len(write(x, data).buffer) = Len(x.buffer)
           /\ write(x, data).writerIndex = x.writerIndex + Len(data)
<1> DEFINE c == CopyTo(x.buffer, x.writerIndex, data)
           y == write(x, data)
<1>0. /\ x.buffer \in Seq(Byte) /\ x.readerIndex \in Nat /\ x.writerIndex \in Nat
      /\ x.readerIndex <= x.writerIndex /\ x.writerIndex <= Len(x.buffer)
      /\ Len(x.buffer) \in Nat /\ Len(data) \in Nat /\ x \in BufferType
      /\ x.writerIndex + Len(data) <= Len(x.buffer)
  BY DEF WellFormed, BufferType, writableBytes
<1>1. /\ c \in Seq(Byte) /\ Len(c) = Len(x.buffer)
      /\ \A i \in 1..Len(x.buffer) : c[i] =
            IF x.writerIndex < i /\ i <= x.writerIndex + Len(data)
            THEN data[i - x.writerIndex] ELSE x.buffer[i]
  BY <1>0, CopyToType
<1> DEFINE w == x.writerIndex + Len(data)
<1>2. y = [x EXCEPT !.buffer = c, !.writerIndex = w] /\ w \in Nat
  BY <1>0 DEF write
<1> HIDE DEF c, y, w
<1>a. /\ y.buffer = c /\ y.readerIndex = x.readerIndex
      /\ y.writerIndex = w /\ y \in BufferType
  BY <1>0, <1>1, <1>2 DEF BufferType
<1>3. /\ y.buffer = c /\ y.readerIndex = x.readerIndex
      /\ y.writerIndex = x.writerIndex + Len(data) /\ y \in BufferType
  BY <1>a DEF w
<1>4. WellFormed(y)
  BY <1>0, <1>1, <1>3 DEF WellFormed
<1>5. readableBytes(y) = readableBytes(x) + Len(data)
  BY <1>0, <1>3 DEF readableBytes
<1>6. Content(y) = Content(x) \o data
  <2>1. /\ readableBytes(x) \in Nat /\ Content(x) \in Seq(Byte)
        /\ Len(Content(x)) = readableBytes(x)
        /\ \A i \in 1..readableBytes(x) : Content(x)[i] = x.buffer[x.readerIndex + i]
    BY ContentType
  <2>2. /\ Content(y) \in Seq(Byte) /\ Len(Content(y)) = readableBytes(x) + Len(data)
        /\ \A i \in 1..readableBytes(y) : Content(y)[i] = c[x.readerIndex + i]
    BY <1>3, <1>4, <1>5, ContentType
  <2>3. \A i \in 1..readableBytes(y) : Content(y)[i] = (Content(x) \o data)[i]
    <3> SUFFICES ASSUME NEW i \in 1..readableBytes(y)
                 PROVE  Content(y)[i] = (Content(x) \o data)[i]
      OBVIOUS
    <3> DEFINE j == x.readerIndex + i
    <3>0. /\ j \in 1..Len(x.buffer) /\ i \in Nat
          /\ i <= readableBytes(x) => j <= x.writerIndex
          /\ i > readableBytes(x) => /\ x.writerIndex < j
                                     /\ j <= x.writerIndex + Len(data)
                                     /\ j - x.writerIndex = i - readableBytes(x)
      <4>1. /\ readableBytes(x) = x.writerIndex - x.readerIndex
            /\ i \in Nat /\ i >= 1 /\ i <= readableBytes(x) + Len(data)
        BY <1>0, <1>5, <2>1 DEF readableBytes
      <4>2. j \in Nat /\ j >= 1 /\ j <= x.writerIndex + Len(data)
        BY <1>0, <4>1
      <4>3. j \in 1..Len(x.buffer)
        BY <1>0, <4>2
      <4>4. i <= readableBytes(x) => j <= x.writerIndex
        BY <1>0, <4>1
      <4>5. i > readableBytes(x) => x.writerIndex < j
        BY <1>0, <4>1
      <4>6. j - x.writerIndex = i - readableBytes(x)
        BY <1>0, <4>1
      <4> QED  BY <4>1, <4>2, <4>3, <4>4, <4>5, <4>6
    <3>c. Content(y)[i] = c[j]
      BY <2>2
    <3> HIDE DEF j
    <3>d. c[j] = IF x.writerIndex < j /\ j <= x.writerIndex + Len(data)
                 THEN data[j - x.writerIndex] ELSE x.buffer[j]
      BY <1>1, <3>0
    <3>1. CASE i <= readableBytes(x)
      <4>1. c[j] = x.buffer[j]
        BY <1>0, <1>1, <3>0, <3>1
      <4>2. (Content(x) \o data)[i] = Content(x)[i] /\ i \in 1..readableBytes(x)
        BY <2>1, <3>1, ConcatElements
      <4> QED  BY <2>1, <3>c, <4>1, <4>2 DEF j
    <3>2. CASE i > readableBytes(x)
      <4>1. c[j] = data[i - readableBytes(x)]
        BY <3>0, <3>d, <3>2
      <4>2. (Content(x) \o data)[i] = data[i - readableBytes(x)]
        BY <1>0, <1>5, <2>1, <3>2, ConcatElements
      <4> QED  BY <3>c, <4>1, <4>2
    <3>3. i <= readableBytes(x) \/ i > readableBytes(x)
      BY <3>0, <2>1
    <3> QED  BY <3>1, <3>2, <3>3
  <2>4. /\ Content(x) \o data \in Seq(Byte)
        /\ Len(Content(x) \o data) = Len(Content(y)) /\ Len(Content(y)) = readableBytes(y)
    BY <1>5, <2>1, <2>2, ConcatElements
  <2> QED  BY <2>2, <2>3, <2>4, SeqExtensionality
<1> QED  BY <1>1, <1>3, <1>4, <1>6 DEF y

LEMMA AppendCorrect ==
    ASSUME NEW x, WellFormed(x), NEW data \in Seq(Byte)
    PROVE  /\ WellFormed(append(x, data))
           /\ Content(append(x, data)) = Content(x) \o data
           /\ Len(append(x, data).buffer) >= Len(x.buffer)
<1> DEFINE y == ensureWritableBytes(x, Len(data))
<1>1. Len(data) \in Nat
  OBVIOUS
<1>2. /\ WellFormed(y) /\ Content(y) = Content(x)
      /\ writableBytes(y) >= Len(data) /\ Len(y.buffer) >= Len(x.buffer)
  BY <1>1, EnsureWritableCorrect
<1>3. append(x, data) = write(y, data) /\ writableBytes(y) \in Nat
  BY <1>2, ContentType DEF append
<1> HIDE DEF y
<1>4. Len(data) <= writableBytes(y)
  BY <1>1, <1>2, <1>3
<1> QED  BY <1>2, <1>3, <1>4, WriteCorrect

LEMMA PrependCorrect ==
    ASSUME NEW x, WellFormed(x), NEW data \in Seq(Byte),
           Len(data) <= prependableBytes(x)
    PROVE  /\ WellFormed(prepend(x, data))
           /\ Content(prepend(x, data)) = data \o Content(x)
           /\ Len(prepend(x, data).buffer) = Len(x.buffer)
<1> DEFINE at == x.readerIndex - Len(data)
           c == CopyTo(x.buffer, at, data)
           y == prepend(x, data)
<1>0. /\ x.buffer \in Seq(Byte) /\ x.readerIndex \in Nat /\ x.writerIndex \in Nat
      /\ x.readerIndex <= x.writerIndex /\ x.writerIndex <= Len(x.buffer)
      /\ Len(x.buffer) \in Nat /\ Len(data) \in Nat /\ x \in BufferType
      /\ at \in Nat /\ at + Len(data) = x.readerIndex
  BY DEF WellFormed, BufferType, prependableBytes
<1>1. /\ c \in Seq(Byte) /\ Len(c) = Len(x.buffer)
      /\ \A i \in 1..Len(x.buffer) : c[i] =
            IF at < i /\ i <= at + Len(data) THEN data[i - at] ELSE x.buffer[i]
  BY <1>0, CopyToType
<1>2. y = [x EXCEPT !.readerIndex = at, !.buffer = c]
  BY DEF prepend
<1> HIDE DEF c, y, at
<1>3. /\ y.buffer = c /\ y.readerIndex = at
      /\ y.writerIndex = x.writerIndex /\ y \in BufferType
  BY <1>0, <1>1, <1>2 DEF BufferType
<1>4. WellFormed(y)
  BY <1>0, <1>1, <1>3 DEF WellFormed
<1>5. readableBytes(y) = Len(data) + readableBytes(x)
  BY <1>0, <1>3 DEF readableBytes
<1>6. Content(y) = data \o Content(x)
  <2>1. /\ readableBytes(x) \in Nat /\ Content(x) \in Seq(Byte)
        /\ Len(Content(x)) = readableBytes(x)
        /\ \A i \in 1..readableBytes(x) : Content(x)[i] = x.buffer[x.readerIndex + i]
    BY ContentType
  <2>2. /\ Content(y) \in Seq(Byte) /\ Len(Content(y)) = Len(data) + readableBytes(x)
        /\ \A i \in 1..readableBytes(y) : Content(y)[i] = c[at + i]
    BY <1>3, <1>4, <1>5, ContentType
  <2>3. \A i \in 1..readableBytes(y) : Content(y)[i] = (data \o Content(x))[i]
    <3> SUFFICES ASSUME NEW i \in 1..readableBytes(y)
                 PROVE  Content(y)[i] = (data \o Content(x))[i]
      OBVIOUS
    <3>0. at + i \in 1..Len(x.buffer) /\ i \in Nat
      <4>1. readableBytes(x) = x.writerIndex - x.readerIndex
        BY DEF readableBytes
      <4>2. i \in Nat /\ 1 <= i /\ i <= Len(data) + (x.writerIndex - x.readerIndex)
        BY <1>0, <1>5, <4>1
      <4> QED  BY <1>0, <4>2
    <3>1. CASE i <= Len(data)
      <4>1. c[at + i] = data[i]
        <5>1. i \in 1..Len(data)
          BY <1>0, <2>1, <1>5, <3>1
        <5> QED  BY <1>0, <3>0, <5>1, CopyToAt DEF c
      <4>2. (data \o Content(x))[i] = data[i]
        BY <1>0, <2>1, <3>1, ConcatElements
      <4> QED  BY <2>2, <4>1, <4>2
    <3>2. CASE i > Len(data)
      <4>1. c[at + i] = x.buffer[x.readerIndex + (i - Len(data))]
        <5>1. /\ ~(at + i <= at + Len(data))
              /\ at + i = x.readerIndex + (i - Len(data))
          BY <1>0, <3>0, <3>2
        <5>2. c[at + i] = IF at < at + i /\ at + i <= at + Len(data)
                          THEN data[(at + i) - at] ELSE x.buffer[at + i]
          BY <1>1, <3>0
        <5> QED  BY <5>1, <5>2
      <4>2. i - Len(data) \in 1..readableBytes(x)
        BY <1>0, <1>5, <2>1, <3>2
      <4>3. (data \o Content(x))[i] = Content(x)[i - Len(data)]
        BY <1>0, <1>5, <2>1, <3>2, ConcatElements
      <4> QED  BY <2>1, <2>2, <4>1, <4>2, <4>3
    <3>3. i <= Len(data) \/ i > Len(data)
      BY <3>0, <1>0
    <3> QED  BY <3>1, <3>2, <3>3
  <2>4. /\ data \o Content(x) \in Seq(Byte)
        /\ Len(data \o Content(x)) = Len(Content(y)) /\ Len(Content(y)) = readableBytes(y)
    BY <1>0, <1>5, <2>1, <2>2, ConcatElements
  <2> QED  BY <2>2, <2>3, <2>4, SeqExtensionality
<1> QED  BY <1>1, <1>3, <1>4, <1>6 DEF y

LEMMA RetrieveCorrect ==
    ASSUME NEW x, WellFormed(x), NEW len \in Nat, len <= readableBytes(x)
    PROVE  /\ WellFormed(retrieve(x, len))
           /\ Content(retrieve(x, len)) = Rest(Content(x), len)
           /\ retrieve(x, len).buffer = x.buffer
<1> DEFINE y == retrieve(x, len)
<1>0. /\ x.buffer \in Seq(Byte) /\ x.readerIndex \in Nat /\ x.writerIndex \in Nat
      /\ x.readerIndex <= x.writerIndex /\ x.writerIndex <= Len(x.buffer)
      /\ Len(x.buffer) \in Nat /\ x \in BufferType
  BY DEF WellFormed, BufferType
<1>1. y = [x EXCEPT !.readerIndex = x.readerIndex + len]
  BY DEF retrieve
<1> HIDE DEF y
<1>2. /\ y.buffer = x.buffer /\ y.readerIndex = x.readerIndex + len
      /\ y.writerIndex = x.writerIndex /\ y \in BufferType
  BY <1>0, <1>1 DEF BufferType
<1>3. WellFormed(y)
  BY <1>0, <1>2 DEF WellFormed, readableBytes
<1>4. readableBytes(y) = readableBytes(x) - len
  BY <1>0, <1>2 DEF readableBytes
<1>5. /\ readableBytes(x) \in Nat /\ Len(Content(x)) = readableBytes(x)
      /\ \A i \in 1..readableBytes(x) : Content(x)[i] = x.buffer[x.readerIndex + i]
  BY ContentType
<1>6. \A i \in 1..readableBytes(y) :
        x.buffer[y.readerIndex + i] = Content(x)[len + i]
  BY <1>0, <1>2, <1>4, <1>5
<1>7. Content(y) = Rest(Content(x), len)
  BY <1>2, <1>4, <1>5, <1>6 DEF Content, Rest
<1> QED  BY <1>2, <1>3, <1>7 DEF y

LEMMA RetrieveAllCorrect ==
    ASSUME NEW x, WellFormed(x), kCheapPrepend <= Len(x.buffer)
    PROVE  /\ WellFormed(retrieveAll(x))
           /\ Content(retrieveAll(x)) = <<>>
           /\ retrieveAll(x).buffer = x.buffer
<1> DEFINE y == retrieveAll(x)
<1>1. /\ y.buffer = x.buffer /\ y.readerIndex = kCheapPrepend
      /\ y.writerIndex = kCheapPrepend /\ y \in BufferType
  BY SizeAssumption DEF retrieveAll, WellFormed, BufferType
<1> HIDE DEF y
<1>2. WellFormed(y) /\ readableBytes(y) = 0
  BY <1>1, SizeAssumption DEF WellFormed, readableBytes
<1>3. Len(Content(y)) = 0 /\ Content(y) \in Seq(Byte)
  BY <1>2, ContentType
<1>4. Content(y) = <<>>
  BY <1>3
<1> QED  BY <1>1, <1>2, <1>4 DEF y

LEMMA ReadFdCorrect ==
    ASSUME NEW x, WellFormed(x), NEW data \in Seq(Byte)
    PROVE  /\ WellFormed(readFd(x, data))
           /\ Content(readFd(x, data)) = Content(x) \o data
           /\ Len(readFd(x, data).buffer) >= Len(x.buffer)
<1> DEFINE n == writableBytes(x)
<1>0. n \in Nat /\ Len(data) \in Nat /\ Len(x.buffer) \in Nat
  BY ContentType DEF WellFormed, BufferType
<1>1. CASE Len(data) <= n
  <2>1. readFd(x, data) = write(x, data)
    BY <1>1 DEF readFd
  <2> QED  BY <1>0, <1>1, <2>1, WriteCorrect
<1>2. CASE ~(Len(data) <= n)
  <2> DEFINE d1 == First(data, n)
             d2 == Rest(data, n)
             y == write(x, d1)
  <2>1. readFd(x, data) = append(y, d2)
    BY <1>2 DEF readFd
  <2>2. /\ d1 \in Seq(Byte) /\ Len(d1) = n
        /\ \A i \in 1..n : d1[i] = data[i]
    BY <1>0, <1>2 DEF First
  <2>3. /\ d2 \in Seq(Byte) /\ Len(d2) = Len(data) - n
        /\ \A i \in 1..(Len(data) - n) : d2[i] = data[n + i]
    <3> DEFINE k == Len(data) - n
    <3>1. k \in Nat /\ \A i \in 1..k : data[n + i] \in Byte
      BY <1>0, <1>2
    <3>2. d2 = [i \in 1..k |-> data[n + i]]
      BY DEF Rest
    <3> HIDE DEF k, d2, n
    <3>3. /\ d2 \in Seq(Byte) /\ Len(d2) = k
          /\ \A i \in 1..k : d2[i] = data[n + i]
      BY <3>1, <3>2
    <3> QED  BY <3>3 DEF k
  <2> HIDE DEF d1, d2
  <2>4. d1 \o d2 = data
    <3>1. /\ d1 \o d2 \in Seq(Byte) /\ Len(d1 \o d2) = Len(data)
      BY <1>0, <1>2, <2>2, <2>3, ConcatElements
    <3>2. \A i \in 1..Len(data) : (d1 \o d2)[i] = data[i]
      <4> SUFFICES ASSUME NEW i \in 1..Len(data) PROVE (d1 \o d2)[i] = data[i]
        OBVIOUS
      <4>1. CASE i <= n
        <5>1. i \in 1..n BY <1>0, <4>1
        <5>2. (d1 \o d2)[i] = d1[i] BY <2>2, <2>3, <5>1, ConcatElements
        <5> QED  BY <2>2, <5>1, <5>2
      <4>2. CASE i > n
        <5>1. (d1 \o d2)[i] = d2[i - n]
          <6>1. Len(d1) = n /\ Len(d1) + Len(d2) = Len(data)
            BY <1>0, <2>2, <2>3
          <6>2. i \in 1..(Len(d1) + Len(d2)) /\ i > Len(d1)
            BY <4>2, <6>1
          <6>3. (d1 \o d2)[i] = d2[i - Len(d1)]
            BY <2>2, <2>3, <6>2, ConcatElements
          <6> QED  BY <6>1, <6>3
        <5>2. i - n \in 1..(Len(data) - n) /\ n + (i - n) = i
          BY <1>0, <1>2, <4>2
        <5> QED  BY <2>3, <5>1, <5>2
      <4>3. i <= n \/ i > n
        BY <1>0
      <4> QED  BY <4>1, <4>2, <4>3
    <3> QED  BY <3>1, <3>2, SeqExtensionality
  <2>5. /\ WellFormed(y) /\ Content(y) = Content(x) \o d1
        /\ Len(y.buffer) = Len(x.buffer)
    BY <1>0, <2>2, WriteCorrect
  <2> HIDE DEF y
  <2>6. /\ WellFormed(append(y, d2)) /\ Content(append(y, d2)) = Content(y) \o d2
        /\ Len(append(y, d2).buffer) >= Len(y.buffer)
    BY <2>3, <2>5, AppendCorrect
  <2>7. (Content(x) \o d1) \o d2 = Content(x) \o (d1 \o d2)
    <3>1. Content(x) \in Seq(Byte)
      BY ContentType
    <3> QED  BY <2>2, <2>3, <3>1
  <2> QED  BY <2>1, <2>4, <2>5, <2>6, <2>7
<1> QED  BY <1>1, <1>2

-----------------------------------------------------------------------------
LEMMA DataType == Data \subseteq Seq(Byte)
  BY SizeAssumption DEF Data

LEMMA NewBufferWellFormed ==
    WellFormed(NewBuffer) /\ Len(NewBuffer.buffer) = kCheapPrepend + kInitialSize
<1> DEFINE n == kCheapPrepend + kInitialSize
           z == [i \in 1..n |-> Zero]
<1>1. z \in Seq(Byte) /\ Len(z) = n /\ n \in Nat /\ kCheapPrepend \in Nat /\ kCheapPrepend <= n
  BY ByteAssumption, SizeAssumption
<1>2. NewBuffer = [buffer |-> z, readerIndex |-> kCheapPrepend, writerIndex |-> kCheapPrepend]
  BY DEF NewBuffer
<1> HIDE DEF z, n
<1> QED  BY <1>1, <1>2 DEF WellFormed, BufferType, n

BufferInv == WellFormed(b) /\ kCheapPrepend + kInitialSize <= Len(b.buffer)

(* For every prefix and initial size: no call lets the indices cross or    *)
(* leave the vector.                                                       *)
THEOREM BufferInvariant == Spec => []BufferInv
<1>1. Init => BufferInv
  BY NewBufferWellFormed, SizeAssumption DEF Init, BufferInv
<1>2. BufferInv /\ [Next]_b => BufferInv'
  <2> SUFFICES ASSUME BufferInv, [Next]_b PROVE BufferInv'
    OBVIOUS
  <2>0. /\ WellFormed(b) /\ kCheapPrepend + kInitialSize <= Len(b.buffer)
        /\ kCheapPrepend + kInitialSize \in Nat /\ Len(b.buffer) \in Nat
        /\ kCheapPrepend <= Len(b.buffer)
    BY SizeAssumption DEF BufferInv, WellFormed, BufferType
  <2>1. ASSUME NEW data \in Data, Append_(data) PROVE BufferInv'
    <3>1. b' = append(b, data) /\ data \in Seq(Byte)
      BY <2>1, DataType DEF Append_
    <3>2. WellFormed(b') /\ Len(b'.buffer) >= Len(b.buffer)
      BY <2>0, <3>1, AppendCorrect
    <3>3. Len(b'.buffer) \in Nat
      BY <3>2 DEF WellFormed, BufferType
    <3> QED  BY <2>0, <3>2, <3>3 DEF BufferInv, WellFormed
  <2>2. ASSUME NEW data \in Data, Prepend(data) PROVE BufferInv'
    <3>1. b' = prepend(b, data) /\ data \in Seq(Byte) /\ Len(data) <= prependableBytes(b)
      BY <2>2, DataType DEF Prepend
    <3>2. WellFormed(b') /\ Len(b'.buffer) = Len(b.buffer)
      BY <2>0, <3>1, PrependCorrect
    <3> QED  BY <2>0, <3>2 DEF BufferInv, WellFormed
  <2>3. ASSUME NEW data \in Data, ReadFd(data) PROVE BufferInv'
    <3>1. b' = readFd(b, data) /\ data \in Seq(Byte)
      BY <2>3, DataType DEF ReadFd
    <3>2. WellFormed(b') /\ Len(b'.buffer) >= Len(b.buffer)
      BY <2>0, <3>1, ReadFdCorrect
    <3>3. Len(b'.buffer) \in Nat
      BY <3>2 DEF WellFormed, BufferType
    <3> QED  BY <2>0, <3>2, <3>3 DEF BufferInv, WellFormed
  <2>4. ASSUME NEW len \in 0..MaxSize, Retrieve(len) PROVE BufferInv'
    <3>1. len \in Nat /\ len <= readableBytes(b) /\ b' = retrieve(b, len)
      BY <2>4, SizeAssumption DEF Retrieve
    <3>2. WellFormed(b') /\ b'.buffer = b.buffer
      BY <2>0, <3>1, RetrieveCorrect
    <3> QED  BY <2>0, <3>2 DEF BufferInv, WellFormed
  <2>5. CASE RetrieveAll
    <3>1. WellFormed(b') /\ b'.buffer = b.buffer
      BY <2>0, <2>5, RetrieveAllCorrect DEF RetrieveAll
    <3> QED  BY <2>0, <3>1 DEF BufferInv, WellFormed
  <2>6. CASE UNCHANGED b
    BY <2>6 DEF BufferInv, WellFormed
  <2> QED  BY <2>1, <2>2, <2>3, <2>4, <2>5, <2>6 DEF Next
<1> QED  BY <1>1, <1>2, PTL DEF Spec

THEOREM BufferTypeCorrect == Spec => []TypeOK
<1>1. BufferInv => TypeOK
  BY DEF BufferInv, WellFormed, TypeOK, IndicesOrdered, BufferType
<1> QED  BY <1>1, BufferInvariant, PTL

(* The assertions in ensureWritableBytes() and makeSpace() never fail. *)
THEOREM SpaceIsMade == Spec => []MakeSpaceAssertions
<1>1. BufferInv => MakeSpaceAssertions
  <2> SUFFICES ASSUME BufferInv, NEW len \in 0..MaxData
               PROVE  LET x == ensureWritableBytes(b, len) IN
                      /\ writableBytes(x) >= len
                      /\ x.readerIndex # b.readerIndex => kCheapPrepend < b.readerIndex
    BY DEF MakeSpaceAssertions
  <2>1. len \in Nat /\ WellFormed(b)
    BY SizeAssumption DEF BufferInv
  <2> QED  BY <2>1, EnsureWritableCorrect
<1> QED  BY <1>1, BufferInvariant, PTL

(* In every reachable buffer each call acts on the readable bytes as on a  *)
(* queue, for any data: nothing is lost, repeated or reordered when bytes  *)
(* are moved or the vector grows.                                          *)
THEOREM BufferIsQueue == Spec => []ActsAsQueue
<1>1. BufferInv => ActsAsQueue
  <2> SUFFICES ASSUME BufferInv PROVE ActsAsQueue
    OBVIOUS
  <2>0. WellFormed(b) /\ kCheapPrepend <= Len(b.buffer)
    BY SizeAssumption DEF BufferInv, WellFormed, BufferType
  <2>1. ASSUME NEW data \in Data
        PROVE  /\ Content(append(b, data)) = Content(b) \o data
               /\ Content(readFd(b, data)) = Content(b) \o data
               /\ Len(data) <= prependableBytes(b) =>
                     Content(prepend(b, data)) = data \o Content(b)
    <3>1. data \in Seq(Byte)
      BY DataType
    <3> QED  BY <2>0, <3>1, AppendCorrect, ReadFdCorrect, PrependCorrect
  <2>2. ASSUME NEW len \in 0..readableBytes(b)
        PROVE  Content(retrieve(b, len)) = Rest(Content(b), len)
    <3>1. len \in Nat /\ len <= readableBytes(b)
      BY <2>0, ContentType
    <3> QED  BY <2>0, <3>1, RetrieveCorrect
  <2>3. Content(retrieveAll(b)) = <<>>
    BY <2>0, RetrieveAllCorrect
  <2> QED  BY <2>1, <2>2, <2>3 DEF ActsAsQueue
<1> QED  BY <1>1, BufferInvariant, PTL

-----------------------------------------------------------------------------
(* Logger.tla: for every buffer size, numeric size, width of integers and  *)
(* set of texts a log line stays within its buffer, and a short one is      *)
(* whole.                                                                  *)

Buffers == [cur : Nat, high : Nat, lost : Nat]

(* What every call of FixedBuffer keeps; the last conjunct carries the      *)
(* induction: nothing was left out as long as everything fits.              *)
BufferOK(f) ==
    /\ f \in Buffers
    /\ f.cur < SIZE /\ f.high <= SIZE
    /\ f.cur + f.lost + kMaxNumericSize <= SIZE => f.lost = 0

LoggerInv ==
    /\ BufferOK(buffer)
    /\ stamp = second
    /\ timeText = lastSecond

(* A new buffer has room for the first text.                                *)
LEMMA EmptyOK == BufferOK(EmptyBuffer)
  BY LoggerAssumption DEF BufferOK, Buffers, EmptyBuffer, TimeLen, UsLen, TidLen, LevelLen

(* FixedBuffer::append() keeps the buffer in order for a text of any        *)
(* length, because it wants strictly more room than it uses.                *)
LEMMA AppendOK ==
    ASSUME NEW f, BufferOK(f), NEW len \in Nat
    PROVE  BufferOK(appendText(f, len))
<1>1. /\ f.cur \in Nat /\ f.high \in Nat /\ f.lost \in Nat
      /\ f.cur < SIZE /\ f.high <= SIZE
      /\ f.cur + f.lost + kMaxNumericSize <= SIZE => f.lost = 0
  BY DEF BufferOK, Buffers
<1>2. SIZE \in Nat /\ kMaxNumericSize \in Nat /\ kMaxNumericSize >= 1
  BY LoggerAssumption
<1>3. CASE avail(f) > len
  <2>0. f.cur \in Nat /\ f.high \in Nat /\ f.high <= SIZE BY <1>1
  <2>1. f.cur + len < SIZE BY <2>0, <1>2, <1>3 DEF avail
  <2>2. Higher(f.high, f.cur + len) \in Nat /\ Higher(f.high, f.cur + len) <= SIZE
    <3>1. Higher(f.high, f.cur + len) \in {f.high, f.cur + len}
      BY Zenon DEF Higher
    <3> QED BY <2>0, <1>2, <2>1, <3>1
  <2>3. appendText(f, len) = [cur |-> f.cur + len, high |-> Higher(f.high, f.cur + len),
                              lost |-> f.lost]
    <3>1. appendText(f, len) = Add(f, len, f.cur + len) BY <1>3, Zenon DEF appendText
    <3> QED BY <3>1, Zenon DEF Add
  <2>4. f.cur + len + f.lost + kMaxNumericSize <= SIZE => f.lost = 0 BY <1>1, <1>2
  <2> QED BY <1>1, <2>1, <2>2, <2>3, <2>4 DEF BufferOK, Buffers
<1>4. CASE ~(avail(f) > len)
  <2>1. appendText(f, len) = [cur |-> f.cur, high |-> f.high, lost |-> f.lost + len]
    <3>1. appendText(f, len) = Leave(f, len) BY <1>4, Zenon DEF appendText
    <3> QED BY <3>1, Zenon DEF Leave
  <2>2. f.cur + (f.lost + len) + kMaxNumericSize <= SIZE => f.lost + len = 0
    <3>1. f.cur \in Nat /\ f.lost \in Nat BY <1>1
    <3>a. ~(SIZE - f.cur > len) BY <1>4, Zenon DEF avail
    <3>2. f.cur + len >= SIZE BY <1>2, <3>a, <3>1
    <3> QED BY <1>2, <3>1, <3>2
  <2> QED BY <1>1, <2>1, <2>2 DEF BufferOK, Buffers
<1> QED BY <1>3, <1>4

(* In-place formatting keeps it in order because a number and its zero are  *)
(* shorter than kMaxNumericSize.                                            *)
LEMMA AppendNumberOK ==
    ASSUME NEW f, BufferOK(f), NEW len \in 1..(kMaxNumericSize - 1)
    PROVE  BufferOK(appendNumber(f, len))
<1>1. /\ f.cur \in Nat /\ f.high \in Nat /\ f.lost \in Nat
      /\ f.cur < SIZE /\ f.high <= SIZE
      /\ f.cur + f.lost + kMaxNumericSize <= SIZE => f.lost = 0
  BY DEF BufferOK, Buffers
<1>2. /\ SIZE \in Nat /\ kMaxNumericSize \in Nat
      /\ len \in Nat /\ len + 1 <= kMaxNumericSize
  BY LoggerAssumption
<1>3. CASE avail(f) >= kMaxNumericSize
  <2>1. SIZE - f.cur >= kMaxNumericSize BY <1>3, Zenon DEF avail
  <2>2. f.cur + len < SIZE /\ f.cur + len + 1 <= SIZE BY <1>1, <1>2, <2>1
  <2>3. /\ Higher(f.high, f.cur + len + 1) \in {f.high, f.cur + len + 1}
    BY Zenon DEF Higher
  <2>4. appendNumber(f, len) = [cur |-> f.cur + len,
                                high |-> Higher(f.high, f.cur + len + 1), lost |-> f.lost]
    BY <1>3, Zenon DEF appendNumber, Add
  <2>5. f.cur + len + f.lost + kMaxNumericSize <= SIZE => f.lost = 0 BY <1>1, <1>2
  <2> QED BY <1>1, <1>2, <2>2, <2>3, <2>4, <2>5 DEF BufferOK, Buffers
<1>4. CASE ~(avail(f) >= kMaxNumericSize)
  <2>1. ~(SIZE - f.cur >= kMaxNumericSize) BY <1>4, Zenon DEF avail
  <2>2. appendNumber(f, len) = [cur |-> f.cur, high |-> f.high, lost |-> f.lost + len]
    BY <1>4, Zenon DEF appendNumber, Leave
  <2>3. ~(f.cur + (f.lost + len) + kMaxNumericSize <= SIZE) BY <1>1, <1>2, <2>1
  <2> QED BY <1>1, <1>2, <2>2, <2>3 DEF BufferOK, Buffers
<1> QED BY <1>3, <1>4

(* The line Impl's constructor starts is in order.                          *)
LEMMA LineHeadOK ==
    ASSUME NEW err \in Integer, NEW n \in Nat
    PROVE  BufferOK(LineHead(err, n))
<1> DEFINE b1 == appendText(EmptyBuffer, TimeLen)
           b2 == appendText(b1, UsLen)
           b3 == appendText(b2, TidLen)
           head == appendText(b3, LevelLen)
           c1 == appendText(head, n)
           c2 == appendText(c1, 8)
           c3 == appendNumber(c2, Len(convert(err)))
<1> HIDE DEF b1, b2, b3, head, c1, c2, c3
<1>1. BufferOK(b1) BY EmptyOK, AppendOK DEF b1, TimeLen
<1>2. BufferOK(b2) BY <1>1, AppendOK DEF b2, UsLen
<1>3. BufferOK(b3) BY <1>2, AppendOK DEF b3, TidLen
<1>4. BufferOK(head) BY <1>3, AppendOK DEF head, LevelLen
<1>5. BufferOK(c1) BY <1>4, AppendOK DEF c1
<1>6. BufferOK(c2) BY <1>5, AppendOK DEF c2
<1>7. BufferOK(c3) BY <1>6, AppendNumberOK, StaticCheck DEF c3
<1>8. BufferOK(appendText(c3, 2)) BY <1>7, AppendOK
<1>9. LineHead(err, n) = head \/ LineHead(err, n) = appendText(c3, 2)
  BY DEF LineHead, head, b1, b2, b3, c1, c2, c3
<1> QED BY <1>4, <1>8, <1>9

(* The line as finish() leaves it is in order.                              *)
LEMMA LineTailOK ==
    ASSUME NEW f, BufferOK(f), NEW n \in Nat, NEW line \in Integer
    PROVE  BufferOK(LineTail(f, n, line))
<1> DEFINE c1 == appendText(f, 3)
           c2 == appendText(c1, n)
           c3 == appendText(c2, 1)
           c4 == appendNumber(c3, Len(convert(line)))
<1> HIDE DEF c1, c2, c3, c4
<1>1. BufferOK(c1) BY AppendOK DEF c1
<1>2. BufferOK(c2) BY <1>1, AppendOK DEF c2
<1>3. BufferOK(c3) BY <1>2, AppendOK DEF c3
<1>4. BufferOK(c4) BY <1>3, AppendNumberOK, StaticCheck DEF c4
<1>5. BufferOK(appendText(c4, 1)) BY <1>4, AppendOK
<1> QED BY <1>5 DEF LineTail, c1, c2, c3, c4

-----------------------------------------------------------------------------
(* The numbers a statement prints are integers of the width in question.    *)
LEMMA NumbersAreIntegers == Numbers \subseteq Integer
  BY DEF Numbers

(* Each step keeps the invariant.                                           *)
LEMMA LoggerStep == LoggerInv /\ [LoggerNext]_vars => LoggerInv'
<1> SUFFICES ASSUME LoggerInv, [LoggerNext]_vars PROVE LoggerInv'
  OBVIOUS
<1> USE DEF LoggerInv
<1>1. ASSUME NEW l, SetLogLevel(l) PROVE LoggerInv'
  BY <1>1 DEF SetLogLevel
<1>2. ASSUME NEW s \in 1..8, NEW now, NEW err \in Numbers \cap Nat, NEW n \in TextLens,
             NewLogger(s, now, err, n)
      PROVE  LoggerInv'
  <2>1. n \in Nat /\ err \in Integer BY LoggerAssumption, NumbersAreIntegers
  <2>2. BufferOK(LineHead(err, n)) BY <2>1, LineHeadOK
  <2>3. BufferOK(appendText(appendText(LineHead(err, n), n), 1)) BY <2>1, <2>2, AppendOK
  <2>4. BufferOK(buffer') BY <1>2, <2>2, <2>3 DEF NewLogger
  <2>5. stamp' = second' /\ timeText' = lastSecond' BY <1>2 DEF NewLogger, FormatTime
  <2> QED BY <2>4, <2>5
<1>3. ASSUME NEW f, BufferOK(f), Stream(f) PROVE LoggerInv'
  BY <1>3 DEF Stream
<1>4. ASSUME NEW n \in TextLens, StreamText(n) PROVE LoggerInv'
  <2>1. BufferOK(appendText(buffer, n)) BY LoggerAssumption, AppendOK
  <2> QED BY <1>3, <1>4, <2>1 DEF StreamText
<1>5. ASSUME NEW v \in Numbers, StreamInteger(v) PROVE LoggerInv'
  <2>1. Len(convert(v)) \in 1..(kMaxNumericSize - 1) BY StaticCheck, NumbersAreIntegers
  <2>2. BufferOK(appendNumber(buffer, Len(convert(v)))) BY <2>1, AppendNumberOK
  <2> QED BY <1>3, <1>5, <2>2 DEF StreamInteger
<1>6. ASSUME NEW v \in Numbers \cap Nat, StreamPointer(v) PROVE LoggerInv'
  <2>1. Len(convertHex(v)) + 2 \in 1..(kMaxNumericSize - 1)
    BY StaticCheck, NumbersAreIntegers
  <2>2. BufferOK(appendNumber(buffer, Len(convertHex(v)) + 2)) BY <2>1, AppendNumberOK
  <2> QED BY <1>3, <1>6, <2>2 DEF StreamPointer
<1>7. ASSUME NEW n \in DoubleLens, StreamDouble(n) PROVE LoggerInv'
  <2>1. BufferOK(appendNumber(buffer, n)) BY LoggerAssumption, AppendNumberOK
  <2> QED BY <1>3, <1>7, <2>1 DEF StreamDouble
<1>8. ASSUME NEW n \in TextLens, NEW line \in Numbers \cap Nat, EndLogger(n, line)
      PROVE  LoggerInv'
  <2>1. n \in Nat /\ line \in Integer BY LoggerAssumption, NumbersAreIntegers
  <2>2. BufferOK(LineTail(buffer, n, line)) BY <2>1, LineTailOK
  <2> QED BY <1>8, <2>2 DEF EndLogger
<1>9. CASE UNCHANGED vars
  BY <1>9 DEF vars
<1> QED BY <1>1, <1>2, <1>4, <1>5, <1>6, <1>7, <1>8, <1>9 DEF LoggerNext

(* The invariant holds from the start.                                      *)
LEMMA LoggerInvariant == LoggerSpec => []LoggerInv
<1>1. LoggerInit => LoggerInv BY EmptyOK DEF LoggerInit, LoggerInv
<1> QED BY <1>1, LoggerStep, PTL DEF LoggerSpec

(* No text, number or terminating zero is written behind a log line's       *)
(* buffer, whatever is logged.                                              *)
THEOREM WithinBufferHolds == LoggerSpec => []WithinBuffer
<1>1. LoggerInv => WithinBuffer BY DEF LoggerInv, BufferOK, WithinBuffer
<1> QED BY <1>1, LoggerInvariant, PTL

(* Every line carries its own second, and loses nothing while it stays      *)
(* kMaxNumericSize short of the buffer.                                     *)
THEOREM LineFaithfulHolds == LoggerSpec => []LineFaithful
<1>1. LoggerInv => LineFaithful BY DEF LoggerInv, BufferOK, LineFaithful
<1> QED BY <1>1, LoggerInvariant, PTL

=============================================================================
