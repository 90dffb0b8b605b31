------------------------------- MODULE Buffer -------------------------------
(***************************************************************************)
(* net/Buffer.{h,cc}: a growing array of bytes with a reader and a writer  *)
(* index,                                                                  *)
(*                                                                         *)
(*     | prependable | readable | writable |                               *)
(*     0         readerIndex_  writerIndex_  buffer_.size()                *)
(*                                                                         *)
(* The buffer is a record; cell k of the code is buffer[k + 1] here.       *)
(* shrink() is left out: it resets neither index (see README).             *)
(***************************************************************************)
EXTENDS Naturals, Sequences

CONSTANTS
    Byte,            \* the values of a cell
    Zero,            \* the value of a fresh cell
    kCheapPrepend,
    kInitialSize,
    ExtraBuf,        \* sizeof extrabuf in readFd()
    MaxData,         \* bound: bytes passed to one call
    MaxSize          \* bound: buffer_.size() after a call

ASSUME ByteAssumption == Zero \in Byte
ASSUME SizeAssumption ==
    /\ kCheapPrepend \in Nat /\ kInitialSize \in Nat
    /\ ExtraBuf \in Nat /\ MaxData \in Nat /\ MaxSize \in Nat

VARIABLE b      \* [buffer, readerIndex, writerIndex]

-----------------------------------------------------------------------------
(* The member functions, on a buffer b. *)

NewBuffer == [buffer |-> [i \in 1..(kCheapPrepend + kInitialSize) |-> Zero],
              readerIndex |-> kCheapPrepend,
              writerIndex |-> kCheapPrepend]

readableBytes(x) == x.writerIndex - x.readerIndex
writableBytes(x) == Len(x.buffer) - x.writerIndex
prependableBytes(x) == x.readerIndex

(* peek() .. beginWrite() *)
Content(x) == [i \in 1..readableBytes(x) |-> x.buffer[x.readerIndex + i]]

(* std::copy(data, data + n, begin() + at) *)
CopyTo(buffer, at, data) ==
    [i \in 1..Len(buffer) |->
        IF at < i /\ i <= at + Len(data) THEN data[i - at] ELSE buffer[i]]

(* buffer_.resize(n), n at least the old size *)
Resized(buffer, n) ==
    [i \in 1..n |-> IF i <= Len(buffer) THEN buffer[i] ELSE Zero]

retrieve(x, len) == [x EXCEPT !.readerIndex = @ + len]

retrieveAll(x) == [x EXCEPT !.readerIndex = kCheapPrepend,
                            !.writerIndex = kCheapPrepend]

(* Mutant: the indices are moved to the front, the readable bytes are not. *)
makeSpaceWithoutCopy(x, len) ==
    IF writableBytes(x) + prependableBytes(x) < len + kCheapPrepend
    THEN [x EXCEPT !.buffer = Resized(@, x.writerIndex + len)]
    ELSE [x EXCEPT !.readerIndex = kCheapPrepend,
                   !.writerIndex = kCheapPrepend + readableBytes(x)]

(* Grow, or move the readable bytes to the front. *)
makeSpace(x, len) ==
    IF writableBytes(x) + prependableBytes(x) < len + kCheapPrepend
    THEN [x EXCEPT !.buffer = Resized(@, x.writerIndex + len)]
    ELSE [buffer |-> CopyTo(x.buffer, kCheapPrepend, Content(x)),
          readerIndex |-> kCheapPrepend,
          writerIndex |-> kCheapPrepend + readableBytes(x)]

ensureWritableBytes(x, len) ==
    IF writableBytes(x) < len THEN makeSpace(x, len) ELSE x

(* The copy to beginWrite() and hasWritten(). *)
write(x, data) == [x EXCEPT !.buffer = CopyTo(@, x.writerIndex, data),
                            !.writerIndex = @ + Len(data)]

append(x, data) == write(ensureWritableBytes(x, Len(data)), data)

prepend(x, data) ==
    [x EXCEPT !.readerIndex = @ - Len(data),
              !.buffer = CopyTo(@, x.readerIndex - Len(data), data)]

First(data, n) == [i \in 1..n |-> data[i]]
Rest(data, n) == [i \in 1..(Len(data) - n) |-> data[n + i]]

(* readv() into the writable space and then into extrabuf. *)
readFd(x, data) ==
    LET writable == writableBytes(x)
    IN  IF Len(data) <= writable
        THEN write(x, data)
        ELSE append(write(x, First(data, writable)), Rest(data, writable))

-----------------------------------------------------------------------------
(* The calls, with the conditions their callers have to meet. *)
Init == b = NewBuffer

Data == UNION {[1..n -> Byte] : n \in 0..MaxData}

Bounded(x) == Len(x.buffer) <= MaxSize

Append_(data) == b' = append(b, data) /\ Bounded(b')

(* Mutant: retrieve() of more than there is. *)
RetrieveUnchecked(len) == b' = retrieve(b, len)
Retrieve(len) == len <= readableBytes(b) /\ b' = retrieve(b, len)

RetrieveAll == b' = retrieveAll(b)

Prepend(data) == Len(data) <= prependableBytes(b) /\ b' = prepend(b, data)

ReadFd(data) ==
    Len(data) <= writableBytes(b) + ExtraBuf /\ b' = readFd(b, data) /\ Bounded(b')

Next ==
    \/ \E data \in Data : Append_(data) \/ Prepend(data) \/ ReadFd(data)
    \/ \E len \in 0..MaxSize : Retrieve(len)
    \/ RetrieveAll

Spec == Init /\ [][Next]_b

-----------------------------------------------------------------------------
(* Properties. *)
(* The indices never cross and never leave the vector, so that no size_t   *)
(* difference wraps around, and the vector never gets smaller than at      *)
(* first.                                                                  *)
IndicesOrdered ==
    /\ b.readerIndex <= b.writerIndex
    /\ b.writerIndex <= Len(b.buffer)
    /\ kCheapPrepend + kInitialSize <= Len(b.buffer)

(* The type of the buffer, its indices in order.                           *)
TypeOK ==
    /\ b \in [buffer : Seq(Byte), readerIndex : Nat, writerIndex : Nat]
    /\ IndicesOrdered

(* The assertions of ensureWritableBytes() and makeSpace() hold whatever   *)
(* the next append() asks for: space is made, and bytes are only moved     *)
(* towards the front, which is what the overlapping std::copy needs.       *)
MakeSpaceAssertions ==
    \A len \in 0..MaxData :
        LET x == ensureWritableBytes(b, len) IN
        /\ writableBytes(x) >= len
        /\ x.readerIndex # b.readerIndex => kCheapPrepend < b.readerIndex

(* However the bytes are moved and the vector is resized, what is read is  *)
(* what was written, in order: in every reachable buffer each call acts on *)
(* the readable bytes as on a queue.                                       *)
ActsAsQueue ==
    /\ \A data \in Data :
          /\ Content(append(b, data)) = Content(b) \o data
          /\ Len(data) <= writableBytes(b) + ExtraBuf =>
                Content(readFd(b, data)) = Content(b) \o data
          /\ Len(data) <= prependableBytes(b) =>
                Content(prepend(b, data)) = data \o Content(b)
    /\ \A len \in 0..readableBytes(b) :
          Content(retrieve(b, len)) = Rest(Content(b), len)
    /\ Content(retrieveAll(b)) = <<>>
=============================================================================
