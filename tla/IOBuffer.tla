----------------------------- MODULE IOBuffer -----------------------------
(***************************************************************************)
(* lt::net::IOBuffer: bytes between read_index and write_index of data, a  *)
(* vector indexed from 0 as in the code.  Bytes are naturals.              *)
(***************************************************************************)
EXTENDS Naturals, Sequences

NewBuffer(n) == [data |-> [i \in 0..n - 1 |-> 0], size |-> n, read_index |-> 0, write_index |-> 0]

\* A buffer of bytes of B: the read index never passes the write index, nor this the end.
IsIOBuffer(b, B) ==
  /\ b = [data |-> b.data, size |-> b.size, read_index |-> b.read_index, write_index |-> b.write_index]
  /\ b.size \in Nat /\ b.data \in [0..b.size - 1 -> B]
  /\ b.write_index \in 0..b.size /\ b.read_index \in 0..b.write_index

CanReadSize(b) == b.write_index - b.read_index
CanWriteSize(b) == b.size - b.write_index

\* What AsString returns
Content(b) == [i \in 1..CanReadSize(b) |-> b.data[b.read_index + i - 1]]

\* Mutant: the indices move and the bytes stay.
CompactedIndices(b) == [b EXCEPT !.read_index = 0, !.write_index = CanReadSize(b)]

\* std::copy of the content to the front of data
Compacted(b) ==
  [data |-> [i \in 0..b.size - 1 |-> IF i < CanReadSize(b) THEN b.data[b.read_index + i] ELSE b.data[i]],
   size |-> b.size, read_index |-> 0, write_index |-> CanReadSize(b)]

\* data_.resize(write_index_ + len)
Resized(b, len) ==
  [data |-> [i \in 0..b.write_index + len - 1 |-> IF i < b.size THEN b.data[i] ELSE 0],
   size |-> b.write_index + len, read_index |-> b.read_index, write_index |-> b.write_index]

EnsureWritableSize(b, len) ==
  IF CanWriteSize(b) >= len THEN b
  ELSE IF CanWriteSize(b) + b.read_index >= len THEN Compacted(b)
  ELSE Resized(b, len)

\* The bytes s put at GetWrite(), and Produce: there is room for them.
Put(b, s) ==
  [data |-> [i \in 0..b.size - 1 |-> IF i \in b.write_index..b.write_index + Len(s) - 1
                                     THEN s[i - b.write_index + 1] ELSE b.data[i]],
   size |-> b.size, read_index |-> b.read_index, write_index |-> b.write_index + Len(s)]

WriteRawData(b, s) == Put(EnsureWritableSize(b, Len(s)), s)

Consume(b, len) ==
  LET read == b.read_index + (IF len <= CanReadSize(b) THEN len ELSE CanReadSize(b))
  IN  [data |-> b.data, size |-> b.size,
       read_index |-> IF read = b.write_index THEN 0 ELSE read,
       write_index |-> IF read = b.write_index THEN 0 ELSE b.write_index]
=============================================================================
