------------------------------ MODULE Buffers ------------------------------
(***************************************************************************)
(* The buffers of multi-frame transfers (libuavcan: TransferBufferManager  *)
(* and its entries, lists of blocks in the node's memory pool), and        *)
(* StaticTransferBuffer, which keeps the bytes in one piece and shows what *)
(* a buffer is to do.  A transfer is written in order, and what is written *)
(* may be written again.                                                   *)
(***************************************************************************)
EXTENDS Integers, Sequences, SequencesExt

CONSTANTS
  BufferKeys,
  BlockSize,   \* Block::Size
  MaxSize,     \* max_size_ of a buffer
  PoolBlocks,  \* blocks of the pool; an entry takes one, too
  MaxLen,      \* bound on the bytes written at once
  Byte,        \* the bytes
  None

VARIABLES
  buffers,  \* of every key: its entry, with its blocks and max_write_pos_, or None
  static,   \* of every key: what a StaticTransferBuffer has after the same writes
  memory    \* blocks left in the pool

buffersVars == <<buffers, static, memory>>

BuffersInit ==
  /\ buffers = [k \in BufferKeys |-> None]
  /\ static = [k \in BufferKeys |-> <<>>]
  /\ memory = PoolBlocks

Max2(m, n) == IF m > n THEN m ELSE n
Fresh == [i \in 1..BlockSize |-> 0]

\* The length that fits, of len from offset.
Fitting(offset, len, size) ==
  IF offset >= size THEN 0 ELSE IF offset + len > size THEN size - offset ELSE len

-----------------------------------------------------------------------------
\* Block::write and Block::read, a byte at a time.  s: the block's data, what was copied
\* so far, total_offset, and what is left.
BlockWrite(block, data, offset, total, left) ==
  FoldLeft(LAMBDA s, i :
             IF s.left = 0 THEN s
             ELSE IF s.total < offset THEN [s EXCEPT !.total = @ + 1]
             ELSE [s EXCEPT !.block[i] = data[Len(data) - s.left + 1], !.total = @ + 1, !.left = @ - 1],
           [block |-> block, total |-> total, left |-> left], [i \in 1..BlockSize |-> i])

BlockRead(block, offset, total, left, out) ==
  FoldLeft(LAMBDA s, i :
             IF s.left = 0 THEN s
             ELSE IF s.total < offset THEN [s EXCEPT !.total = @ + 1]
             ELSE [s EXCEPT !.out = Append(@, block[i]), !.total = @ + 1, !.left = @ - 1],
           [out |-> out, total |-> total, left |-> left], [i \in 1..BlockSize |-> i])

\* TransferBufferManagerEntry::read
read(e, offset, len) ==
  FoldLeft(LAMBDA s, b : BlockRead(b, offset, s.total, s.left, s.out),
           [out |-> <<>>, total |-> 0, left |-> Fitting(offset, len, e.pos)], e.blocks).out

\* The loop of TransferBufferManagerEntry::write over the blocks there are.
Overwrite(e, offset, data) ==
  FoldLeft(LAMBDA s, b :
             LET w == BlockWrite(b, data, offset, s.total, s.left)
             IN [blocks |-> Append(s.blocks, w.block), total |-> w.total, left |-> w.left],
           [blocks |-> <<>>, total |-> 0, left |-> Len(data)], e.blocks)

\* The loop over new blocks, until all is written or memory is out.
RECURSIVE AppendFromStart(_, _, _, _)
AppendFromStart(s, offset, data, mem) ==
  IF s.left = 0 \/ mem = 0 THEN s
  ELSE LET w == BlockWrite(Fresh, data, offset, 0, s.left)
       IN AppendFromStart([blocks |-> Append(s.blocks, w.block), total |-> w.total, left |-> w.left],
                          offset, data, mem - 1)

RECURSIVE AppendBlocks(_, _, _, _)
AppendBlocks(s, offset, data, mem) ==
  IF s.left = 0 \/ mem = 0 THEN s
  ELSE LET w == BlockWrite(Fresh, data, offset, s.total, s.left)
       IN AppendBlocks([blocks |-> Append(s.blocks, w.block), total |-> w.total, left |-> w.left],
                       offset, data, mem - 1)

\* StaticTransferBufferImpl::write and read.
staticWrite(b, offset, data) ==
  [i \in 1..Max2(Len(b), offset + Len(data)) |->
     IF i \in offset + 1..offset + Len(data) THEN data[i - offset] ELSE b[i]]

staticRead(b, offset, len) == SubSeq(b, offset + 1, offset + Fitting(offset, len, Len(b)))

\* TransferBufferManagerEntry::write; the static buffer is given what could be written.
Write(k, offset, all) ==
  LET e == buffers[k]
      data == SubSeq(all, 1, Fitting(offset, Len(all), MaxSize))
      s == AppendBlocks(Overwrite(e, offset, data), offset, data, memory)
      written == Len(data) - s.left
  IN /\ e # None /\ offset <= e.pos
     /\ buffers' = [buffers EXCEPT ![k] = [blocks |-> s.blocks, pos |-> Max2(offset + written, e.pos)]]
     /\ memory' = memory - (Len(s.blocks) - Len(e.blocks))
     /\ static' = [static EXCEPT ![k] = staticWrite(@, offset, SubSeq(data, 1, written))]

-----------------------------------------------------------------------------
\* reset and the destructor of an entry: its blocks, and its own.
Returned(e) == IF e = None THEN 0 ELSE Len(e.blocks) + 1

\* TransferBufferManager::remove and create, which removes first.
RemoveBuffer(k) ==
  /\ buffers' = [buffers EXCEPT ![k] = None]
  /\ static' = [static EXCEPT ![k] = <<>>]
  /\ memory' = memory + Returned(buffers[k])

Create(k) ==
  LET mem == memory + Returned(buffers[k])
  IN /\ buffers' = [buffers EXCEPT ![k] = IF mem = 0 THEN None ELSE [blocks |-> <<>>, pos |-> 0]]
     /\ static' = [static EXCEPT ![k] = <<>>]
     /\ memory' = IF mem = 0 THEN 0 ELSE mem - 1

BuffersNext ==
  \E k \in BufferKeys :
    \/ Create(k) \/ RemoveBuffer(k)
    \/ \E len \in 1..MaxLen : \E data \in [1..len -> Byte], offset \in 0..MaxSize : Write(k, offset, data)

BuffersSpec == BuffersInit /\ [][BuffersNext]_buffersVars

-----------------------------------------------------------------------------
\* The buffer in blocks reads back what the buffer in one piece does, at every offset and
\* length, whatever was written over and whenever memory ran out.
ReadsAsStatic ==
  \A k \in BufferKeys : buffers[k] # None =>
    \A offset \in 0..MaxSize, len \in 1..MaxSize :
      read(buffers[k], offset, len) = staticRead(static[k], offset, len)
=============================================================================
