--------------------------- MODULE FileOperations ---------------------------
(***************************************************************************)
(* The chunks of a file (client/fs/workspacefs/file_operations.py).  A     *)
(* manifest holds, for each block of BlockSize bytes, the sequence of      *)
(* chunks that make it up; a chunk is the part start..stop-1 of a piece of *)
(* raw data, all in offsets of the file.  The first block is the number 0  *)
(* in the code and the index 1 here.                                       *)
(***************************************************************************)
EXTENDS Integers, Sequences, SequencesExt, FiniteSets, FiniteSetsExt

CONSTANT BlockSize

ASSUME BlockSizeAssumption == BlockSize \in Nat \ {0}

\* A new chunk; access tells whether it has been given a block access, which
\* is only made for a chunk that spans its raw data (evolve_as_block).
NewChunk(id, start, stop) ==
  [id |-> id, start |-> start, stop |-> stop,
   rawOffset |-> start, rawSize |-> stop - start, access |-> FALSE]

IsPseudoBlock(c) == c.start = c.rawOffset /\ c.stop = c.rawOffset + c.rawSize

IsBlock(c) == c.access /\ IsPseudoBlock(c)

ChunkIds(chunks) == {c.id : c \in Range(chunks)}

ManifestIds(m) == UNION {ChunkIds(m.blocks[b]) : b \in DOMAIN m.blocks}

GetChunks(m, block) ==
  IF block + 1 \in DOMAIN m.blocks THEN m.blocks[block + 1] ELSE <<>>

IsReshaped(m) ==
  \A b \in DOMAIN m.blocks : Len(m.blocks[b]) = 1 /\ IsBlock(m.blocks[b][1])

\* The chunks follow each other without a gap, block by block, up to the size.
AssertIntegrity(m) ==
  LET all == FlattenSeq(m.blocks) IN
  /\ \A b \in DOMAIN m.blocks :
       /\ m.blocks[b] # <<>>
       /\ m.blocks[b][1].start = (b - 1) * BlockSize
  /\ \A i \in DOMAIN all :
       /\ all[i].start = (IF i = 1 THEN 0 ELSE all[i - 1].stop)
       /\ all[i].start < all[i].stop
       /\ all[i].rawOffset <= all[i].start
       /\ all[i].stop <= all[i].rawOffset + all[i].rawSize
  /\ m.size = (IF all = <<>> THEN 0 ELSE Last(all).stop)

-----------------------------------------------------------------------------
(* Ranges of blocks and bisection *)

LocateRange(start, stop) ==
  LET first == start \div BlockSize
      last  == (stop - 1) \div BlockSize
  IN  [k \in 1..(last - first + 1) |->
         LET from == (first + k - 1) * BlockSize IN
         [block |-> first + k - 1,
          start |-> Max({start, from}),
          stop  |-> Min({stop, from + BlockSize})]]

\* The index of the chunk that holds start, and of the last one before stop.
ChunkBeforeStart(chunks, start) == Cardinality({i \in DOMAIN chunks : chunks[i].start <= start})
ChunkAfterStop(chunks, stop) == Cardinality({i \in DOMAIN chunks : chunks[i].start < stop})

-----------------------------------------------------------------------------
(* Read *)

BlockRead(chunks, size, start) ==
  LET stop == start + size
      read == SubSeq(chunks, ChunkBeforeStart(chunks, start), ChunkAfterStop(chunks, stop))
  IN  [i \in DOMAIN read |->
         [read[i] EXCEPT !.start = Max({@, start}), !.stop = Min({@, stop})]]

PrepareRead(m, size, offset) ==
  LET from   == Min({offset, m.size})
      length == Min({size, m.size - from})
      ranges == LocateRange(from, from + length)
  IN  FlattenSeq([k \in DOMAIN ranges |->
        BlockRead(GetChunks(m, ranges[k].block), ranges[k].stop - ranges[k].start, ranges[k].start)])

-----------------------------------------------------------------------------
(* Write *)

\* Mutant: a chunk that is still used in part is removed.
BlockWriteForgetsParts(chunks, size, start, new) ==
  IF chunks = <<>> THEN [chunks |-> <<new>>, removed |-> {}]
  ELSE
    LET stop   == start + size
        first  == ChunkBeforeStart(chunks, start)
        last   == ChunkAfterStop(chunks, stop)
        before == IF chunks[first].start < start
                  THEN <<[chunks[first] EXCEPT !.stop = start]>> ELSE <<>>
        after  == IF chunks[last].stop > stop
                  THEN <<[chunks[last] EXCEPT !.start = stop]>> ELSE <<>>
        result == SubSeq(chunks, 1, first - 1) \o before \o <<new>> \o after
                    \o SubSeq(chunks, last + 1, Len(chunks))
    IN  [chunks |-> result, removed |-> ChunkIds(SubSeq(chunks, first, last))]

BlockWrite(chunks, size, start, new) ==
  IF chunks = <<>> THEN [chunks |-> <<new>>, removed |-> {}]
  ELSE
    LET stop   == start + size
        first  == ChunkBeforeStart(chunks, start)
        last   == ChunkAfterStop(chunks, stop)
        before == IF chunks[first].start < start
                  THEN <<[chunks[first] EXCEPT !.stop = start]>> ELSE <<>>
        after  == IF chunks[last].stop > stop
                  THEN <<[chunks[last] EXCEPT !.start = stop]>> ELSE <<>>
        result == SubSeq(chunks, 1, first - 1) \o before \o <<new>> \o after
                    \o SubSeq(chunks, last + 1, Len(chunks))
    IN  [chunks |-> result, removed |-> ChunkIds(SubSeq(chunks, first, last)) \ ChunkIds(result)]

\* The new manifest, the chunks to write with their offsets in the content
\* (negative in the padding) and the ids that are no more in use.  The new
\* chunks take the ids from id on.
PrepareWrite(m, size, offset, id) ==
  LET padding == Max({0, offset - m.size})
      from    == offset - padding
      length  == size + padding
      ranges  == LocateRange(from, from + length)
      new(k)  == NewChunk(id + k - 1, ranges[k].start, ranges[k].stop)
      written == [k \in DOMAIN ranges |->
                    BlockWrite(GetChunks(m, ranges[k].block),
                               ranges[k].stop - ranges[k].start, ranges[k].start, new(k))]
      at(b)   == {k \in DOMAIN ranges : ranges[k].block + 1 = b}
      blocks  == [b \in 1..Max({Len(m.blocks), Last(ranges).block + 1}) |->
                    IF at(b) = {} THEN m.blocks[b]
                    ELSE written[CHOOSE k \in at(b) : TRUE].chunks]
  IN  [manifest |-> [m EXCEPT !.size = Max({@, from + length}), !.blocks = blocks,
                              !.needSync = TRUE],
       writes   |-> [k \in DOMAIN ranges |->
                       [chunk |-> new(k), offset |-> ranges[k].start - from - padding]],
       removed  |-> UNION {written[k].removed : k \in DOMAIN ranges}]

-----------------------------------------------------------------------------
(* Resize *)

PrepareTruncate(m, size) ==
  LET block  == size \div BlockSize
      chunks == m.blocks[block + 1]
      last   == ChunkAfterStop(chunks, size)
      kept   == IF size % BlockSize = 0 THEN <<>>
                ELSE <<Append(SubSeq(chunks, 1, last - 1), [chunks[last] EXCEPT !.stop = size])>>
      later  == {b \in DOMAIN m.blocks : b > block + 1}
  IN  [manifest |-> [m EXCEPT !.size = size, !.blocks = SubSeq(@, 1, block) \o kept,
                              !.needSync = TRUE],
       writes   |-> <<>>,
       removed  |-> (ChunkIds(chunks) \ ChunkIds(FlattenSeq(kept)))
                      \cup UNION {ChunkIds(m.blocks[b]) : b \in later}]

PrepareResize(m, size, id) ==
  IF size >= m.size THEN PrepareWrite(m, 0, size, id) ELSE PrepareTruncate(m, size)

-----------------------------------------------------------------------------
(* Reshape *)

\* The blocks that are not one block yet, and the chunk that each becomes:
\* itself if it spans its raw data, else a new one with the id given.
ToReshape(m) == {b \in DOMAIN m.blocks : ~(Len(m.blocks[b]) = 1 /\ IsBlock(m.blocks[b][1]))}

PrepareReshape(m, b, id) ==
  LET source == m.blocks[b]
      pseudo == Len(source) = 1 /\ IsPseudoBlock(source[1])
      target == IF pseudo THEN source[1]
                ELSE NewChunk(id, source[1].start, Last(source).stop)
  IN  [copied  |-> ~pseudo,
       chunk   |-> [target EXCEPT !.access = TRUE],
       removed |-> IF pseudo THEN {} ELSE ChunkIds(source)]

\* The data between start and stop, with null bytes before index 0.
PaddedData(data, start, stop) ==
  [i \in 1..(stop - start) |-> IF start + i <= 0 THEN 0 ELSE data[start + i]]
=============================================================================
