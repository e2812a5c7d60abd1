----------------------------- MODULE RaidBlocks -----------------------------
(***************************************************************************)
(* The upload and download of one block over several stores: the block     *)
(* component (memory/block.py, postgresql/block.py) and the RAID 0, 1 and  *)
(* 5 block stores (raid0_blockstore.py, raid1_..., raid5_...).             *)
(*                                                                         *)
(* The stores of an operation are used concurrently and any of them may be *)
(* unreachable.  The bytes of the block are bits and the length that       *)
(* RAID 5 puts before them takes HeaderLen bits instead of four bytes; the *)
(* pieces and the checksum are computed as in the code.                    *)
(***************************************************************************)
EXTENDS Integers, Sequences, SequencesExt, FiniteSets, FiniteSetsExt

CONSTANTS N,              \* the number of stores
          Configurations, \* the layouts, and kinds of store, to explore
          MaxBlockLen     \* bound on the length of the block

ASSUME RaidAssumption ==
  /\ N \in Nat /\ N >= 3 /\ MaxBlockLen \in 1..3
  /\ Configurations \subseteq
       {"RAID0", "RAID1", "RAID5"} \X {"MOCKED", "POSTGRESQL", "S3", "SWIFT"}

Nodes == 1..N
Bits == {0, 1}
HeaderLen == 2
NoPiece == <<-1>>  \* no piece is stored

VARIABLES layout,   \* how the stores are combined (never changes)
          store,    \* the kind of all of the stores (never changes)
          payload,  \* the content of the block (never changes)
          pieces,   \* what each store holds
          up,       \* the stores that can be reached
          open,     \* whether the author has access and the realm is not in maintenance
          meta,     \* whether the block is known to the block component
          creation, \* the request to create the block
          told,     \* whether a client was told that the block is there
          download, \* the request to read the block
          outcome   \* how the last read ended

raidVars == <<layout, store, payload, pieces, up, open, meta, creation, told, download, outcome>>

-----------------------------------------------------------------------------
(* Pieces of a block in RAID 5 *)

XorBuffers(buffers) ==
  [i \in DOMAIN buffers[1] |->
     FoldLeft(LAMBDA acc, buffer : (acc + buffer[i]) % 2, 0, buffers)]

\* The length as two bits, the block, and null bits up to a multiple of nb.
SplitBlockInChunks(block, nb) ==
  LET size     == Len(block) + HeaderLen
      chunkLen == (size + nb - 1) \div nb
      full     == <<Len(block) \div 2, Len(block) % 2>> \o block
                    \o [i \in 1..(chunkLen * nb - size) |-> 0]
  IN  [i \in 1..nb |-> SubSeq(full, chunkLen * (i - 1) + 1, chunkLen * i)]

GenerateChecksumChunk(chunks) == XorBuffers(chunks)

\* The block from its pieces, at most one of which is missing (None).
RebuildBlockFromChunks(chunks, checksum) ==
  LET valid == SelectSeq(chunks, LAMBDA c : c # NoPiece)
      all   == FlattenSeq([i \in DOMAIN chunks |->
                 IF chunks[i] = NoPiece THEN XorBuffers(Append(valid, checksum)) ELSE chunks[i]])
  IN  SubSeq(all, HeaderLen + 1, HeaderLen + 2 * all[1] + all[2])

\* What the store n is given: the whole block, or a piece, the last being the checksum.
Raid5Piece(n) ==
  LET chunks == SplitBlockInChunks(payload, N - 1)
  IN  IF n = N THEN GenerateChecksumChunk(chunks) ELSE chunks[n]

Piece(n) == IF layout = "RAID5" THEN Raid5Piece(n) ELSE payload

\* RAID 0 uses one store, chosen by the id of the block.
Raid0Node == CHOOSE n \in Nodes : TRUE

CreatedOn == IF layout = "RAID0" THEN {Raid0Node} ELSE Nodes

-----------------------------------------------------------------------------

Idle0 == [on |-> FALSE, left |-> {}, errors |-> 0]
NoRead == [on |-> FALSE, left |-> {}, got |-> [n \in Nodes |-> "none"], timeouts |-> 0]
Unread == [kind |-> "unread", value |-> <<>>, timeouts |-> 0]

RaidInit ==
  /\ \E c \in Configurations : layout = c[1] /\ store = c[2]
  /\ payload \in UNION {[1..k -> Bits] : k \in 1..MaxBlockLen}
  /\ pieces = [n \in Nodes |-> NoPiece]
  /\ up = Nodes /\ open = TRUE /\ meta = FALSE /\ told = FALSE
  /\ creation = Idle0 /\ download = NoRead /\ outcome = Unread

\* A store becomes unreachable, or is back.
StoreFails(n) ==
  /\ up' = (up \ {n}) \cup ({n} \ up)
  /\ UNCHANGED <<layout, store, payload, pieces, open, meta, creation, told, download, outcome>>

\* Roles and maintenance of the realm, which the component checks first.
RealmAccess ==
  /\ open' = ~open
  /\ UNCHANGED <<layout, store, payload, pieces, up, meta, creation, told, download, outcome>>

-----------------------------------------------------------------------------
(* Upload *)

\* What a store does with a block that it has: PostgreSQL says nothing.  The
\* others keep it too, and say that it already exists.
MemoryCreate(have) == IF have = NoPiece THEN "created" ELSE "exists"
PGCreate(have) == "created"
S3Create(have) == IF have = NoPiece THEN "created" ELSE "exists"
SwiftCreate(have) == IF have = NoPiece THEN "created" ELSE "exists"

NodeCreate(n) ==
  CASE store = "MOCKED" -> MemoryCreate(pieces[n]) [] store = "POSTGRESQL" -> PGCreate(pieces[n])
    [] store = "S3" -> S3Create(pieces[n]) [] store = "SWIFT" -> SwiftCreate(pieces[n])

\* The stores ns that can be reached create the block.
Create(ns) ==
  [n \in Nodes |-> IF n \in ns \cap up /\ pieces[n] = NoPiece THEN Piece(n) ELSE pieces[n]]

\* The checks of the realm and of the rights; a block that is known already is
\* answered with already_exists, which the client takes for a success.
CreateStart ==
  /\ open /\ ~creation.on
  /\ IF meta THEN told' = TRUE /\ UNCHANGED creation
     ELSE creation' = [on |-> TRUE, left |-> CreatedOn, errors |-> 0] /\ UNCHANGED told
  /\ UNCHANGED <<layout, store, payload, pieces, up, open, meta, download, outcome>>

\* RAID 1 and 5 ignore that the block exists; RAID 0 answers already_exists, which
\* ends the request without the block being made known.
CreateOn(n) ==
  /\ creation.on /\ n \in creation.left /\ n \in up
  /\ pieces' = Create({n})
  /\ IF layout = "RAID0" /\ NodeCreate(n) = "exists"
     THEN creation' = Idle0 /\ told' = TRUE
     ELSE creation' = [creation EXCEPT !.left = @ \ {n}] /\ UNCHANGED told
  /\ UNCHANGED <<layout, store, payload, up, open, meta, download, outcome>>

\* The request ends; the stores that are still at work may finish or not.
Abandon ==
  /\ creation' = Idle0
  /\ \E ns \in SUBSET creation.left : pieces' = Create(ns)

TooManyErrorsTwo(errors) == layout # "RAID5" \/ errors > 2  \* mutant: off by one

\* RAID 5 puts up with one store that fails, the others with none.
TooManyErrors(errors) == layout # "RAID5" \/ errors > 1

CreateFails(n) ==
  /\ creation.on /\ n \in creation.left /\ n \notin up
  /\ IF TooManyErrors(creation.errors + 1) THEN Abandon
     ELSE /\ creation' = [creation EXCEPT !.left = @ \ {n}, !.errors = @ + 1]
          /\ UNCHANGED pieces
  /\ UNCHANGED <<layout, store, payload, up, open, meta, told, download, outcome>>

\* All of the stores have answered: the block is made known.
CreateEnd ==
  /\ creation.on /\ creation.left = {}
  /\ meta' = TRUE /\ told' = TRUE /\ creation' = Idle0
  /\ UNCHANGED <<layout, store, payload, pieces, up, open, download, outcome>>

\* The connection of the client is lost: its handler is cancelled.
CreateCancelled ==
  /\ creation.on
  /\ Abandon
  /\ UNCHANGED <<layout, store, payload, up, open, meta, told, download, outcome>>

-----------------------------------------------------------------------------
(* Download *)

ReadStart ==
  /\ open /\ meta /\ ~download.on
  /\ download' = [NoRead EXCEPT !.on = TRUE,
       !.left = IF layout = "RAID5" THEN Nodes \ {N} ELSE CreatedOn]
  /\ outcome' = Unread
  /\ UNCHANGED <<layout, store, payload, pieces, up, open, meta, creation, told>>

NodeRead(n) == IF n \notin up THEN "timeout" ELSE IF pieces[n] = NoPiece THEN "not_found" ELSE "bytes"

Ended(kind, value, timeouts) ==
  /\ outcome' = [kind |-> kind, value |-> value, timeouts |-> timeouts]
  /\ download' = NoRead

\* RAID 1: the first store that has the block ends the read.
Raid1ReadFrom(n) ==
  IF NodeRead(n) = "bytes" THEN Ended("ok", pieces[n], download.timeouts)
  ELSE /\ download' = [download EXCEPT !.left = @ \ {n},
                         !.timeouts = IF NodeRead(n) = "timeout" THEN @ + 1 ELSE @]
       /\ UNCHANGED outcome

\* RAID 5: the checksum is fetched when a store cannot be reached.
Raid5ReadFrom(n) ==
  LET timeouts == IF NodeRead(n) = "timeout" THEN download.timeouts + 1 ELSE download.timeouts
  IN  IF timeouts > 1 THEN Ended("timeout", <<>>, timeouts)
      ELSE /\ download' = [download EXCEPT
                !.got[n] = NodeRead(n), !.timeouts = timeouts,
                !.left = (@ \ {n}) \cup (IF NodeRead(n) = "timeout" THEN {N} ELSE {})]
           /\ UNCHANGED outcome

ReadFrom(n) ==
  /\ download.on /\ n \in download.left
  /\ CASE layout = "RAID0" -> Ended(IF NodeRead(n) = "bytes" THEN "ok" ELSE NodeRead(n),
                                    pieces[n], IF n \in up THEN 0 ELSE 1)
       [] layout = "RAID1" -> Raid1ReadFrom(n)
       [] layout = "RAID5" -> Raid5ReadFrom(n)
  /\ UNCHANGED <<layout, store, payload, pieces, up, open, meta, creation, told>>

\* The sanity checks of RAID 5, then the block from its pieces.
Raid5Result ==
  LET failed == {n \in Nodes : download.got[n] \in {"not_found", "timeout"}}
      sane   == Cardinality(failed) = download.timeouts
                  /\ (download.timeouts = 1 => download.got[N] = "bytes")
      chunks == [n \in 1..N - 1 |-> IF n \in failed THEN NoPiece ELSE pieces[n]]
  IN  IF sane THEN Ended("ok", RebuildBlockFromChunks(chunks, pieces[N]), download.timeouts)
      ELSE Ended("assertion", <<>>, download.timeouts)

ReadEnd ==
  /\ download.on /\ download.left = {}
  /\ IF layout = "RAID5" THEN Raid5Result ELSE Ended("not_found", <<>>, download.timeouts)
  /\ UNCHANGED <<layout, store, payload, pieces, up, open, meta, creation, told>>

RaidNext ==
  \/ RealmAccess \/ CreateStart \/ CreateEnd \/ CreateCancelled \/ ReadStart \/ ReadEnd
  \/ \E n \in Nodes : StoreFails(n) \/ CreateOn(n) \/ CreateFails(n) \/ ReadFrom(n)

RaidSpec == RaidInit /\ [][RaidNext]_raidVars

-----------------------------------------------------------------------------
(* Properties *)

RaidTypeOK ==
  /\ <<layout, store>> \in Configurations /\ up \subseteq Nodes /\ open \in BOOLEAN
  /\ meta \in BOOLEAN /\ told \in BOOLEAN
  /\ \A n \in Nodes : pieces[n] \in {NoPiece, Piece(n)}
  /\ creation.left \subseteq CreatedOn /\ creation.errors \in 0..1
  /\ download.left \subseteq Nodes /\ download.timeouts \in 0..N
  /\ outcome.kind \in {"unread", "ok", "not_found", "timeout", "assertion"}

\* A client is only told that its block is there when it is on all of the
\* stores, or on all but one in RAID 5, whatever was retried or cancelled.
AckedIsStored ==
  told => Cardinality({n \in CreatedOn : pieces[n] = NoPiece}) <= (IF layout = "RAID5" THEN 1 ELSE 0)

\* What is read is what was written, rebuilt from the checksum or not.
ReadIsWhatWasWritten == outcome.kind = "ok" => outcome.value = payload

\* A read of a block that is on all of its stores only fails because of stores
\* that cannot be reached: one in RAID 0, all in RAID 1, two in RAID 5.
FailsOnlyByTimeouts ==
  outcome.kind \notin {"unread", "ok"} /\ (\A n \in CreatedOn : pieces[n] # NoPiece) =>
    outcome.timeouts >= (CASE layout = "RAID0" -> 1 [] layout = "RAID1" -> N [] layout = "RAID5" -> 2)

\* A block that a client was told is there is known to the block component.
AckedIsKnown == told => meta

\* The assertions of the read of RAID 5: without a timeout every piece is found,
\* and after one timeout all of the others are.
RaidSanityChecksHold == outcome.kind # "assertion"

\* A block that was acknowledged is stored and known, is read as it was written, and a read
\* fails only when as many stores time out as the RAID mode cannot do without.
BlocksAreSafe ==
  /\ RaidTypeOK /\ AckedIsStored /\ ReadIsWhatWasWritten /\ FailsOnlyByTimeouts
  /\ AckedIsKnown
=============================================================================
