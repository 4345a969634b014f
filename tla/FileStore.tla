----------------------------- MODULE FileStore -----------------------------
(***************************************************************************)
(* How the block store keeps files (src/modules/localstorage/blockstore/   *)
(* blockstore.cc): store_file, load_file and remove_file on the directory  *)
(* unique/, which holds files and blocks side by side, each named by a     *)
(* digest.  The digest is assumed collision free: the digested bytes stand *)
(* for it.                                                                 *)
(*                                                                         *)
(* The threads of the RPC pool store files at the same time, step by step: *)
(* the test whether the file is there, the header opened, each block       *)
(* opened and written, the header closed.  Opening truncates.              *)
(***************************************************************************)
EXTENDS Naturals, Sequences, FiniteSets

CONSTANTS
  Workers,     \* threads that call store_file
  Files,       \* the contents clients store: sequences of bytes, 0 for NUL
  BlockSize,   \* _blocksize
  UintSize,    \* sizeof(uint): the bytes a header spends on the file's size
  UintLimit,   \* 2^32: a uint holds the size modulo this
  Trails,      \* what may follow the block buffer in memory, up to a NUL
  MaxStores    \* bound: calls that find the file not stored yet

ASSUME SizeAssumption ==
  /\ BlockSize \in Nat \ {0} /\ UintSize \in 1..BlockSize
  /\ UintLimit \in Nat \ {0} /\ MaxStores \in Nat

\* Contents are bytes; what follows the buffer ends before the first NUL.
Byte == 0..255
ASSUME ContentAssumption ==
  /\ Files \subseteq Seq(Byte)
  /\ Trails \subseteq Seq(Byte \ {0})

VARIABLES
  unique,      \* the files of unique/, by name
  job,         \* job[w]: the store_file worker w is in
  stores,      \* calls so far that found the file not stored
  stored,      \* history: files whose store_file returned true, not removed
  failed       \* history: files one of whose stores was cut short, or met a
               \* removal of the file, not removed since

vars == <<unique, job, stores, stored, failed>>

\* Between two calls.  In a call: the file, what comes next, the number of
\* blocks written, what follows the buffer in memory, and the files that
\* were removed while the call had them open.
NoJob == [at |-> "idle"]
Started(f, trail) == [at |-> "header", file |-> f, n |-> 0, trail |-> trail, lost |-> {}]

\* What a file of unique/ can be: the header of a stored file, with the whole
\* content or with the names of the blocks behind the size, or a block.
Inline(size, bytes) == [kind |-> "inline", size |-> size, bytes |-> bytes, ids |-> <<>>]
Index(size, ids)    == [kind |-> "index", size |-> size, bytes |-> <<>>, ids |-> ids]
Block(bytes)        == [kind |-> "block", size |-> 0, bytes |-> bytes, ids |-> <<>>]

filesize(f) == Len(f) % UintLimit

\* Mutation: the incomplete block at the end is forgotten.
blocksFloor(f) == filesize(f) \div BlockSize

\* Mutation: the loop tests before it counts.
blocksOneMore(f) == (filesize(f) \div BlockSize) + 2

\* The loop of store_file reads floor(filesize / _blocksize) + 1 times; only
\* the last read can meet the end of the file.
blocks(f) == (filesize(f) \div BlockSize) + 1
BlockBytes(f, i) ==
  SubSeq(f, (i - 1) * BlockSize + 1,
         IF i * BlockSize > Len(f) THEN Len(f) ELSE i * BlockSize)
MeetsEof(f, i) == i * BlockSize > Len(f)

\* A C string: what comes before the first NUL, in the buffer or behind it.
HasNul(bytes) == \E i \in DOMAIN bytes : bytes[i] = 0
CString(bytes, trail) ==
  IF ~HasNul(bytes) THEN bytes \o trail
  ELSE SubSeq(bytes, 1, (CHOOSE i \in DOMAIN bytes :
         bytes[i] = 0 /\ \A j \in 1..(i - 1) : bytes[j] # 0) - 1)

\* The last block is hashed with its length, the others as C strings.
BlockId(f, i, trail) ==
  IF MeetsEof(f, i) THEN BlockBytes(f, i) ELSE CString(BlockBytes(f, i), trail)

\* The names of the first n blocks
Ids(f, n, trail) == [i \in 1..n |-> BlockId(f, i, trail)]

WriteFile(store, id, entry) ==
  [x \in DOMAIN store \cup {id} |-> IF x = id THEN entry ELSE store[x]]

\* if(filesize <= _blocksize) we only need one file
InBlocks(f) == filesize(f) > BlockSize

\* No stored file has these contents: a load that failed, and a header that is
\* read as if it were a block, size field first.
NoByte == 256
Failed == <<NoByte>>
BytesOf(entry) == IF entry.kind = "block" THEN entry.bytes ELSE <<NoByte>> \o entry.bytes

\* Reading the blocks an index names: a name without a file fails the load; an
\* empty block puts the output stream into a failed state, and what follows it
\* is dropped.
AppendBlock(out, bytes) ==
  [ok |-> out.ok /\ bytes # <<>>,
   bytes |-> IF out.ok THEN out.bytes \o bytes ELSE out.bytes]
Output(store, ids) ==
  LET out[n \in 0..Len(ids)] ==
        IF n = 0 THEN [ok |-> TRUE, bytes |-> <<>>]
        ELSE AppendBlock(out[n - 1], BytesOf(store[ids[n]]))
  IN  out
ReadBlocks(store, ids) ==
  IF \E i \in DOMAIN ids : ids[i] \notin DOMAIN store THEN Failed
  ELSE Output(store, ids)[Len(ids)].bytes

\* load_file: a short file is read from its header, a long one from its
\* blocks.  A block taken for a header has no size in front, and a header that
\* was cut short has too few bytes: whatever is read, it is not the file.
load_file(store, f) ==
  IF f \notin DOMAIN store THEN Failed
  ELSE LET header == store[f] IN
    IF header.kind = "block" THEN Failed
    ELSE IF header.size <= BlockSize - UintSize
      THEN IF header.kind = "index" \/ Len(header.bytes) < header.size THEN Failed
           ELSE SubSeq(header.bytes, 1, header.size)
      ELSE IF header.kind = "inline" THEN Failed
           ELSE ReadBlocks(store, header.ids)
----------------------------------------------------------------------------
Init ==
  /\ unique = [x \in {} |-> Block(<<>>)]
  /\ job = [w \in Workers |-> NoJob]
  /\ stores = 0 /\ stored = {} /\ failed = {}

\* What the worker is about to do
At(w, point) == job[w].at = point

\* A write through a file that is open, which shows unless it was removed
Flush(w, id, entry) ==
  unique' = IF id \in job[w].lost THEN unique ELSE WriteFile(unique, id, entry)

\* store_file returns true.
Return(w) ==
  /\ job' = [job EXCEPT ![w] = NoJob]
  /\ stored' = stored \cup {job[w].file}
  /\ UNCHANGED <<stores, failed>>

\* "file already stored", also when another worker is still storing it
StoreKnown(w, f) ==
  /\ At(w, "idle") /\ f \in DOMAIN unique
  /\ stored' = stored \cup {f}
  /\ UNCHANGED <<unique, job, stores, failed>>

\* The file is not there.
StoreNew(w, f) ==
  /\ At(w, "idle") /\ f \notin DOMAIN unique
  /\ stores < MaxStores /\ stores' = stores + 1
  /\ \E trail \in Trails : job' = [job EXCEPT ![w] = Started(f, trail)]
  /\ UNCHANGED <<unique, stored, failed>>

\* The header is opened; what is written to it stays in the stream's buffer
\* until it is closed.
OpenHeader(w) ==
  /\ At(w, "header")
  /\ unique' = WriteFile(unique, job[w].file, Block(<<>>))
  /\ job' = [job EXCEPT ![w].at = IF InBlocks(job[w].file) THEN "block" ELSE "close"]
  /\ UNCHANGED <<stores, stored, failed>>

\* do ... while(blockc++ < blocks): a block is opened, ...
NextId(w) == BlockId(job[w].file, job[w].n + 1, job[w].trail)
OpenBlock(w) ==
  /\ At(w, "block")
  /\ unique' = WriteFile(unique, NextId(w), Block(<<>>))
  /\ job' = [job EXCEPT ![w].at = "write", ![w].lost = @ \ {NextId(w)}]
  /\ UNCHANGED <<stores, stored, failed>>

\* ... written and closed.
WriteBlock(w) ==
  /\ At(w, "write")
  /\ Flush(w, NextId(w), Block(BlockBytes(job[w].file, job[w].n + 1)))
  /\ job' = [job EXCEPT ![w].n = @ + 1,
                        ![w].at = IF job[w].n + 1 < blocks(job[w].file) THEN "block" ELSE "close"]
  /\ UNCHANGED <<stores, stored, failed>>

\* What the header holds when it is closed after n blocks
Header(f, n, trail) ==
  IF InBlocks(f) THEN Index(filesize(f), Ids(f, n, trail)) ELSE Inline(filesize(f), f)

CloseHeader(w) ==
  /\ At(w, "close")
  /\ Flush(w, job[w].file, Header(job[w].file, job[w].n, job[w].trail))
  /\ Return(w)

\* A worker that has its header open, and the file it stores; whoever has a
\* file open, as a header or as a block
HasHeader(w) == job[w].at \in {"block", "write", "close"}
Storing(f) == \E w \in Workers : HasHeader(w) /\ job[w].file = f
Open(f) == {w \in Workers : /\ HasHeader(w)
                            /\ job[w].file = f \/ (At(w, "write") /\ NextId(w) = f)}

\* store_file returns false: a directory could not be made or a file not
\* opened.  A header that is open is closed with what was written to it.
StoreFails(w) ==
  /\ \/ At(w, "header") /\ UNCHANGED <<unique, failed>>
     \/ /\ \/ /\ At(w, "close") /\ ~InBlocks(job[w].file)
              /\ Flush(w, job[w].file, Inline(filesize(job[w].file), <<>>))
           \/ /\ At(w, "block")
              /\ Flush(w, job[w].file, Header(job[w].file, job[w].n, job[w].trail))
        /\ failed' = failed \cup {job[w].file}
  /\ job' = [job EXCEPT ![w] = NoJob]
  /\ UNCHANGED <<stores, stored>>

\* Mutation: the blocks the header names go with it ("FIXME delete all blocks").
RemoveWithBlocks(f) ==
  /\ f \in DOMAIN unique
  /\ LET ids == unique[f].ids
     IN  unique' = [x \in DOMAIN unique \ ({f} \cup {ids[i] : i \in DOMAIN ids})
                      |-> unique[x]]
  /\ stored' = stored \ {f} /\ failed' = failed \ {f}
  /\ UNCHANGED <<job, stores>>

\* remove_file removes the header alone; who has it open writes to a file
\* without a name.
Remove(f) ==
  /\ f \in DOMAIN unique
  /\ unique' = [x \in DOMAIN unique \ {f} |-> unique[x]]
  /\ job' = [w \in Workers |->
       IF w \in Open(f) THEN [job[w] EXCEPT !.lost = @ \cup {f}] ELSE job[w]]
  /\ stored' = stored \ {f}
  /\ failed' = IF Storing(f) THEN failed \cup {f} ELSE failed \ {f}
  /\ UNCHANGED stores

\* The process dies and takes the buffers of the headers with it.
Die ==
  /\ failed' = failed \cup {f \in Files : Storing(f)}
  /\ job' = [w \in Workers |-> NoJob]
  /\ UNCHANGED <<unique, stores, stored>>

Next ==
  \/ \E w \in Workers :
       \/ \E f \in Files : StoreKnown(w, f) \/ StoreNew(w, f)
       \/ OpenHeader(w) \/ OpenBlock(w) \/ WriteBlock(w) \/ CloseHeader(w) \/ StoreFails(w)
  \/ \E f \in Files : Remove(f)
  \/ Die

Spec == Init /\ [][Next]_vars
----------------------------------------------------------------------------
Entries == {unique[x] : x \in DOMAIN unique}

\* The types: and an index never names more blocks than its size asks for.
TypeOK ==
  /\ stores \in 0..MaxStores
  /\ stored \subseteq Files /\ failed \subseteq Files
  /\ \A e \in Entries :
       /\ e.kind \in {"inline", "index", "block"}
       /\ e.size \in 0..(UintLimit - 1)
       /\ Len(e.ids) <= (e.size \div BlockSize) + 1

\* Files for which the format works: the size fits a uint and is not one of
\* the sizes that store_file keeps in the header and load_file looks for in
\* blocks.
Sound(f) ==
  /\ Len(f) < UintLimit
  /\ Len(f) <= BlockSize - UintSize \/ Len(f) > BlockSize

BlockNames(f) ==
  IF Len(f) > BlockSize
    THEN {BlockId(f, i, trail) : i \in 1..blocks(f), trail \in Trails} ELSE {}

\* What the format needs of the contents clients store: the content of no file
\* is the name of a block, ...
HeadersApart == \A f, g \in Files : f \notin BlockNames(g)

\* ... and no two blocks share a name.  It takes a NUL in a block other than
\* the last to make them, of one file or of two.
NamesApart ==
  \A f, g \in Files :
    InBlocks(f) /\ InBlocks(g) =>
      \A i \in 1..blocks(f), j \in 1..blocks(g) : \A t, u \in Trails :
        BlockId(f, i, t) = BlockId(g, j, u) => BlockBytes(f, i) = BlockBytes(g, j)

\* A block the header names is truncated, because somebody is about to write
\* it or died before.
Torn(f) ==
  /\ f \in DOMAIN unique
  /\ \E i \in DOMAIN unique[f].ids :
       /\ unique[f].ids[i] \in DOMAIN unique
       /\ unique[unique[f].ids[i]] = Block(<<>>) /\ BlockBytes(f, i) # <<>>

\* Every such file that was stored and not removed is loaded back byte for
\* byte, whatever other workers stored and removed around it: blocks that
\* several files share, the empty block behind a file of full blocks, and
\* blocks left by removed files included.  It holds while nobody stores the
\* same file or has one of its blocks open.  A store of another file that
\* fails does it no harm, one that dies only by the block that it had just
\* opened.
SoundFilesLoad ==
  HeadersApart /\ NamesApart =>
    \A f \in stored \ failed :
      Sound(f) /\ ~Storing(f) /\ ~Torn(f) => load_file(unique, f) = f

\* A block is never taken away while an index names it: remove_file removes
\* headers, no header of these files has a block's name, and a store writes
\* its blocks before the index that names them, whoever else stores.
BlocksKept ==
  HeadersApart =>
    \A e \in Entries : \A i \in DOMAIN e.ids : e.ids[i] \in DOMAIN unique
============================================================================
