---------------------------- MODULE PublicFiles ----------------------------
(***************************************************************************)
(* Blockstore::get_file (src/modules/localstorage/blockstore/              *)
(* blockstore.cc): load_file copies a stored file to the public directory  *)
(* and the copy lives as long as its public_file object, which the         *)
(* least-recently-used cache and the workers that are about to answer      *)
(* share; the destructor removes the copy.  The client gets the path.      *)
(*                                                                         *)
(* Of a stored file the module keeps whether load_file would read it back  *)
(* whole; FileStore says which files those are.  load_file does not notice *)
(* an index cut short or a block that is truncated: it returns a good      *)
(* object all the same, whose copy is wrong.                               *)
(***************************************************************************)
EXTENDS LruCache, FiniteSets

CONSTANTS
  Broken,      \* files whose index names a block that is not there, or none
  Fixed,       \* bound: files stored before the start, not touched since
  NoFile       \* no file

ASSUME BrokenAssumption == Broken \subseteq Keys /\ NoFile \notin Keys
ASSUME FixedAssumption == Fixed \subseteq Keys

\* the thread pool is a finite one
ASSUME WorkersAssumption == IsFiniteSet(Workers)

VARIABLES
  stored,      \* stored[k]: the state of k and its blocks in unique/
  read,        \* history: read[w]: what w copies has been whole all along
  copy,        \* copy[k]: the state of the public copy of k
  fd,          \* fd[w]: the copy w writes is still the one in the directory
  objs,        \* objs[t]: the public_file object t, if there is one
  ref,         \* ref[k]: the object the cache has for k, 0 for none
  local,       \* local[w]: the object get_file holds in w, 0 for none
  given,       \* the file whose path get_file has just returned to a client
  raced,       \* history: files loaded while an object or a load of them lived
  up           \* no exception ended the process

fvars == <<vars, stored, read, copy, fd, objs, ref, local, given, raced, up>>

\* The cache and the workers hold at most this many objects at once.
Tokens == 1..(Cardinality(Workers) + Capacity)
NoObj == [key |-> NoFile, good |-> FALSE, whole |-> FALSE]

FInit ==
  /\ Init
  /\ stored = [k \in Keys |-> IF k \in Fixed THEN "whole" ELSE "absent"]
  /\ read = [w \in Workers |-> FALSE]
  /\ copy = [k \in Keys |-> "absent"]
  /\ fd = [w \in Workers |-> FALSE]
  /\ objs = [t \in Tokens |-> NoObj]
  /\ ref = [k \in Keys |-> 0]
  /\ local = [w \in Workers |-> 0]
  /\ given = NoFile /\ raced = {}
  /\ up = TRUE

\* With the references of the new state, the objects nobody refers to are
\* destroyed; a good one removes the file its path names, whoever wrote it.
Dropped == {t \in Tokens : /\ objs[t] # NoObj
                           /\ \A k \in Keys : ref'[k] # t
                           /\ \A w \in Workers : local'[w] # t}

\* Mutation: nobody destroys the objects.
ReleaseLeaks == UNCHANGED <<objs, copy, fd>>

\* Mutation: the destructor leaves the file.
ReleaseKeepsFile ==
  /\ objs' = [t \in Tokens |-> IF t \in Dropped THEN NoObj ELSE objs[t]]
  /\ UNCHANGED <<copy, fd>>

Release ==
  LET gone == {objs[t].key : t \in {u \in Dropped : objs[u].good}}
  IN  /\ objs' = [t \in Tokens |-> IF t \in Dropped THEN NoObj ELSE objs[t]]
      /\ copy' = [k \in Keys |-> IF k \in gone THEN "absent" ELSE copy[k]]
      /\ fd' = [w \in Workers |-> fd[w] /\ key[w] \notin gone]
----------------------------------------------------------------------------
\* store_file and remove_file, which leave the cache alone.  store_file opens
\* the index of a file that is not stored yet; until it is through, and for ever
\* if it fails, what load_file reads there is cut short.
StoreBegins(k) ==
  /\ up /\ stored[k] = "absent"
  /\ stored' = [stored EXCEPT ![k] = "short"]
  /\ given' = NoFile
  /\ UNCHANGED <<vars, read, copy, fd, objs, ref, local, raced, up>>

StoreEnds(k) ==
  /\ up /\ stored[k] = "short"
  /\ stored' = [stored EXCEPT ![k] = "whole"]
  /\ given' = NoFile
  /\ UNCHANGED <<vars, read, copy, fd, objs, ref, local, raced, up>>

\* the store of another file truncates a block the two have in common; when it
\* has written it again (StoreEnds), the file is whole once more
StoreTears(k) ==
  /\ up /\ stored[k] = "whole"
  /\ stored' = [stored EXCEPT ![k] = "short"]
  /\ read' = [w \in Workers |-> read[w] /\ key[w] # k]
  /\ given' = NoFile
  /\ UNCHANGED <<vars, copy, fd, objs, ref, local, raced, up>>

\* Mutation: the public copy is removed as well.
RemoveFileAndCopy(k) ==
  /\ up /\ stored' = [stored EXCEPT ![k] = "absent"]
  /\ copy' = [copy EXCEPT ![k] = "absent"]
  /\ given' = NoFile
  /\ UNCHANGED <<vars, read, fd, objs, ref, local, raced, up>>

\* only the index is removed; who has opened it reads on
RemoveFile(k) ==
  /\ up /\ stored' = [stored EXCEPT ![k] = "absent"]
  /\ given' = NoFile
  /\ UNCHANGED <<vars, read, copy, fd, objs, ref, local, raced, up>>

\* get_file asks the cache
GetHit(w, k) ==
  /\ up /\ local[w] = 0 /\ Hit(w, k)
  /\ local' = [local EXCEPT ![w] = ref[k]]
  /\ given' = NoFile
  /\ UNCHANGED <<stored, read, copy, fd, objs, ref, raced, up>>

GetMiss(w, k) ==
  /\ up /\ local[w] = 0 /\ Miss(w, k)
  /\ given' = NoFile
  /\ UNCHANGED <<stored, read, copy, fd, objs, ref, local, raced, up>>

\* load_file throws file_not_found, which nobody catches, when the index or the
\* public copy cannot be opened, or the index holds what is no digest
LoadThrows(w) ==
  /\ up
  /\ pc[w] = "load" \/ (pc[w] = "copy" /\ key[w] \in Broken)
  /\ up' = FALSE
  /\ given' = NoFile
  /\ UNCHANGED <<vars, stored, read, copy, fd, objs, ref, local, raced>>

\* it opens the public copy, truncating it
LoadOpens(w) ==
  /\ up /\ pc[w] = "load" /\ stored[key[w]] # "absent"
  /\ pc' = [pc EXCEPT ![w] = "copy"]
  /\ fd' = [fd EXCEPT ![w] = TRUE]
  /\ read' = [read EXCEPT ![w] = stored[key[w]] = "whole"]
  /\ copy' = [copy EXCEPT ![key[w]] = "partial"]
  /\ raced' = IF \/ \E t \in Tokens : objs[t].key = key[w]
                 \/ \E x \in Workers : pc[x] = "copy" /\ key[x] = key[w]
                THEN raced \cup {key[w]} ELSE raced
  /\ given' = NoFile
  /\ UNCHANGED <<order, key, uses, contended, stored, objs, ref, local, up>>

\* load_file is through: with a good object, for what it read, or with
\* public_file("", false) where a block is missing; there the copy is left as
\* it is.  An index that is cut short may end before the missing block.
LoadEnds(w, good, result) ==
  /\ pc' = [pc EXCEPT ![w] = "insert"]
  /\ fd' = [fd EXCEPT ![w] = FALSE]
  /\ copy' = [copy EXCEPT ![key[w]] = IF fd[w] /\ good THEN result ELSE @]
  /\ LET t == CHOOSE u \in Tokens : objs[u] = NoObj
     IN  /\ objs' = [objs EXCEPT ![t] = [key |-> key[w], good |-> good, whole |-> read[w]]]
         /\ local' = [local EXCEPT ![w] = t]
  /\ given' = NoFile
  /\ read' = [read EXCEPT ![w] = FALSE]
  /\ UNCHANGED <<order, key, uses, contended, stored, ref, raced, up>>

\* it fills the copy, with what the index and the blocks hold by then
LoadCopies(w) ==
  /\ up /\ pc[w] = "copy"
  /\ \E good \in BOOLEAN, result \in {"complete", "wrong"} :
       /\ key[w] \notin Broken => good
       /\ key[w] \in Broken /\ good => ~read[w]
       /\ result = "wrong" => ~read[w]
       /\ LoadEnds(w, good, result)

\* the cache takes the object, unless it has one for the file by now, and
\* gives up the one it purges
GetInserts(w) ==
  /\ up /\ Insert(w)
  /\ ref' = [k \in Keys |->
       IF ~Has(order', k) THEN 0
       ELSE IF k = key[w] /\ ~Has(purge(order), k) THEN local[w] ELSE ref[k]]
  /\ given' = NoFile
  /\ UNCHANGED <<stored, read, local, raced, up>>
  /\ Release

\* get_file returns the path and lets go of the object
GetReturns(w) ==
  /\ up /\ pc[w] = "idle" /\ local[w] # 0
  /\ given' = IF objs[local[w]].good THEN key[w] ELSE NoFile
  /\ local' = [local EXCEPT ![w] = 0]
  /\ UNCHANGED <<vars, stored, read, ref, raced, up>>
  /\ Release

FNext ==
  \/ \E k \in Keys \ Fixed :
       \/ StoreBegins(k) \/ StoreEnds(k) \/ StoreTears(k)
       \/ RemoveFile(k)
  \/ \E w \in Workers :
       \/ \E k \in Keys : GetHit(w, k) \/ GetMiss(w, k)
       \/ LoadThrows(w) \/ LoadOpens(w) \/ LoadCopies(w)
       \/ GetInserts(w) \/ GetReturns(w)

FSpec == FInit /\ [][FNext]_fvars
----------------------------------------------------------------------------
Referenced(t) == (\E k \in Keys : ref[k] = t) \/ (\E w \in Workers : local[w] = t)

\* The objects of the cache and of the workers are the live ones, each for the
\* file it was loaded for, and the cache's index and objects agree.
FTypeOK ==
  /\ order \in Seq(Keys) /\ Len(order) <= Capacity
  /\ \A t \in Tokens : objs[t] # NoObj <=> Referenced(t)
  /\ \A k \in Keys : Has(order, k) <=> ref[k] # 0
  /\ \A k \in Keys : ref[k] # 0 => objs[ref[k]].key = k

\* No copy is left behind: a public copy that a load has filled belongs to a
\* good object, whose destructor will remove it.
NoLeakedCopy ==
  up => \A k \in Keys : copy[k] \in {"complete", "wrong"} =>
    \E t \in Tokens : objs[t].key = k /\ objs[t].good

\* A good object in the cache whose file was stored whole when it was copied has
\* its complete copy in the public directory, so that a hit hands out a path
\* that works, unless the file was ever loaded while another object or load of
\* it was alive.  Later removals of the file and stores that rewrite its blocks
\* do not reach the copy.
CachedCopyComplete ==
  \A k \in Keys \ raced :
    ref[k] # 0 /\ objs[ref[k]].good /\ objs[ref[k]].whole => copy[k] = "complete"
----------------------------------------------------------------------------
\* What BlockStore_file_get_small expects of a path that get_file returned:
\* there is a file to be read.
GivenPathExists == given # NoFile => copy[given] # "absent"
============================================================================
