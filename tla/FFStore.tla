------------------------------ MODULE FFStore ------------------------------
(***************************************************************************)
(* The flat-file key-value store of the anarchNet daemon                   *)
(* (src/modules/localstorage/flatfilestorage/ffstore.cc), as the worker    *)
(* threads of the RPC server use it: without any lock.                     *)
(*                                                                         *)
(* On disk there are two trees.  raw/ holds one file per value, named by   *)
(* the value's digest; link/ holds one directory per key, with one         *)
(* symbolic link per value put under that key, named by the value's digest *)
(* and pointing into raw/.  A key therefore names a SET of values.         *)
(*                                                                         *)
(* A file is named by the digest of its content, so the module writes a    *)
(* value for its own digest: the digest is assumed collision free.  Each   *)
(* action is one access to the file system; a filesystem_error that no     *)
(* handler catches leaves io_service::run and terminates the process.      *)
(***************************************************************************)
EXTENDS Naturals, FiniteSets

CONSTANTS
  Workers,     \* threads of the RPC server's pool
  Names,       \* keys as clients write them
  LongNames,   \* names of 128 characters or more, used as they are
  Dirs,        \* validated keys: the names of the directories under link/
  KeyHash,     \* KeyHash[n] is the hex digest of the name n
  Values,      \* values a client may put
  Empty,       \* what is read from a file that was just truncated
  Garbage,     \* what is read from a buffer the read did not fill
  MaxRestarts  \* bound: how often the daemon is started again

ASSUME NamesAssumption ==
  /\ KeyHash \in [Names -> Dirs]
  /\ LongNames \subseteq Names \cap Dirs
  /\ Dirs # {}
ASSUME ValuesAssumption == Empty \notin Values /\ Garbage \notin Values
ASSUME RestartAssumption == MaxRestarts \in Nat

VARIABLES
  rawDirs,     \* values whose parent directory under raw/ exists
  raw,         \* values whose file under raw/ exists
  torn,        \* files of raw that are truncated: opened, not written yet
  linkDirs,    \* directories that exist under link/
  link,        \* link[d]: the values linked in directory d
  pc,          \* pc[w]: what worker w does next
  dir,         \* dir[w]: the validated key of w's call
  val,         \* val[w]: the value w puts, or the entry w reads
  size,        \* size[w]: file_size said the entry has its full length
  todo,        \* todo[w]: entries remove_all still has to remove
  ok,          \* ok[w]: what the call returned
  res,         \* res[w]: the content kv_get put in its result, if any
  status,      \* "up", or why the process is down
  restarts,    \* how often the daemon was started again
  alone,       \* history: no removal of w's key overlapped w's put; w's get
               \* began after an acknowledged put, with no removal since
  acked        \* history: puts acknowledged and not followed by a removal

disk == <<rawDirs, raw, torn, linkDirs, link>>
call == <<dir, val, size, todo, ok, res>>
proc == <<status, restarts>>
hist == <<alone, acked>>
vars == <<disk, pc, call, proc, hist>>

PutSteps == {"put_rawdir", "put_mkraw", "put_open", "put_write", "put_linkdir",
             "put_mklink", "put_exists", "put_symlink", "put_done"}
GetSteps == {"get_isdir", "get_iter", "get_open", "get_size", "get_read",
             "get_done"}
RemoveSteps == {"rm_stat", "rm_opendir", "rm_entry", "rm_again", "rm_hand",
                "rm_done"}
Steps == {"idle"} \cup PutSteps \cup GetSteps \cup RemoveSteps

Contents == Values \cup {Empty, Garbage}

\* validate_key: a short key is hashed, a long one is taken to be a digest
\* already.  A name and the digest of another name can meet in one directory.
validate_key(n) == IF n \in LongNames THEN n ELSE KeyHash[n]

AnyDir == CHOOSE d \in Dirs : TRUE

Init ==
  /\ rawDirs = {} /\ raw = {} /\ torn = {} /\ linkDirs = {}
  /\ link = [d \in Dirs |-> {}]
  /\ pc = [w \in Workers |-> "idle"]
  /\ dir = [w \in Workers |-> AnyDir]
  /\ val = [w \in Workers |-> Empty]
  /\ size = [w \in Workers |-> FALSE]
  /\ todo = [w \in Workers |-> {}]
  /\ ok = [w \in Workers |-> FALSE]
  /\ res = [w \in Workers |-> {}]
  /\ status = "up" /\ restarts = 0
  /\ alone = [w \in Workers |-> FALSE]
  /\ acked = {}

At(w, step) == status = "up" /\ pc[w] = step
Goto(w, step) == pc' = [pc EXCEPT ![w] = step]

\* The call of w is over and returns r.
Finish(w, step, r) == Goto(w, step) /\ ok' = [ok EXCEPT ![w] = r]

\* The locals of w's call go out of scope.
Forget(w) ==
  /\ dir' = [dir EXCEPT ![w] = AnyDir]
  /\ val' = [val EXCEPT ![w] = Empty]
  /\ size' = [size EXCEPT ![w] = FALSE]
  /\ todo' = [todo EXCEPT ![w] = {}]
  /\ ok' = [ok EXCEPT ![w] = FALSE]
  /\ res' = [res EXCEPT ![w] = {}]
  /\ alone' = [alone EXCEPT ![w] = FALSE]

\* An exception nobody catches, or the operating system, ends the process:
\* the threads are gone, the files stay as they are.
GoDown(why) ==
  /\ status' = why
  /\ pc' = [w \in Workers |-> "idle"]
  /\ dir' = [w \in Workers |-> AnyDir]
  /\ val' = [w \in Workers |-> Empty]
  /\ size' = [w \in Workers |-> FALSE]
  /\ todo' = [w \in Workers |-> {}]
  /\ ok' = [w \in Workers |-> FALSE]
  /\ res' = [w \in Workers |-> {}]
  /\ alone' = [w \in Workers |-> FALSE]
  /\ UNCHANGED <<disk, restarts, acked>>
Abort == GoDown("aborted")

Removing(d) == \E w \in Workers : pc[w] \in RemoveSteps /\ dir[w] = d
----------------------------------------------------------------------------
\* kv_put: store_block writes the value under raw/, then the link is made.

CallPut(w, d, v) ==
  /\ At(w, "idle")
  /\ Goto(w, "put_rawdir")
  /\ dir' = [dir EXCEPT ![w] = d]
  /\ val' = [val EXCEPT ![w] = v]
  /\ alone' = [alone EXCEPT ![w] = ~Removing(d)]
  /\ UNCHANGED <<disk, size, todo, ok, res, proc, acked>>

\* if(!fs::exists(ppath))
PutRawDir(w) ==
  /\ At(w, "put_rawdir")
  /\ Goto(w, IF val[w] \in rawDirs THEN "put_open" ELSE "put_mkraw")
  /\ UNCHANGED <<disk, call, proc, hist>>

\* if(!fs::create_directories(ppath)): false as well when another worker
\* made the directory since the test
PutMkRaw(w) ==
  /\ At(w, "put_mkraw")
  /\ IF val[w] \in rawDirs
       THEN Finish(w, "put_done", FALSE) /\ UNCHANGED rawDirs
       ELSE /\ Goto(w, "put_open") /\ UNCHANGED ok
            /\ rawDirs' = rawDirs \cup {val[w]}
  /\ UNCHANGED <<raw, torn, linkDirs, link, dir, val, size, todo, res, proc, hist>>

\* fs::ofstream file(...) truncates the file, whether it was there or not
PutOpen(w) ==
  /\ At(w, "put_open")
  /\ Goto(w, "put_write")
  /\ raw' = raw \cup {val[w]}
  /\ torn' = torn \cup {val[w]}
  /\ UNCHANGED <<rawDirs, linkDirs, link, call, proc, hist>>

\* if(!file.good()): the file cannot be opened, for want of a descriptor or of
\* room; nothing is written and the put returns false
PutOpenFails(w) ==
  /\ At(w, "put_open")
  /\ Finish(w, "put_done", FALSE)
  /\ UNCHANGED <<disk, dir, val, size, todo, res, proc, hist>>

\* Mutation: the buffer is not flushed.
PutWriteUnflushed(w) ==
  /\ At(w, "put_write")
  /\ Goto(w, "put_linkdir")
  /\ UNCHANGED <<disk, call, proc, hist>>

\* file << content; file.close(): the stream's buffer reaches the file
PutWrite(w) ==
  /\ At(w, "put_write")
  /\ Goto(w, "put_linkdir")
  /\ torn' = torn \ {val[w]}
  /\ UNCHANGED <<rawDirs, raw, linkDirs, link, call, proc, hist>>

\* if(!fs::exists(ppath)), for the key's directory
PutLinkDir(w) ==
  /\ At(w, "put_linkdir")
  /\ Goto(w, IF dir[w] \in linkDirs THEN "put_exists" ELSE "put_mklink")
  /\ UNCHANGED <<disk, call, proc, hist>>

\* Mutation: a directory that exists already is taken for success.
PutMkLinkTrue(w) ==
  /\ At(w, "put_mklink")
  /\ IF dir[w] \in linkDirs
       THEN Finish(w, "put_done", TRUE) /\ UNCHANGED linkDirs
       ELSE /\ Goto(w, "put_exists") /\ UNCHANGED ok
            /\ linkDirs' = linkDirs \cup {dir[w]}
  /\ UNCHANGED <<rawDirs, raw, torn, link, dir, val, size, todo, res, proc, hist>>

PutMkLink(w) ==
  /\ At(w, "put_mklink")
  /\ IF dir[w] \in linkDirs
       THEN Finish(w, "put_done", FALSE) /\ UNCHANGED linkDirs
       ELSE /\ Goto(w, "put_exists") /\ UNCHANGED ok
            /\ linkDirs' = linkDirs \cup {dir[w]}
  /\ UNCHANGED <<rawDirs, raw, torn, link, dir, val, size, todo, res, proc, hist>>

\* if(!fs::exists(symlink)): follows the link
PutExists(w) ==
  /\ At(w, "put_exists")
  /\ IF val[w] \in link[dir[w]] /\ val[w] \in raw
       THEN Finish(w, "put_done", TRUE)
       ELSE Goto(w, "put_symlink") /\ UNCHANGED ok
  /\ UNCHANGED <<disk, dir, val, size, todo, res, proc, hist>>

\* fs::create_symlink throws when the link was made, or its directory
\* removed, since the tests
PutSymlink(w) ==
  /\ At(w, "put_symlink")
  /\ IF dir[w] \in linkDirs /\ val[w] \notin link[dir[w]]
       THEN /\ link' = [link EXCEPT ![dir[w]] = @ \cup {val[w]}]
            /\ Finish(w, "put_done", TRUE)
            /\ UNCHANGED <<rawDirs, raw, torn, linkDirs, dir, val, size, todo,
                           res, proc, hist>>
       ELSE Abort
----------------------------------------------------------------------------
\* kv_get: the first entry of the key's directory, in directory order.

CallGet(w, d) ==
  /\ At(w, "idle")
  /\ Goto(w, "get_isdir")
  /\ dir' = [dir EXCEPT ![w] = d]
  /\ res' = [res EXCEPT ![w] = {}]
  /\ alone' = [alone EXCEPT ![w] = \E a \in acked : a[1] = d]
  /\ UNCHANGED <<disk, val, size, todo, ok, proc, acked>>

GetIsDir(w) ==
  /\ At(w, "get_isdir")
  /\ IF dir[w] \in linkDirs
       THEN Goto(w, "get_iter") /\ UNCHANGED ok
       ELSE Finish(w, "get_done", FALSE)
  /\ UNCHANGED <<disk, dir, val, size, todo, res, proc, hist>>

\* directory_iterator: its error is caught here.  In a directory without
\* entries the loop body never runs and kv_get ends without a return
\* statement, so the caller reads an arbitrary bool.
GetIter(w) ==
  /\ At(w, "get_iter")
  /\ \/ /\ dir[w] \notin linkDirs
        /\ Finish(w, "get_done", FALSE)
        /\ UNCHANGED val
     \/ /\ dir[w] \in linkDirs /\ link[dir[w]] = {}
        /\ \E r \in BOOLEAN : Finish(w, "get_done", r)
        /\ UNCHANGED val
     \/ \E v \in link[dir[w]] :
          /\ val' = [val EXCEPT ![w] = v]
          /\ Goto(w, "get_open")
          /\ UNCHANGED ok
  /\ UNCHANGED <<disk, dir, size, todo, res, proc, hist>>

EntryOpens(w) == val[w] \in link[dir[w]] /\ val[w] \in raw

\* fs::ifstream file(p): false when the entry does not lead to a file
GetOpen(w) ==
  /\ At(w, "get_open")
  /\ IF EntryOpens(w)
       THEN Goto(w, "get_size") /\ UNCHANGED ok
       ELSE Finish(w, "get_done", FALSE)
  /\ UNCHANGED <<disk, dir, val, size, todo, res, proc, hist>>

\* Mutation: an empty file is refused.
GetSizeRefusesEmpty(w) ==
  /\ At(w, "get_size")
  /\ IF EntryOpens(w) /\ val[w] \notin torn
       THEN /\ size' = [size EXCEPT ![w] = TRUE]
            /\ Goto(w, "get_read") /\ UNCHANGED ok
       ELSE Finish(w, "get_done", FALSE) /\ UNCHANGED size
  /\ UNCHANGED <<disk, dir, val, todo, res, proc, hist>>

\* fs::file_size(p) walks the link a second time; its error is caught
GetSize(w) ==
  /\ At(w, "get_size")
  /\ IF EntryOpens(w)
       THEN /\ size' = [size EXCEPT ![w] = val[w] \notin torn]
            /\ Goto(w, "get_read") /\ UNCHANGED ok
       ELSE Finish(w, "get_done", FALSE) /\ UNCHANGED size
  /\ UNCHANGED <<disk, dir, val, todo, res, proc, hist>>

\* file.read(buffer, size) from the file opened before; what the file cannot
\* fill of the buffer stays uninitialised
GetRead(w) ==
  /\ At(w, "get_read")
  /\ res' = [res EXCEPT ![w] =
               {IF ~size[w] THEN Empty
                ELSE IF val[w] \in torn THEN Garbage ELSE val[w]}]
  /\ Finish(w, "get_done", TRUE)
  /\ UNCHANGED <<disk, dir, val, size, todo, proc, hist>>
----------------------------------------------------------------------------
\* kv_remove: fs::remove_all of the key's directory; when there was nothing to
\* remove the directory is iterated by hand.

CallRemove(w, d) ==
  /\ At(w, "idle")
  /\ Goto(w, "rm_stat")
  /\ dir' = [dir EXCEPT ![w] = d]
  /\ alone' = [x \in Workers |-> alone[x] /\ dir[x] # d]
  /\ acked' = {a \in acked : a[1] # d}
  /\ UNCHANGED <<disk, val, size, todo, ok, res, proc>>

\* remove_all looks what the path is: 0 entries removed if it is nothing
RemoveStat(w) ==
  /\ At(w, "rm_stat")
  /\ Goto(w, IF dir[w] \in linkDirs THEN "rm_opendir" ELSE "rm_again")
  /\ UNCHANGED <<disk, call, proc, hist>>

\* remove_all lists the directory, and throws if it is gone by now
RemoveOpenDir(w) ==
  /\ At(w, "rm_opendir")
  /\ IF dir[w] \in linkDirs
       THEN /\ todo' = [todo EXCEPT ![w] = link[dir[w]]]
            /\ Goto(w, "rm_entry")
            /\ UNCHANGED <<disk, dir, val, size, ok, res, proc, hist>>
       ELSE Abort

\* Mutation: the file the entry leads to is removed with it.
RemoveEntryAndFile(w) ==
  /\ At(w, "rm_entry")
  /\ \E v \in todo[w] :
       /\ todo' = [todo EXCEPT ![w] = @ \ {v}]
       /\ link' = [link EXCEPT ![dir[w]] = @ \ {v}]
       /\ raw' = raw \ {v}
  /\ UNCHANGED <<rawDirs, torn, linkDirs, pc, dir, val, size, ok, res, proc, hist>>

\* an entry that is gone already is no error
RemoveEntry(w) ==
  /\ At(w, "rm_entry")
  /\ \E v \in todo[w] :
       /\ todo' = [todo EXCEPT ![w] = @ \ {v}]
       /\ link' = [link EXCEPT ![dir[w]] = @ \ {v}]
  /\ UNCHANGED <<rawDirs, raw, torn, linkDirs, pc, dir, val, size, ok, res,
                 proc, hist>>

\* Mutation: the directory goes whatever is in it.
RemoveDirBlind(w) ==
  /\ At(w, "rm_entry")
  /\ todo[w] = {}
  /\ linkDirs' = linkDirs \ {dir[w]}
  /\ Finish(w, "rm_done", TRUE)
  /\ UNCHANGED <<rawDirs, raw, torn, link, dir, val, size, todo, res, proc, hist>>

\* Mutation: remove_all begins anew when the directory is not empty.
RemoveDirRetries(w) ==
  /\ At(w, "rm_entry")
  /\ todo[w] = {}
  /\ IF link[dir[w]] = {}
       THEN /\ linkDirs' = linkDirs \ {dir[w]}
            /\ Finish(w, "rm_done", TRUE)
       ELSE Goto(w, "rm_opendir") /\ UNCHANGED <<linkDirs, ok>>
  /\ UNCHANGED <<rawDirs, raw, torn, link, dir, val, size, todo, res, proc, hist>>

\* rmdir: a missing directory is no error, one that got a new entry is
RemoveDir(w) ==
  /\ At(w, "rm_entry")
  /\ todo[w] = {}
  /\ IF link[dir[w]] = {}
       THEN /\ linkDirs' = linkDirs \ {dir[w]}
            /\ Finish(w, "rm_done", TRUE)
            /\ UNCHANGED <<rawDirs, raw, torn, link, dir, val, size, todo, res,
                           proc, hist>>
       ELSE Abort

\* remove_all removed nothing: directory_iterator on the same path throws,
\* unless a put made the directory in between
RemoveAgain(w) ==
  /\ At(w, "rm_again")
  /\ IF dir[w] \in linkDirs
       THEN /\ todo' = [todo EXCEPT ![w] = link[dir[w]]]
            /\ Goto(w, "rm_hand")
            /\ UNCHANGED <<disk, dir, val, size, ok, res, proc, hist>>
       ELSE Abort

\* in this loop an entry that is gone already makes kv_remove return false
RemoveHandEntry(w) ==
  /\ At(w, "rm_hand")
  /\ \E v \in todo[w] :
       /\ todo' = [todo EXCEPT ![w] = @ \ {v}]
       /\ link' = [link EXCEPT ![dir[w]] = @ \ {v}]
       /\ IF v \in link[dir[w]]
            THEN UNCHANGED <<pc, ok>>
            ELSE Finish(w, "rm_done", FALSE)
  /\ UNCHANGED <<rawDirs, raw, torn, linkDirs, dir, val, size, res, proc, hist>>

RemoveHandDir(w) ==
  /\ At(w, "rm_hand")
  /\ todo[w] = {}
  /\ IF link[dir[w]] = {}
       THEN /\ linkDirs' = linkDirs \ {dir[w]}
            /\ Finish(w, "rm_done", dir[w] \in linkDirs)
            /\ UNCHANGED <<rawDirs, raw, torn, link, dir, val, size, todo, res,
                           proc, hist>>
       ELSE Abort
----------------------------------------------------------------------------
PutReturn(w) ==
  /\ At(w, "put_done")
  /\ Goto(w, "idle")
  /\ acked' = IF ok[w] /\ alone[w] THEN acked \cup {<<dir[w], val[w]>>} ELSE acked
  /\ Forget(w)
  /\ UNCHANGED <<disk, proc>>

Return(w) ==
  /\ At(w, "get_done") \/ At(w, "rm_done")
  /\ Goto(w, "idle")
  /\ Forget(w)
  /\ UNCHANGED <<disk, proc, acked>>

Kill == status = "up" /\ GoDown("killed")

\* the daemon is started again; initialise finds the directories in place
Restart ==
  /\ status # "up"
  /\ restarts < MaxRestarts
  /\ restarts' = restarts + 1
  /\ status' = "up"
  /\ UNCHANGED <<disk, pc, call, hist>>

Step(w) ==
  \/ PutRawDir(w) \/ PutMkRaw(w) \/ PutOpen(w) \/ PutOpenFails(w) \/ PutWrite(w)
  \/ PutLinkDir(w) \/ PutMkLink(w) \/ PutExists(w) \/ PutSymlink(w)
  \/ GetIsDir(w) \/ GetIter(w) \/ GetOpen(w) \/ GetSize(w) \/ GetRead(w)
  \/ RemoveStat(w) \/ RemoveOpenDir(w) \/ RemoveEntry(w) \/ RemoveDir(w)
  \/ RemoveAgain(w) \/ RemoveHandEntry(w) \/ RemoveHandDir(w)

Finishes(w) == PutReturn(w) \/ Return(w)

Calls(w) ==
  \E n \in Names :
    \/ \E v \in Values : CallPut(w, validate_key(n), v)
    \/ CallGet(w, validate_key(n))
    \/ CallRemove(w, validate_key(n))

Next ==
  \/ \E w \in Workers : Calls(w) \/ Step(w) \/ Finishes(w)
  \/ Kill
  \/ Restart

Spec == Init /\ [][Next]_vars

\* The kernel runs every worker thread; nothing makes a client call, or an
\* operator kill or restart the daemon.
Fairness == \A w \in Workers : WF_vars(Step(w) \/ Finishes(w))
LiveSpec == Spec /\ Fairness
----------------------------------------------------------------------------
TypeOK ==
  /\ rawDirs \subseteq Values /\ raw \subseteq Values /\ torn \subseteq raw
  /\ linkDirs \subseteq Dirs
  /\ link \in [Dirs -> SUBSET Values]
  /\ pc \in [Workers -> Steps]
  /\ dir \in [Workers -> Dirs]
  /\ val \in [Workers -> Values \cup {Empty}]
  /\ \A w \in Workers : pc[w] \in PutSteps => val[w] \in Values
  /\ size \in [Workers -> BOOLEAN]
  /\ todo \in [Workers -> SUBSET Values]
  /\ ok \in [Workers -> BOOLEAN]
  /\ res \in [Workers -> SUBSET Contents]
  /\ status \in {"up", "aborted", "killed"}
  /\ restarts \in 0..MaxRestarts
  /\ alone \in [Workers -> BOOLEAN]
  /\ acked \subseteq Dirs \X Values

\* Whatever puts, removals and deaths of the process interleave, a symbolic
\* link under link/ leads to a file of raw/ and lies in a directory that
\* exists: kv_put stores the block before it links it, and kv_remove never
\* removes a directory that a put filled again.
NoDanglingLink ==
  \A d \in Dirs : link[d] \subseteq raw /\ (link[d] # {} => d \in linkDirs)

\* Two puts of one value truncate and rewrite the same file; still, as long as
\* the daemon never died, a file of raw/ is incomplete only while a worker
\* stands between the truncation and the write of store_block.
TornOnlyInsideWrite ==
  status = "up" /\ restarts = 0 =>
    \A v \in torn : \E w \in Workers : pc[w] = "put_write" /\ val[w] = v

\* A put that returned true, that no removal of its key overlapped and none
\* followed, is still linked, even after the process died and was restarted.
AckedPutSurvives ==
  \A a \in acked : a[2] \in link[a[1]] /\ a[2] \in raw

\* A get that begins after such a put and that no removal of the key overlaps
\* returns true and an entry: it never meets the empty directory in which
\* kv_get runs off its end, nor an entry that is gone when it opens it.
GetFindsAckedPut ==
  \A w \in Workers : pc[w] = "get_done" /\ alone[w] => ok[w] /\ res[w] # {}

\* The strengthenings that make the three invariants above inductive: a put
\* that is past store_block has its file in raw/; ...
BlockBeforeLink ==
  \A w \in Workers :
    pc[w] \in {"put_write", "put_linkdir", "put_mklink", "put_exists", "put_symlink"}
      => val[w] \in raw

\* ... nobody removes the key of an undisturbed put or of an acknowledged one,
\* and such a put is linked from its return on; ...
PutUndisturbed ==
  /\ \A w \in Workers : pc[w] \in PutSteps /\ alone[w] =>
       /\ \A x \in Workers : pc[x] \in RemoveSteps => dir[x] # dir[w]
       /\ pc[w] = "put_done" /\ ok[w] => val[w] \in link[dir[w]]
  /\ \A a \in acked :
       /\ \A x \in Workers : pc[x] \in RemoveSteps => dir[x] # a[1]
       /\ a[2] \in link[a[1]]

\* ... and an undisturbed get still has an acknowledged put of its key, and
\* keeps the entry it has chosen.
GetUndisturbed ==
  \A w \in Workers : pc[w] \in GetSteps /\ alone[w] =>
    /\ \E a \in acked : a[1] = dir[w]
    /\ pc[w] \in {"get_open", "get_size", "get_read"} => val[w] \in link[dir[w]]
    /\ pc[w] = "get_done" => ok[w] /\ res[w] # {}

IInv == TypeOK /\ NoDanglingLink /\ BlockBeforeLink /\ PutUndisturbed /\ GetUndisturbed

\* Every call returns, unless the process dies and takes the call with it:
\* none of the directory loops can spin while other workers add and remove.
EveryCallReturns == \A w \in Workers : pc[w] # "idle" ~> pc[w] = "idle"
============================================================================
