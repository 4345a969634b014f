--------------------------- MODULE ObjectService ---------------------------
(***************************************************************************)
(* The RPC methods object.create and object.get (src/daemon/               *)
(* rpc_manager.cc) with DBManager and Object below them and the flat-file  *)
(* store below those: each worker of the RPC server carries one request    *)
(* through the calls of the store that the handler makes.                  *)
(*                                                                         *)
(* An object is stored as one value of the store, under its id.  save()    *)
(* deletes the id and creates it again, so an update is a kv_remove        *)
(* followed by a kv_put.                                                   *)
(***************************************************************************)
EXTENDS FFStore, Objects

CONSTANTS
  ContentId,   \* ContentId[text]: the id object.create picks without one
  NoId,        \* a request without an id
  NoText,      \* no text: nothing stored, nothing found
  RequestIds,  \* the ids clients name in their requests, NoId among them or not
  MaxCreates   \* bound: requests to create

Ids == Names
StoredObjects == ObjectsOver(Ids)
Inputs == [Regions -> Glyphs]

ASSUME ServiceAssumption ==
  /\ ContentId \in [Inputs -> LongNames]
  /\ NoId \notin Names /\ RequestIds \subseteq Names \cup {NoId}
  /\ MaxCreates \in Nat

\* The store takes any object as a value.  The objects are infinitely many (the
\* diffs are a sequence), so this is a hypothesis of the theorems, not an ASSUME.
ObjectsStorable == StoredObjects \subseteq Values

VARIABLES
  job,         \* job[w]: the request w works on and how far it is
  creates,     \* how many requests to create there were
  log,         \* history: log[d]: the texts of the acknowledged creates of d
  muddled      \* history: keys whose creates overlapped, died or failed, or
               \* that were created anew without an id

svars == <<vars, job, creates, log, muddled>>

NoJob == [op |-> "none", stage |-> "none", id |-> NoId, text |-> NoText,
          obj |-> NoText, good |-> FALSE, sure |-> FALSE]

SInit ==
  /\ Init
  /\ job = [w \in Workers |-> NoJob]
  /\ creates = 0
  /\ log = [d \in Dirs |-> <<>>]
  /\ muddled = {}

\* the key a request is about
JobDir(j) == validate_key(IF j.id = NoId THEN ContentId[j.text] ELSE j.id)
JobsOn(op, d) == {w \in Workers : job[w].op = op /\ JobDir(job[w]) = d}

\* w is at a stage of a request, with the store's call over or not begun
Stage(w, stages, step) == At(w, step) /\ job[w].stage \in stages
----------------------------------------------------------------------------
\* A valid request for object.create reaches a worker.  Without an id it goes
\* straight to Object::create(inp), which does not ask whether its id is taken.
ReceiveCreate(w, id, text, time) ==
  /\ status = "up" /\ job[w] = NoJob
  /\ creates < MaxCreates /\ creates' = creates + 1
  /\ LET j == [NoJob EXCEPT !.op = "create", !.id = id, !.text = text]
         d == JobDir(j)
         taken == JobsOn("create", d) # {} \/ (id = NoId /\ log[d] # <<>>)
     IN  /\ job' = [x \in Workers |->
              IF x = w THEN IF id = NoId
                              THEN [j EXCEPT !.stage = "put",
                                      !.obj = create(text, ContentId[text], time)]
                              ELSE [j EXCEPT !.stage = "load"]
              ELSE IF x \in JobsOn("get", d) THEN [job[x] EXCEPT !.sure = FALSE]
              ELSE job[x]]
         /\ muddled' = IF taken THEN muddled \cup {d} ELSE muddled
  /\ UNCHANGED <<vars, log>>

ReceiveGet(w, id) ==
  /\ status = "up" /\ job[w] = NoJob
  /\ job' = [job EXCEPT ![w] =
       [NoJob EXCEPT !.op = "get", !.stage = "load", !.id = id,
                     !.sure = JobsOn("create", validate_key(id)) = {}]]
  /\ UNCHANGED <<vars, creates, log, muddled>>

\* DBManager::get_object_head asks the store ...
CallLoad(w) ==
  /\ Stage(w, {"load"}, "idle")
  /\ CallGet(w, validate_key(job[w].id))
  /\ UNCHANGED <<job, creates, log, muddled>>

\* ... and reads the object from the entry; what is no archive is skipped.
Loaded(w) == IF ok[w] THEN res[w] \cap StoredObjects ELSE {}

\* Where the handler goes from the entry it loaded.
\* The answer to a get that did not ask for the "full" object.
Answer(j, found, text) == [j EXCEPT !.stage = "reply", !.good = found, !.text = text]
Create(j, stage, time) == [j EXCEPT !.stage = stage, !.obj = create(j.text, j.id, time)]
Update(j, stage, loaded, time) ==
  [j EXCEPT !.stage = stage, !.obj = update_object(loaded, j.text, time)]

\* Mutation: the whole object is the answer.
AfterLoadWhole(j, found, loaded, time) ==
  IF j.op = "get" THEN Answer(j, found, IF found THEN loaded ELSE NoText)
  ELSE IF found THEN Update(j, "delete", loaded, time)
  ELSE Create(j, "put", time)

\* Mutation: save() does not delete.
AfterLoadKeeps(j, found, loaded, time) ==
  IF j.op = "get" THEN Answer(j, found, IF found THEN loaded.head ELSE NoText)
  ELSE IF found THEN Update(j, "save", loaded, time)
  ELSE Create(j, "put", time)

\* Mutation: a new object is saved, not put.
AfterLoadSaves(j, found, loaded, time) ==
  IF j.op = "get" THEN Answer(j, found, IF found THEN loaded.head ELSE NoText)
  ELSE IF found THEN Update(j, "delete", loaded, time)
  ELSE Create(j, "delete", time)

\* Mutation: a get waits for the object.
AfterLoadWaits(j, found, loaded, time) ==
  IF j.op = "get" THEN IF found THEN Answer(j, found, loaded.head) ELSE j
  ELSE IF found THEN Update(j, "delete", loaded, time)
  ELSE Create(j, "put", time)

\* object.get answers with the head, object.create goes on to update_object
\* or, when nothing was found, to Object::create(inp, custom_id).
AfterLoad(j, found, loaded, time) ==
  IF j.op = "get" THEN Answer(j, found, IF found THEN loaded.head ELSE NoText)
  ELSE IF found THEN Update(j, "delete", loaded, time)
  ELSE Create(j, "put", time)

LoadDone(w, time) ==
  /\ Stage(w, {"load"}, "get_done")
  /\ Return(w)
  /\ LET loaded == CHOOSE o \in Loaded(w) : TRUE
     IN  job' = [job EXCEPT ![w] = AfterLoad(@, Loaded(w) # {}, loaded, time)]
  /\ UNCHANGED <<creates, log, muddled>>

\* Object::save: delete_object ...
CallDelete(w) ==
  /\ Stage(w, {"delete"}, "idle")
  /\ CallRemove(w, validate_key(job[w].obj.id))
  /\ UNCHANGED <<job, creates, log, muddled>>

\* Mutation: save() is over when the old object is deleted.
DeleteDoneEnds(w) ==
  /\ Stage(w, {"delete"}, "rm_done")
  /\ Return(w)
  /\ job' = [job EXCEPT ![w].stage = "reply", ![w].good = ok[w]]
  /\ UNCHANGED <<creates, log, muddled>>

DeleteDone(w) ==
  /\ Stage(w, {"delete"}, "rm_done")
  /\ Return(w)
  /\ job' = [job EXCEPT ![w].stage = IF ok[w] THEN "save" ELSE "reply"]
  /\ UNCHANGED <<creates, log, muddled>>

\* ... then create_object; a new object is put by create() and once more by
\* the handler, which looks only at what the second put returned.
CallStore(w) ==
  /\ Stage(w, {"put", "again", "save"}, "idle")
  /\ CallPut(w, validate_key(job[w].obj.id), job[w].obj)
  /\ UNCHANGED <<job, creates, log, muddled>>

StoreDone(w) ==
  /\ Stage(w, {"put", "again", "save"}, "put_done")
  /\ PutReturn(w)
  /\ job' = [job EXCEPT ![w] =
       IF @.stage = "put" THEN [@ EXCEPT !.stage = "again"]
                          ELSE [@ EXCEPT !.stage = "reply", !.good = ok[w]]]
  /\ UNCHANGED <<creates, log, muddled>>

Reply(w) ==
  /\ Stage(w, {"reply"}, "idle")
  /\ job' = [job EXCEPT ![w] = NoJob]
  /\ LET d == JobDir(job[w])
     IN  IF job[w].op = "get" THEN UNCHANGED <<log, muddled>>
         ELSE IF job[w].good
           THEN log' = [log EXCEPT ![d] = Append(@, job[w].text)] /\ UNCHANGED muddled
           ELSE muddled' = muddled \cup {d} /\ UNCHANGED log
  /\ UNCHANGED <<vars, creates>>

\* The process goes down with every request in it.
Lose ==
  /\ job' = [w \in Workers |-> NoJob]
  /\ muddled' = muddled \cup {JobDir(job[w]) : w \in {x \in Workers : job[x].op = "create"}}

StoreStep(w) ==
  /\ Step(w)
  /\ IF status' = "up" THEN UNCHANGED <<job, muddled>> ELSE Lose
  /\ UNCHANGED <<creates, log>>

SKill == Kill /\ Lose /\ UNCHANGED <<creates, log>>
SRestart == Restart /\ UNCHANGED <<job, creates, log, muddled>>

Handle(w) ==
  \/ CallLoad(w) \/ (\E time \in Stamps : LoadDone(w, time))
  \/ CallDelete(w) \/ DeleteDone(w)
  \/ CallStore(w) \/ StoreDone(w)
  \/ Reply(w)

SNext ==
  \/ \E w \in Workers :
       \/ \E id \in RequestIds, text \in Inputs, time \in Stamps :
            ReceiveCreate(w, id, text, time)
       \/ \E id \in RequestIds \ {NoId} : ReceiveGet(w, id)
       \/ Handle(w)
       \/ StoreStep(w)
  \/ SKill
  \/ SRestart

SSpec == SInit /\ [][SNext]_svars
----------------------------------------------------------------------------
STypeOK ==
  /\ TypeOK
  /\ \A w \in Workers :
       /\ job[w].op \in {"none", "create", "get"}
       /\ job[w].stage \in {"none", "load", "put", "again", "delete", "save", "reply"}
       /\ job[w].id \in Names \cup {NoId}
       /\ job[w].text \in Inputs \cup {NoText}
       /\ job[w].obj \in StoredObjects \cup {NoText}
  /\ log \in [Dirs -> Seq(Inputs)]
  /\ muddled \subseteq Dirs

Last(s) == s[Len(s)]
Quiet(d) == status = "up" /\ d \notin muddled /\ JobsOn("create", d) = {}

\* A get that no create of its object overlaps answers with the text of the
\* last acknowledged create, or that there is none, provided no two creates of
\* the object ever overlapped, died or failed, or made it anew without an id.
GetReturnsLatest ==
  \A w \in Workers :
    LET d == JobDir(job[w]) IN
    job[w].op = "get" /\ job[w].stage = "reply" /\ job[w].sure /\ d \notin muddled =>
      job[w].text = IF log[d] = <<>> THEN NoText ELSE Last(log[d])

\* Under the same proviso and between creates, the key holds exactly one
\* object, and its diffs replay to every text ever acknowledged, in order:
\* deleting and creating again loses no revision and leaves no second entry.
HistoryComplete ==
  \A d \in Dirs : Quiet(d) /\ log[d] # <<>> =>
    \E o \in StoredObjects \cap raw :
      /\ link[d] = {o} /\ o \notin torn
      /\ Len(o.diffs) = Len(log[d])
      /\ \A i \in DOMAIN log[d] : Replay(o.diffs)[i] = log[d][i]

\* The step that terminates the daemon is one of a create, and of an object
\* whose creates have overlapped, died or failed before: an update by itself
\* never removes an object that is not there, nor links one that is.
AbortOnlyWhenMuddled ==
  [][status' = "aborted" /\ status = "up" =>
       \E w \in Workers :
         Step(w) /\ job[w].op = "create" /\ JobDir(job[w]) \in muddled]_svars

\* Every request is answered, through however many calls of the store it goes.
EveryRequestAnswered == \A w \in Workers : job[w] # NoJob ~> job[w] = NoJob
----------------------------------------------------------------------------
\* The refinement.  The texts of an object are what its diffs replay to; while
\* an update is between deleting the stored object and linking the new one,
\* they are those of the new one without the last.
TextsOf(diffs) == [i \in DOMAIN diffs |-> Replay(diffs)[i]]
Updates(d) == {w \in JobsOn("create", d) : job[w].stage \in {"delete", "save"}}

HistoryOf(d) ==
  IF Updates(d) # {}
    THEN LET o == job[CHOOSE w \in Updates(d) : TRUE].obj
         IN  IF o \in link[d] THEN TextsOf(o.diffs)
             ELSE TextsOf(SubSeq(o.diffs, 1, Len(o.diffs) - 1))
  ELSE IF link[d] = {} THEN <<>>
  ELSE TextsOf((CHOOSE o \in link[d] : TRUE).diffs)

AnswerOf(w) ==
  IF job[w].op = "get" /\ job[w].stage = "reply"
    THEN <<JobDir(job[w]), job[w].text>> ELSE <<>>

Abstract == INSTANCE ObjectMap WITH
  history <- [d \in Dirs |-> HistoryOf(d)],
  answer <- [w \in Workers |-> AnswerOf(w)]

\* One caller at a time, who names the objects, a process that stays up and a
\* disk on which files open.  The threads of the pool run; that clients send
\* requests is not promised.
Undisturbed == status' = "up" /\ \A w \in Workers : ~PutOpenFails(w)
SerialSpec == SInit /\ [][SNext /\ Undisturbed]_svars
SequentialSpec ==
  /\ SerialSpec
  /\ \A w \in Workers : WF_svars(Handle(w) \/ StoreStep(w))

\* Served one request at a time, as over a single connection, the objects
\* behave as the atomic map of histories, although an update deletes the object
\* before it writes it: a create takes effect when its link is made.
ImplementsObjectMap == Abstract!Spec
----------------------------------------------------------------------------
\* What doc/API.txt says of object.get: it returns the "actual revision", that
\* is, what the last acknowledged object.create of the id has stored.
GetReturnsActualRevision ==
  \A w \in Workers :
    LET d == JobDir(job[w]) IN
    job[w].op = "get" /\ job[w].stage = "reply" /\ job[w].sure /\ log[d] # <<>> =>
      job[w].text = Last(log[d])
============================================================================
