--------------------------- MODULE RpcConnection ---------------------------
(***************************************************************************)
(* JSON-RPC over TCP: clients of the web front end (rpc.js) call methods of *)
(* the daemon (RpcServer, connection, RPCManager).  A request is one JSON   *)
(* text and "\r\n", an answer one JSON text and "{$}".  TCP keeps the bytes *)
(* in order and cuts them anywhere.  A request travels as a head and a tail *)
(* that ends with the delimiter; its cut is "inside" the JSON text or just  *)
(* before the delimiter ("crlf").  An answer travels as the parts "a" and   *)
(* "z", the delimiter in "z".                                               *)
(*                                                                          *)
(* handle_read takes everything that has arrived, not only what ends at the *)
(* delimiter.  A client that waits for each answer never notices; one that  *)
(* does not loses calls, makes its connection deaf or ends the daemon.      *)
(*                                                                          *)
(* A method is one step here.  Where calls of several clients meet on one   *)
(* directory of the key-value store, the step allows what FFStore and       *)
(* ObjectService show to come of it: failures, rests and exceptions.        *)
(***************************************************************************)
EXTENDS Integers, FiniteSets, FiniteSetsExt, SequencesExt

CONSTANTS
  Clients,    \* one connection each
  MaxCalls,   \* bound: calls each client makes
  Calls,      \* the calls each chooses from: [method, key, value, params, full, cut]
  Keys,       \* keys of the key-value store and ids of objects, as they arrive
  Short,      \* those of fewer than 128 characters
  Unspaced,   \* what arrives of the keys that hold white space
  Values,     \* contents that clients put
  Archive,    \* a content that holds an object
  Garbage,    \* what is read of a content while it is written
  Digest,     \* the digest of a content or of a short key
  Files       \* ids of files

\* handle_read copies the text without its white space, also inside strings.
Arrives(k) == IF k \in DOMAIN Unspaced THEN Unspaced[k] ELSE k

\* The methods of the key-value store and of the objects in it.
KvMethods == {"kv.get", "kv.put", "kv.remove"}
ObjectMethods == {"object.create", "object.get"}

ASSUME CallAssumption ==
  /\ MaxCalls \in [Clients -> Nat]
  /\ \A c \in Clients : \A r \in Calls[c] :
       /\ r.params \in {"ok", "mistyped", "absent"} /\ r.cut \in {"inside", "crlf"}
       /\ r.full \in {"no", "yes", "mistyped"}
       /\ r.method \in KvMethods \cup ObjectMethods => Arrives(r.key) \in Keys
       /\ r.method = "kv.put" => r.value.b64 \in Values
       /\ r.method = "file.put" => Arrives(r.key) \in Files

\* Digests are long keys; no content a client puts is the archive of an object.
ASSUME KeyAssumption ==
  /\ \A k \in Short : Digest[k] \in Keys \ Short
  /\ Archive \notin Values /\ Garbage \notin Values

VARIABLES
  up,         \* the daemon runs
  accepting,  \* an accept operation is pending
  op,         \* what the connection waits for
  toServer,   \* parts of requests on their way
  toClient,   \* parts of answers on their way
  open,       \* the client has the connection open
  client,     \* rpc.js: old_buffer and waiting
  sent,       \* rpc.js: the calls made, by id
  seen,       \* answers the client has parsed, in order
  executed,   \* ids of the requests dispatched, in order
  rushed,     \* the client has called before the last answer was there
  kv,         \* the key-value store: the contents in every directory
  files       \* the file store: the ids stored

wire == << toServer, toClient, client, sent, seen, rushed, open >>
store == << kv, files >>
vars == << up, accepting, op, executed, wire, store >>

\* The directory of a key: a key that is too short to be a digest is hashed.
Dirs == Keys \ Short
validate_key(k) == IF k \in Short THEN Digest[k] ELSE k

\* A connection in each of its phases: not accepted yet, in async_read_until,
\* in async_write, with no operation pending, ended by an error.
Phases == {"unaccepted", "reading", "writing", "deaf", "closed"}

Init ==
  /\ up = TRUE /\ accepting = TRUE
  /\ op = [c \in Clients |-> "unaccepted"]
  /\ toServer = [c \in Clients |-> << >>]
  /\ toClient = [c \in Clients |-> << >>]
  /\ open = [c \in Clients |-> TRUE]
  /\ client = [c \in Clients |-> [old |-> << >>, waiting |-> FALSE]]
  /\ sent = [c \in Clients |-> << >>]
  /\ seen = [c \in Clients |-> << >>]
  /\ executed = [c \in Clients |-> << >>]
  /\ rushed = [c \in Clients |-> FALSE]
  /\ kv = [d \in Dirs |-> {}]
  /\ files = {}

-----------------------------------------------------------------------------
(* Meetings: the calls of all clients that lead to one directory.            *)

Writes(r, d) ==
  /\ r.method \in {"kv.put", "kv.remove", "object.create"}
  /\ validate_key(Arrives(r.key)) = d
Uses(r, d) ==
  /\ r.method \in KvMethods \cup ObjectMethods
  /\ validate_key(Arrives(r.key)) = d

\* Calls of two clients, one of which changes the directory, may meet there;
\* and a content that was put there may be taken for an object.
Clash(d) ==
  \E c, e \in Clients : \E i \in 1..Len(sent[c]), j \in 1..Len(sent[e]) :
    /\ Writes(sent[c][i], d) /\ Uses(sent[e][j], d)
    /\ \/ c # e
       \/ sent[c][i].method = "kv.put" /\ sent[e][j].method \in ObjectMethods

-----------------------------------------------------------------------------
(* The methods.  Each returns the set of its outcomes: what becomes of the   *)
(* response and the stores after it.                                         *)

\* Contents travel encoded.
encode_base64(v) == [b64 |-> v]
decode_base64(t) == t.b64

\* No text: std::map::operator[] makes it for a key it does not have.
NoText == encode_base64("")

\* The response stays null; an exception leaves the handler.
Silent == [does |-> "silent"]
Throws == [does |-> "throw"]

\* RPC_Response: an object "result" and a text "error", empty on success.
RPC_Response(error, content) ==
  [does |-> "answer", result |-> TRUE, error |-> error, content |-> content]

\* createErrorResponse puts its text into "err"; "error" stays empty.
createErrorResponse == RPC_Response("", NoText)

\* An outcome, with the stores after it, and one that leaves them alone.
Outcome(out, newKv, newFiles) == [out |-> out, kv |-> newKv, files |-> newFiles]
Just(out) == Outcome(out, kv, files)

\* RPC_Request::valid and what every method does with its verdict: no params
\* object at all makes the lookup in it throw.
Guarded(r, outcomes) ==
  CASE r.params = "ok"       -> outcomes
    [] r.params = "mistyped" -> {Just(createErrorResponse)}
    [] r.params = "absent"   -> {Just(Throws)}

\* What only a meeting of calls in d brings about.
IfClash(d, outcomes) == IF Clash(d) THEN outcomes ELSE {}

an_info(r) == {Just(RPC_Response("", encode_base64("uptime")))}

\* root.get_str() on an object throws, before a response is made.
BootstrapFromPeer(r) == {Just(Throws)}
BootstrapFromHostlist(r) == {Just(Throws)}

file_put(r) == Guarded(r,
  { Just(RPC_Response("store file failed", NoText)),
    Outcome(RPC_Response("", encode_base64(r.key)), kv, files \cup {r.key}) })

\* An id that is not stored makes the loader of the public copy throw.
file_get(r) == Guarded(r,
  IF r.key \in files
    THEN { Just(RPC_Response("", encode_base64("path"))),
           Just(RPC_Response("get file failed", NoText)) }
    ELSE {Just(Throws)})

\* Objects: ObjectService has what these two methods do.  What is left in the
\* directory when the object is stored there: all, where none was loaded;
\* nothing, where save() has removed the one that was.
Left(d) ==
  {kv[d]} \cup (IF Archive \in kv[d] THEN {{}} ELSE {}) \cup IfClash(d, SUBSET kv[d])
CreateObject(r) ==
  LET d == validate_key(r.key)
      stored == RPC_Response("", encode_base64(r.key))
  IN Guarded(r,
       {Outcome(createErrorResponse, [kv EXCEPT ![d] = s], files) : s \in Left(d)}
       \cup {Outcome(stored, [kv EXCEPT ![d] = s \cup {Archive}], files) : s \in Left(d)}
       \cup IfClash(d, {Just(Throws)}))

\* "full" is asked for its bool only when the object is loaded; with it, the
\* plain id is the content.
GetObject(r) ==
  LET d == validate_key(r.key)
      loaded == CASE r.full = "no"       -> RPC_Response("", encode_base64("head"))
                  [] r.full = "yes"      -> RPC_Response("", [plain |-> r.key])
                  [] r.full = "mistyped" -> Throws
  IN Guarded(r,
       {Just(RPC_Response("get object failed", NoText))}
       \cup (IF Archive \in kv[d] THEN {Just(loaded)} ELSE {})
       \cup IfClash(d, {Just(Throws)}))

\* object.update and object.delete; session.t.join, leave and update.
Stub(r) == {Just(Silent)}
SessionStub(r) == {Just(Silent)}

\* Another client writes the content k is the digest of, perhaps just now.
Rewritten(c, k) ==
  \E e \in Clients \ {c} : \E i \in 1..Len(sent[e]) :
    sent[e][i].method = "kv.put" /\ Digest[decode_base64(sent[e][i].value)] = k

\* Mutants: a missing key throws as in kv_remove; the content is delivered
\* under whatever name it has.
kv_getThrows(c, r) == Guarded(r,
  IF kv[validate_key(r.key)] = {} THEN {Just(Throws)}
  ELSE {Just(RPC_Response("", NoText))})
kv_getFirst(c, r) == Guarded(r,
  {Just(RPC_Response("kv.get failed", NoText))}
  \cup {Just(RPC_Response("", encode_base64(v))) : v \in kv[validate_key(r.key)]})

\* The store answers with one entry of the directory, any one, under its
\* digest, which kv_get asks for the key.  In a directory that is empty, or
\* that calls meet in, it may find none.
kv_get(c, r) ==
  LET d == validate_key(r.key)
      named(v) == v # Archive /\ Digest[v] = r.key
      found == {IF named(v) THEN encode_base64(v) ELSE NoText : v \in kv[d]}
      torn == IF Rewritten(c, r.key) /\ \E v \in kv[d] : named(v)
                THEN {encode_base64(Garbage)} ELSE {}
  IN Guarded(r,
       {Just(RPC_Response("kv.get failed", NoText))}
       \cup {Just(RPC_Response("", content)) : content \in found \cup torn}
       \cup IfClash(d, {Just(RPC_Response("", NoText))}))

\* create_symlink throws where another put made the link in the meantime, or a
\* removal took the directory.
kv_put(r) ==
  LET d == validate_key(r.key)
  IN Guarded(r,
       { Just(RPC_Response("kv.put failed", NoText)),
         Outcome(RPC_Response("", NoText),
                 [kv EXCEPT ![d] = @ \cup {decode_base64(r.value)}], files) }
       \cup IfClash(d, {Just(Throws)}))

\* Removing a key that is not there lists a directory that is not there; where
\* calls meet, it may fail half-way.
kv_remove(r) ==
  LET d == validate_key(r.key)
      removed == {Outcome(RPC_Response("", NoText), [kv EXCEPT ![d] = {}], files)}
  IN Guarded(r,
       (IF kv[d] = {} THEN {Just(Throws)} ELSE removed)
       \cup IfClash(d, removed \cup {Just(Throws)} \cup
            {Outcome(RPC_Response("kv.remove failed", NoText), [kv EXCEPT ![d] = s], files) :
               s \in SUBSET kv[d]}))

\* The forged error response of an unknown method has no "result", and its
\* "error" is null.
NotFound(r) == {Just([RPC_Response("null", NoText) EXCEPT !.result = FALSE])}

\* The methods RPCManager::init registers, as Handler::Lookup finds them.
Dispatch(c, r) ==
  CASE r.method = "an.info"                  -> an_info(r)
    [] r.method = "an.BootstrapFromPeer"     -> BootstrapFromPeer(r)
    [] r.method = "an.BootstrapFromHostlist" -> BootstrapFromHostlist(r)
    [] r.method = "object.create"            -> CreateObject(r)
    [] r.method = "object.get"               -> GetObject(r)
    [] r.method \in {"object.update", "object.delete"} -> Stub(r)
    [] r.method = "file.put"                 -> file_put(r)
    [] r.method = "file.get"                 -> file_get(r)
    [] r.method = "kv.get"                   -> kv_get(c, r)
    [] r.method = "kv.put"                   -> kv_put(r)
    [] r.method = "kv.remove"                -> kv_remove(r)
    [] r.method \in {"session.t.join", "session.t.leave", "session.t.update"}
                                             -> SessionStub(r)
    [] OTHER                                 -> NotFound(r)

-----------------------------------------------------------------------------
(* The server.                                                               *)

\* Mutant: the accepted connection is not started.
AcceptOnly(c) ==
  /\ up /\ accepting /\ op[c] = "unaccepted"
  /\ op' = [op EXCEPT ![c] = "closed"]
  /\ UNCHANGED << up, accepting, executed, wire, store >>

\* handle_accept: the connection starts to read, the next one is awaited.
Accept(c) ==
  /\ up /\ accepting /\ op[c] = "unaccepted"
  /\ op' = [op EXCEPT ![c] = "reading"]
  /\ UNCHANGED << up, accepting, executed, wire, store >>

\* handle_accept with an error, when a client connects: nobody is awaited any
\* more.
AcceptFails ==
  /\ up /\ accepting /\ \E c \in Clients : op[c] = "unaccepted"
  /\ accepting' = FALSE
  /\ UNCHANGED << up, op, executed, wire, store >>

\* White space is skipped, so a tail that is only the delimiter is nothing: the
\* positions of the parts that hold text, and the first of them.
Text(c, parts) ==
  {i \in 1..Len(parts) : ~(parts[i].part = "tail" /\ sent[c][parts[i].id].cut = "crlf")}
First(c, parts) == parts[Min(Text(c, parts))]

\* The text begins with the whole of a request: json::read takes that value
\* and ignores what follows.
BeginsWhole(c, parts) ==
  /\ First(c, parts).part = "head"
  /\ \/ sent[c][First(c, parts).id].cut = "crlf"
     \/ \E i \in Text(c, parts) : i # Min(Text(c, parts))

\* The request as it arrives.
Received(r) == [method |-> r.method, key |-> Arrives(r.key), value |-> r.value,
                params |-> r.params, full |-> r.full]

\* Handler::Process: forging the response to a text that is not a request
\* indexes a null value, which throws.
Process(c, parts) ==
  IF BeginsWhole(c, parts)
    THEN Dispatch(c, Received(sent[c][First(c, parts).id])) ELSE {Just(Throws)}

\* The response, if there is one, is written; otherwise nothing is pending.
\* An exception on a thread of the pool ends the process.
Respond(c, id, out) ==
  CASE out.does = "throw"  -> up' = FALSE /\ UNCHANGED << op, toClient >>
    [] out.does = "silent" -> op' = [op EXCEPT ![c] = "deaf"] /\ UNCHANGED << up, toClient >>
    [] out.does = "answer" ->
         LET part(p) == [part |-> p, id |-> id, answer |-> out]
         IN /\ toClient' = [toClient EXCEPT ![c] = @ \o << part("a"), part("z") >>]
            /\ op' = [op EXCEPT ![c] = "writing"]
            /\ UNCHANGED up

\* connection::handle_read, once a delimiter has arrived; how much has arrived
\* behind it is TCP's choice.
HandleRead(c) ==
  /\ up /\ op[c] = "reading"
  /\ \E k \in 1..Len(toServer[c]) :
       LET parts == SubSeq(toServer[c], 1, k)
           id    == First(c, parts).id
       IN /\ \E i \in 1..k : parts[i].part = "tail"
          /\ toServer' = [toServer EXCEPT ![c] = SubSeq(@, k + 1, Len(@))]
          /\ IF Text(c, parts) = {}
               THEN /\ op' = [op EXCEPT ![c] = "deaf"]
                    /\ UNCHANGED << up, toClient, executed, store >>
               ELSE \E e \in Process(c, parts) :
                      /\ Respond(c, id, e.out)
                      /\ kv' = e.kv /\ files' = e.files
                      /\ executed' = IF BeginsWhole(c, parts)
                           THEN [executed EXCEPT ![c] = Append(@, id)]
                           ELSE executed
  /\ UNCHANGED << accepting, client, sent, seen, rushed, open >>

\* handle_read with an error, when the client has gone: nothing follows.
ReadError(c) ==
  /\ up /\ op[c] = "reading" /\ ~open[c]
  /\ op' = [op EXCEPT ![c] = "closed"]
  /\ UNCHANGED << up, accepting, executed, wire, store >>

\* Mutant: one answer per connection, nothing is read after it.
HandleWriteLast(c) ==
  /\ up /\ op[c] = "writing"
  /\ op' = [op EXCEPT ![c] = "deaf"]
  /\ UNCHANGED << up, accepting, executed, wire, store >>

\* handle_write: read again, unless writing failed.
HandleWrite(c) ==
  /\ up /\ op[c] = "writing"
  /\ \/ op' = [op EXCEPT ![c] = "reading"]
     \/ ~open[c] /\ op' = [op EXCEPT ![c] = "closed"]
  /\ UNCHANGED << up, accepting, executed, wire, store >>

-----------------------------------------------------------------------------
(* The client, rpc.js.  When the daemon has ended, only answers that are on  *)
(* their way still arrive.                                                   *)

\* an.call: the next id, the callback kept under it, one write.
Call(c) ==
  /\ up /\ open[c] /\ Len(sent[c]) < MaxCalls[c]
  /\ \E r \in Calls[c] :
       LET id == Len(sent[c]) + 1
           part(p) == [part |-> p, id |-> id]
       IN /\ sent' = [sent EXCEPT ![c] = Append(@, r)]
          /\ toServer' = [toServer EXCEPT ![c] = @ \o << part("head"), part("tail") >>]
  /\ rushed' = [rushed EXCEPT ![c] = @ \/ Len(sent[c]) > Len(seen[c])]
  /\ UNCHANGED << up, accepting, op, executed, toClient, client, seen, open, store >>

\* data.split("{$}"), part by part: the texts in front of a delimiter and what
\* follows the last one.
Cut(split, part) ==
  IF part.part = "z"
    THEN [whole |-> Append(split.whole, Append(split.rest, part)), rest |-> << >>]
    ELSE [whole |-> split.whole, rest |-> Append(split.rest, part)]
Split(data) ==
  LET split[n \in 0..Len(data)] ==
        IF n = 0 THEN [whole |-> << >>, rest |-> << >>]
        ELSE Cut(split[n - 1], data[n])
  IN  split

\* JSON.parse of each text but the last; the first that it refuses ends it.
Garbled == [id |-> 0, answer |-> Throws]
parse(text) ==
  IF Len(text) = 2 /\ text[1].id = text[2].id
    THEN [id |-> text[1].id, answer |-> text[1].answer] ELSE Garbled
Parsed(data) ==
  LET texts == Split(data)[Len(data)].whole
      all == [j \in 1..Len(texts) |-> parse(texts[j])]
      bad == {j \in 1..Len(texts) : all[j] = Garbled}
  IN IF bad = {} THEN all ELSE SubSeq(all, 1, Min(bad))

\* Mutant: what was taken is kept as well.
RestAll(data) == data

\* What follows the last "{$}".
Rest(data) == Split(data)[Len(data)].rest

\* Mutant: what was kept is forgotten.
OnDataForgets(c) ==
  /\ open[c]
  /\ \E k \in 1..Len(toClient[c]) :
       LET data == SubSeq(toClient[c], 1, k)
           answers == Parsed(data)
       IN /\ toClient' = [toClient EXCEPT ![c] = SubSeq(@, k + 1, Len(@))]
          /\ seen' = [seen EXCEPT ![c] = @ \o answers]
          /\ client' = [client EXCEPT ![c] = [old |-> Rest(data), waiting |-> TRUE]]
          /\ open' = [open EXCEPT ![c] = \A j \in DOMAIN answers : answers[j] # Garbled]
  /\ UNCHANGED << up, accepting, op, executed, toServer, sent, rushed, store >>

\* The listener for "data": what was kept goes in front, whole answers are
\* taken, the rest is kept.  A text JSON.parse refuses ends the client.
OnData(c) ==
  /\ open[c]
  /\ \E k \in 1..Len(toClient[c]) :
       LET arrived == SubSeq(toClient[c], 1, k)
           data == IF client[c].waiting THEN client[c].old \o arrived ELSE arrived
           answers == Parsed(data)
       IN /\ toClient' = [toClient EXCEPT ![c] = SubSeq(@, k + 1, Len(@))]
          /\ seen' = [seen EXCEPT ![c] = @ \o answers]
          /\ client' = [client EXCEPT ![c] = [old |-> Rest(data), waiting |-> TRUE]]
          /\ open' = [open EXCEPT ![c] = \A j \in DOMAIN answers : answers[j] # Garbled]
  /\ UNCHANGED << up, accepting, op, executed, toServer, sent, rushed, store >>

\* an.close: the server's next read may fail before it has got what is on its
\* way (ReadError).
Close(c) ==
  /\ up /\ open[c]
  /\ open' = [open EXCEPT ![c] = FALSE]
  /\ toClient' = [toClient EXCEPT ![c] = << >>]
  /\ UNCHANGED << up, accepting, op, executed, toServer, client, sent, seen, rushed, store >>

ServerStep(c) == Accept(c) \/ HandleWrite(c) \/ ReadError(c) \/ HandleRead(c)

Next ==
  \/ AcceptFails
  \/ \E c \in Clients : ServerStep(c) \/ Call(c) \/ OnData(c) \/ Close(c)

Spec == Init /\ [][Next]_vars

\* Some handler that is ready runs: threads of the pool run the server's, TCP
\* delivers, and the client's event loop runs its listener.  Calls are finitely
\* many, so none of them is overtaken for ever.  Nobody has to call or to close.
LiveSpec == Spec /\ WF_vars(\E c \in Clients : ServerStep(c) \/ OnData(c))

-----------------------------------------------------------------------------
(* Properties.                                                               *)

\* The methods that answer every request with a params object, whatever the
\* stores hold, as long as no calls meet, and those that never answer.
Tame(r) ==
  /\ r.params # "absent"
  /\ r.method \notin {"an.BootstrapFromPeer", "an.BootstrapFromHostlist", "file.get", "kv.remove"}
  /\ ~(r.method = "object.get" /\ r.full = "mistyped")
Mute(r) == r.method \in {"object.update", "object.delete",
                         "session.t.join", "session.t.leave", "session.t.update"}

SomeCall(c, P(_)) == \E i \in 1..Len(sent[c]) : P(sent[c][i])

Rising(s) == \A i, j \in 1..Len(s) : i < j => s[i] < s[j]

\* Types: every call sent is on the wire, dispatched or dropped, and the two
\* buffers never hold a part of a call that was not made.
TypeOK ==
  /\ up \in BOOLEAN /\ accepting \in BOOLEAN
  /\ op \in [Clients -> Phases]
  /\ open \in [Clients -> BOOLEAN] /\ rushed \in [Clients -> BOOLEAN]
  /\ kv \in [Dirs -> SUBSET (Values \cup {Archive})] /\ files \subseteq Files
  /\ \A c \in Clients :
       /\ Len(sent[c]) <= MaxCalls[c]
       /\ \A i \in 1..Len(toServer[c]) : toServer[c][i].id \in 1..Len(sent[c])
       /\ \A i \in 1..Len(toClient[c]) : toClient[c][i].id \in Range(executed[c])
       /\ Len(client[c].old) <= 1

\* However TCP cuts the two streams, rpc.js parses only whole answers, runs
\* each callback at most once and in the order of the calls, and the server
\* dispatches each request at most once and in that order (rpc.js:62-109
\* against rpc_server.cc:79-116).
AnswersOnceInOrder ==
  \A c \in Clients :
    /\ Rising(executed[c])
    /\ \A j \in 1..Len(seen[c]) : seen[c][j] # Garbled
    /\ Rising([j \in 1..Len(seen[c]) |-> seen[c][j].id])
    /\ \A j \in 1..Len(seen[c]) : seen[c][j].id \in Range(executed[c])

\* The daemon ends only when some client did not wait for its answers, called a
\* method whose handler can throw by itself, or calls could meet in a directory
\* (rpc_server.cc:86, ffstore.cc:93 and 169): clients that wait, use the other
\* methods and share no directory they write never end it.
TameClientsKeepServerUp ==
  ~up => \/ \E c \in Clients : rushed[c] \/ SomeCall(c, LAMBDA r : ~Tame(r))
         \/ \E d \in Dirs : Clash(d)

\* A connection the server no longer reads belongs to a client that did not
\* wait or that called a method without an answer; nothing another client
\* does makes it deaf (rpc_server.cc:93 and 102).
DeafOnlyByItsOwnClient ==
  \A c \in Clients : op[c] = "deaf" => rushed[c] \/ SomeCall(c, Mute)

\* A content kv.get delivers has the key for its digest, and some client put it
\* under a key that leads to the same directory, perhaps another one: a short
\* key and its digest are one to the store, and so are keys that differ in
\* white space (ffstore.cc:193-200, rpc_server.cc:86).  It may be torn only
\* when another client put the content that the key is the digest of.
KvContentRight ==
  \A c \in Clients : \A j \in 1..Len(seen[c]) :
    LET r == Received(sent[c][seen[c][j].id])
        content == seen[c][j].answer.content
        v == decode_base64(content)
    IN r.method = "kv.get" /\ content # NoText =>
         IF v = Garbage THEN Rewritten(c, r.key)
         ELSE /\ Digest[v] = r.key
              /\ \E e \in Clients : SomeCall(e, LAMBDA p :
                   /\ p.method = "kv.put" /\ Writes(p, validate_key(r.key))
                   /\ decode_base64(p.value) = v)

\* A client that waits for its answers and calls no mute method gets an
\* answer to every call, while the daemon is up, accepts and the connection is
\* open (rpc_server.h:52-73).
EveryCallAnswered ==
  \A c \in Clients :
    (Len(sent[c]) > Len(seen[c])) ~>
      \/ Len(seen[c]) = Len(sent[c])
      \/ ~up \/ ~open[c] \/ rushed[c] \/ SomeCall(c, Mute)
      \/ ~accepting /\ op[c] = "unaccepted"
============================================================================
