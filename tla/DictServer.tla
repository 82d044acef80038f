----------------------------- MODULE DictServer -----------------------------
(***************************************************************************)
(* The dictionary daemon (server.c) with its clients (client.c), its        *)
(* database and the web site it asks.  One thread runs the event loop: it   *)
(* accepts connections, reads one word from each, looks the word up in the  *)
(* cache, else fetches its definition, caches it, inserts it into the       *)
(* database, and answers.  Clients come and go at any time, and the process *)
(* may die between any two steps, losing everything but the database rows.  *)
(*                                                                         *)
(* A word's definition is represented by the word itself.                   *)
(***************************************************************************)
EXTENDS EventLoop, Sequences, SequencesExt

CONSTANTS
    Clients,        \* client processes
    Words,          \* what a client may send: a word, or a malformed message
    Unparsable,     \* the messages serverReadClientMessage refuses
    Defined,        \* the words for which the site's page holds a definition
    Quoted,         \* the words whose INSERT has an apostrophe in it
    Hash,           \* hashString
    MinCapacity,    \* HM_MIN_CAPACITY
    Backlog,        \* BACKLOG, the kernel's queue of connections to accept
    Faults,         \* which of FaultKinds may happen
    Listener, Closed, Kept, NoWord, Stack   \* model values

FaultKinds == {"accept", "epoll", "db", "net", "write", "kill", "rst"}

ASSUME WordsAssumption ==
    /\ Unparsable \subseteq Words /\ Defined \subseteq Words /\ Quoted \subseteq Words
    /\ Hash \in [Words -> Nat]
    /\ {NoWord, Stack, "none", "notfound", "eof", "partial", "reset"} \intersect Words = {}
    /\ NoWord # Stack /\ NoWord # "notfound"

ASSUME ServerAssumption ==
    /\ MinCapacity \in Nat \ {0} /\ Backlog \in Nat \ {0}
    /\ Faults \subseteq FaultKinds
    /\ Listener # Closed /\ Kept \notin {Listener, Closed}
    /\ {Listener, Closed, Kept} \intersect Clients = {}

VARIABLES
    peer,           \* each client's end: "idle", "open", closed ("fin"), reset ("rst")
    sent,           \* the word the client has written, or NoWord
    inbox,          \* what the client has been answered, "none" until then
    backlog,        \* connections the kernel holds for accept
    file,           \* the server's descriptor table: Listener, a client, Closed,
                    \* or Kept by the handle of a failed request to the site
    pc,             \* where the server's thread is
    cur,            \* the event serverSendClientReply is handling
    req, resp,      \* its word, its response
    clientcount,    \* server.clientcount
    cache, cap,     \* server.cache: entries, newest first in each chain; capacity
    rows,           \* the table dict, in insertion order
    loaded          \* how many rows serverInitDictionary has read

clientVars == <<peer, sent, inbox>>
cacheVars == <<cache, cap>>
dbVars == <<rows, loaded>>
reqVars == <<cur, req, resp>>
vars == <<loopVars, clientVars, backlog, file, pc, reqVars, clientcount, cacheVars, dbVars>>

Sfd == 0            \* server.sfd; the other descriptors of the process are left out
NoEvent == [fd |-> -1, mask |-> {}, conn |-> Closed]
Events == [fd : Descriptors, mask : Masks, conn : Clients \union {Listener}]
Entries == [key : Words \union {Stack}, hash : Nat, def : Words]
Answers == Words \union {"none", "notfound", "eof", "partial", "reset"}

Free == {fd \in Descriptors : file[fd] = Closed}
Held == {c \in Clients : (\E fd \in Descriptors : file[fd] = c)
                         \/ (\E i \in DOMAIN backlog : backlog[i] = c)}

TypeOK ==
    /\ idle \in [Slots -> Masks] /\ interest \in [Descriptors -> Masks]
    /\ elmax \in -1 .. Count - 1 /\ active \subseteq Events
    /\ peer \in [Clients -> {"idle", "open", "fin", "rst"}]
    /\ sent \in [Clients -> Words \union {NoWord}]
    /\ inbox \in [Clients -> Answers]
    /\ backlog \in Seq(Clients) /\ Len(backlog) <= Backlog
    /\ file \in [Descriptors -> Clients \union {Listener, Closed, Kept}]
    /\ pc \in {"down", "load", "loop", "fetch", "persist", "reply"}
    /\ cur \in Events \union {NoEvent}
    /\ req \in Words \union {NoWord} /\ resp \in Words \union {NoWord, "notfound"}
    /\ clientcount \in Int
    /\ cache \in Seq(Entries) /\ cap \in Nat \ {0}
    /\ rows \in Seq(Words) /\ loaded \in Nat /\ loaded <= Len(rows)

Init ==
    /\ idle = NoSlots /\ interest = NoInterest /\ elmax = -1 /\ active = {}
    /\ peer = [c \in Clients |-> "idle"]
    /\ sent = [c \in Clients |-> NoWord]
    /\ inbox = [c \in Clients |-> "none"]
    /\ backlog = <<>> /\ file = [fd \in Descriptors |-> Closed]
    /\ pc = "down" /\ cur = NoEvent /\ req = NoWord /\ resp = NoWord
    /\ clientcount = 0 /\ cache = <<>> /\ cap = MinCapacity
    /\ rows = <<>> /\ loaded = 0

-----------------------------------------------------------------------------
(* The clients: connect, write one word, read one answer, exit. *)

ClientConnect(c) ==
    /\ peer[c] = "idle" /\ pc # "down" /\ Len(backlog) < Backlog
    /\ peer' = [peer EXCEPT ![c] = "open"]
    /\ backlog' = Append(backlog, c)
    /\ UNCHANGED <<loopVars, sent, inbox, file, pc, reqVars, clientcount, cacheVars, dbVars>>

ClientWrite(c) ==
    /\ peer[c] = "open" /\ sent[c] = NoWord /\ inbox[c] = "none"
    /\ \E w \in Words : sent' = [sent EXCEPT ![c] = w]
    /\ UNCHANGED <<loopVars, peer, inbox, backlog, file, pc, reqVars, clientcount,
                   cacheVars, dbVars>>

\* The client has its answer, or end of file, and exits.
ClientRead(c) ==
    /\ peer[c] = "open" /\ inbox[c] # "none"
    /\ peer' = [peer EXCEPT ![c] = "idle"]
    /\ sent' = [sent EXCEPT ![c] = NoWord]
    /\ inbox' = [inbox EXCEPT ![c] = "none"]
    /\ UNCHANGED <<loopVars, backlog, file, pc, reqVars, clientcount, cacheVars, dbVars>>

\* The client is interrupted: its end closes, or the connection is reset.
ClientKilled(c) ==
    /\ peer[c] = "open" /\ inbox[c] = "none"
    /\ \E how \in {"fin"} \union ({"rst"} \intersect Faults) :
          peer' = [peer EXCEPT ![c] = how]
    /\ UNCHANGED <<loopVars, sent, inbox, backlog, file, pc, reqVars, clientcount,
                   cacheVars, dbVars>>

\* The server's end of the connections of cs closes after sending answer[c].
HangUp(cs, answer) ==
    LET gone == {c \in cs : peer[c] # "open"} IN
    /\ inbox' = [c \in Clients |-> IF c \in cs \ gone THEN answer[c] ELSE inbox[c]]
    /\ peer' = [c \in Clients |-> IF c \in gone THEN "idle" ELSE peer[c]]
    /\ sent' = [c \in Clients |-> IF c \in gone THEN NoWord ELSE sent[c]]

-----------------------------------------------------------------------------
(* The cache.  hmapAdd keeps the caller's pointer as the key: rows are added *)
(* with a copy of the word, requests with the address of the word buffer on  *)
(* the stack of serverSendClientReply, the key Stack.  That function is       *)
(* always entered from the same frame, so at every lookup a Stack key reads   *)
(* as the word being looked up, and only the stored hash tells entries apart. *)

\* Mutant: the key alone is compared.
MatchesMutant(w) == {i \in DOMAIN cache : cache[i].key \in {w, Stack}}

Matches(w) == {i \in DOMAIN cache : cache[i].hash = Hash[w] /\ cache[i].key \in {w, Stack}}

Cached(w) == Matches(w) # {}

\* hmapGet: the first match in its chain.
FirstMatch(w, i) == i \in Matches(w) /\ \A j \in Matches(w) : i <= j

\* (unsigned int)(HM_LOAD * capacity) entries make the next hmapAdd expand.
ShouldRebuild == Len(cache) >= (67 * cap) \div 100

\* Mutant: the head of a chain is not relinked.
RebuiltMutant == IF ShouldRebuild THEN Reverse(Tail(cache)) ELSE cache

\* _hmapExpand relinks each chain entry by entry, which reverses it.
Rebuilt == IF ShouldRebuild THEN Reverse(cache) ELSE cache

hmapAdd(key, w) ==
    /\ cap' = IF ShouldRebuild THEN 2 * cap ELSE cap
    /\ cache' = IF Cached(w) THEN Rebuilt
                ELSE <<[key |-> key, hash |-> Hash[w], def |-> w]>> \o Rebuilt

-----------------------------------------------------------------------------
(* The process starts and stops. *)

\* The listening socket exists, and may be connected to, before the rows are
\* read.  The result of registering it is ignored.
serverInit ==
    /\ pc = "down" /\ pc' = "load"
    /\ file' = [file EXCEPT ![Sfd] = Listener]
    /\ \/ eloopAddEvent(Sfd, {"READ"})
       \/ "epoll" \in Faults /\ UNCHANGED <<idle, elmax, interest>>
    /\ UNCHANGED <<active, clientVars, backlog, reqVars, clientcount, cacheVars, dbVars>>

\* The process ends: whoever is connected sees it, answer[c] for its client c.
\* What the next process will allocate is reset here.
Die(answer) ==
    /\ pc' = "down"
    /\ HangUp(Held, answer)
    /\ eloopCreate
    /\ backlog' = <<>> /\ file' = [fd \in Descriptors |-> Closed]
    /\ cur' = NoEvent /\ req' = NoWord /\ resp' = NoWord
    /\ clientcount' = 0 /\ cache' = <<>> /\ cap' = MinCapacity
    /\ loaded' = 0 /\ UNCHANGED rows

AllReset == [c \in Clients |-> "reset"]

Kill == pc # "down" /\ "kill" \in Faults /\ Die(AllReset)

\* dbForEachRow calls serverTransferToCache for the next row.
serverTransferToCache ==
    /\ pc = "load" /\ loaded < Len(rows)
    /\ loaded' = loaded + 1
    /\ hmapAdd(rows[loaded + 1], rows[loaded + 1])
    /\ UNCHANGED <<loopVars, clientVars, backlog, file, pc, reqVars, clientcount, rows>>

\* dbForEachRow comes to the end of the rows, or a query or step fails, which is
\* taken for the end.
dbForEachRowReturns == loaded = Len(rows) \/ "db" \in Faults

\* Mutant: the last row is not read.
serverInitDictionaryReturnsMutant ==
    /\ pc = "load" /\ pc' = "loop"
    /\ loaded + 1 >= Len(rows)
    /\ UNCHANGED <<loopVars, clientVars, backlog, file, reqVars, clientcount,
                   cacheVars, dbVars>>

\* serverInitDictionary returns, and with it serverInit: the loop starts.
serverInitDictionaryReturns ==
    /\ pc = "load" /\ pc' = "loop"
    /\ dbForEachRowReturns
    /\ UNCHANGED <<loopVars, clientVars, backlog, file, reqVars, clientcount,
                   cacheVars, dbVars>>

-----------------------------------------------------------------------------
(* The event loop and the handlers. *)

Readable(fd) ==
    \/ file[fd] = Listener /\ backlog # <<>>
    \/ file[fd] \in Clients /\ (sent[file[fd]] # NoWord \/ peer[file[fd]] # "open")

\* An error or hang-up condition is reported as READ and WRITE.
ReadyMask(fd) ==
    IF file[fd] \in Clients /\ peer[file[fd]] = "rst" THEN {"READ", "WRITE"} ELSE {"READ"}

ReadyEvents ==
    {[fd |-> fd, mask |-> ReadyMask(fd), conn |-> file[fd]] :
        fd \in {d \in Descriptors : Readable(d)}}

eloopProcessEvents ==
    /\ pc = "loop" /\ eloopPoll(ReadyEvents)
    /\ UNCHANGED <<idle, elmax, interest, clientVars, backlog, file, pc, reqVars,
                   clientcount, cacheVars, dbVars>>

\* Mutant: the handler runs again for the WRITE bit of the event.
DispatchMutant(e) ==
    /\ pc = "loop" /\ eloopFires(e)
    /\ active' = IF "WRITE" \in e.mask THEN active ELSE active \ {e}

\* The loop calls the read callback of an event of the batch.
Dispatch(e) == pc = "loop" /\ eloopFires(e) /\ active' = active \ {e}

\* accept(2) fails for want of a descriptor or of a connection.
AcceptFails(e) ==
    /\ Dispatch(e) /\ file[e.fd] = Listener
    /\ Free = {} \/ backlog = <<>>
    /\ UNCHANGED <<idle, elmax, interest, clientVars, backlog, file, pc, reqVars,
                   clientcount, cacheVars, dbVars>>

\* accept(2) is given a length that was never set, and may take the connection
\* and fail on it; or the socket cannot be made non-blocking, and is closed.
AcceptDrops(e) ==
    /\ Dispatch(e) /\ file[e.fd] = Listener
    /\ "accept" \in Faults /\ Free # {}
    /\ backlog # <<>> /\ backlog' = Tail(backlog)
    /\ HangUp({Head(backlog)}, AllReset)
    /\ UNCHANGED <<idle, elmax, interest, file, pc, reqVars, clientcount, cacheVars, dbVars>>

\* accept(2) gives the oldest connection the lowest free descriptor.
Accept(fd) ==
    /\ fd \in Free /\ \A g \in Free : fd <= g
    /\ backlog # <<>> /\ backlog' = Tail(backlog)
    /\ file' = [file EXCEPT ![fd] = Head(backlog)]

serverAccept(e, fd) ==
    /\ Dispatch(e) /\ file[e.fd] = Listener
    /\ Accept(fd)
    /\ eloopAddEvent(fd, e.mask)
    /\ clientcount' = clientcount + 1
    /\ UNCHANGED <<clientVars, pc, reqVars, cacheVars, dbVars>>

\* Mutant: the connection is counted before it is registered.
serverAcceptLeaksMutant(e, fd) ==
    /\ Dispatch(e) /\ file[e.fd] = Listener
    /\ Accept(fd)
    /\ ~eloopAddEventOk(fd) \/ "epoll" \in Faults
    /\ clientcount' = clientcount + 1
    /\ UNCHANGED <<idle, elmax, interest, clientVars, pc, reqVars, cacheVars, dbVars>>

\* eloopAddEvent fails: the handler returns, and the descriptor stays open.
serverAcceptLeaks(e, fd) ==
    /\ Dispatch(e) /\ file[e.fd] = Listener
    /\ Accept(fd)
    /\ ~eloopAddEventOk(fd) \/ "epoll" \in Faults
    /\ UNCHANGED <<idle, elmax, interest, clientVars, pc, reqVars, clientcount,
                   cacheVars, dbVars>>

\* The label error of serverSendClientReply, reached on every path.
CloseConnection(e, answer) ==
    /\ clientcount' = clientcount - 1
    /\ eloopDeleteEventAndClose(e.fd, e.mask)
    /\ file' = [file EXCEPT ![e.fd] = Closed]
    /\ HangUp({file[e.fd]}, [c \in {file[e.fd]} |-> answer])
    /\ pc' = "loop" /\ cur' = NoEvent /\ req' = NoWord /\ resp' = NoWord

\* What read and serverReadClientMessage make of the connection's bytes.
Request(c) == IF sent[c] \in Unparsable THEN NoWord ELSE sent[c]

\* read fails, or gives no well-formed message: straight to the end.
RequestMalformed(e) ==
    /\ Dispatch(e) /\ file[e.fd] # Listener
    /\ Request(file[e.fd]) = NoWord
    /\ CloseConnection(e, "eof")
    /\ UNCHANGED <<backlog, cacheVars, dbVars>>

\* serverLookupClientRequest finds the word in the cache.
RequestCached(e) ==
    /\ Dispatch(e) /\ file[e.fd] # Listener
    /\ cur' = e /\ req' = Request(file[e.fd]) /\ req' # NoWord
    /\ \E i \in DOMAIN cache : FirstMatch(req', i) /\ resp' = cache[i].def
    /\ pc' = "reply"
    /\ UNCHANGED <<idle, elmax, interest, clientVars, backlog, file, clientcount,
                   cacheVars, dbVars>>

\* It does not, and asks the site.
RequestUnknown(e) ==
    /\ Dispatch(e) /\ file[e.fd] # Listener
    /\ cur' = e /\ req' = Request(file[e.fd]) /\ req' # NoWord
    /\ ~Cached(req')
    /\ resp' = NoWord /\ pc' = "fetch"
    /\ UNCHANGED <<idle, elmax, interest, clientVars, backlog, file, clientcount,
                   cacheVars, dbVars>>

\* The site does not answer, or there is no descriptor left for the request.
curlHttpGetFails == "net" \in Faults \/ Free = {}

\* curlHttpGet gives no page.  It returns without curl_easy_cleanup, and the
\* handle keeps what descriptors it has, which depends on the libcurl built
\* against: none, or those of its multi handle.  One stands for all of them.
FetchFails ==
    /\ pc = "fetch" /\ curlHttpGetFails
    /\ \/ file' = file
       \/ \E fd \in Free : file' = [file EXCEPT ![fd] = Kept]
    /\ resp' = "notfound" /\ pc' = "reply"
    /\ UNCHANGED <<loopVars, clientVars, backlog, cur, req, clientcount,
                   cacheVars, dbVars>>

\* Mutant: the definition is not cached.
FetchFindsUncached ==
    /\ pc = "fetch" /\ Free # {} /\ req \in Defined
    /\ pc' = "persist"
    /\ UNCHANGED <<loopVars, clientVars, backlog, file, reqVars, clientcount, cacheVars, dbVars>>

\* Mutant: the definition is not persisted.
FetchFindsUnpersisted ==
    /\ pc = "fetch" /\ Free # {} /\ req \in Defined
    /\ hmapAdd(Stack, req)
    /\ resp' = req /\ pc' = "reply"
    /\ UNCHANGED <<loopVars, clientVars, backlog, file, cur, req, clientcount, dbVars>>

FetchFinds ==
    /\ pc = "fetch" /\ Free # {} /\ req \in Defined
    /\ hmapAdd(Stack, req)
    /\ pc' = "persist"
    /\ UNCHANGED <<loopVars, clientVars, backlog, file, reqVars, clientcount, dbVars>>

\* A page without a definition: htmlConcatList returns NULL, which is cached
\* and then dereferenced by serverPesistToDb.
FetchFindsNothing ==
    /\ pc = "fetch" /\ Free # {} /\ req \notin Defined
    /\ Die(AllReset)

\* An apostrophe ends the statement's string too early, or sqlite fails.
dbExecMayFail == req \in Quoted \/ "db" \in Faults

\* The result of the INSERT is ignored.
serverPesistToDb ==
    /\ pc = "persist"
    /\ \/ req \notin Quoted /\ rows' = Append(rows, req)
       \/ dbExecMayFail /\ rows' = rows
    /\ resp' = req /\ pc' = "reply"
    /\ UNCHANGED <<loopVars, clientVars, backlog, file, cur, req, clientcount, cacheVars, loaded>>

\* The whole response is written.
Reply ==
    /\ pc = "reply"
    /\ resp \in Words => peer[file[cur.fd]] # "rst"
    /\ CloseConnection(cur, resp)
    /\ UNCHANGED <<active, backlog, cacheVars, dbVars>>

\* The write of the error text fails, or is short: a warning, and the connection
\* is closed as it is.
ErrorTextLost ==
    /\ pc = "reply" /\ resp = "notfound" /\ "write" \in Faults
    /\ \E answer \in {"eof", "partial"} : CloseConnection(cur, answer)
    /\ UNCHANGED <<active, backlog, cacheVars, dbVars>>

\* A short or failed write of a definition: the warning that reports it takes
\* the process id for a string, and the process dies.  So it may, by SIGPIPE, of
\* any write to a reset connection.
ReplyCutShort ==
    /\ pc = "reply"
    /\ peer[file[cur.fd]] = "rst" \/ (resp \in Words /\ "write" \in Faults)
    /\ Die([AllReset EXCEPT ![file[cur.fd]] = "partial"])

-----------------------------------------------------------------------------
ServerStep ==
    \/ serverTransferToCache \/ serverInitDictionaryReturns
    \/ eloopProcessEvents
    \/ \E e \in active :
          \/ AcceptFails(e) \/ AcceptDrops(e)
          \/ \E fd \in Descriptors : serverAccept(e, fd) \/ serverAcceptLeaks(e, fd)
          \/ RequestMalformed(e) \/ RequestCached(e) \/ RequestUnknown(e)
    \/ FetchFails \/ FetchFinds \/ FetchFindsNothing
    \/ serverPesistToDb \/ Reply \/ ErrorTextLost \/ ReplyCutShort

Next ==
    \/ \E c \in Clients :
          ClientConnect(c) \/ ClientWrite(c) \/ ClientRead(c) \/ ClientKilled(c)
    \/ serverInit \/ Kill \/ ServerStep

Spec == Init /\ [][Next]_vars

(***************************************************************************)
(* The thread runs eloopMain for ever, the site and the database answer or  *)
(* fail, and a client writes its word after it connects; nobody is obliged  *)
(* to start the daemon, to connect, to read, or not to kill it.             *)
(***************************************************************************)
FairSpec == Spec /\ WF_vars(ServerStep) /\ \A c \in Clients : WF_vars(ClientWrite(c))

-----------------------------------------------------------------------------
Connected == {fd \in Descriptors : file[fd] \in Clients}
Registered == {fd \in Slots : idle[fd] # {}}

\* The loop's table and the kernel's set hold the same masks, and only for open
\* descriptors, although eloopStateDelete never removes one.
TableMatchesKernel ==
    /\ \A fd \in Registered : fd \in Descriptors /\ interest[fd] = idle[fd]
    /\ \A fd \in Descriptors : interest[fd] # {} => fd \in Registered /\ file[fd] # Closed

\* eloop.max is the highest registered descriptor, or -1.
MaxIsHighest ==
    /\ \A fd \in Registered : fd <= elmax
    /\ elmax # -1 => elmax \in Registered

\* clientcount counts the registered connections, no more and no less.
CountIsExact == clientcount = Cardinality(Registered \intersect Connected)

\* Every event of the batch is still for the file it was reported for, whatever
\* the handlers of the events before it accepted and closed.
NoStaleEvent ==
    \A e \in active : file[e.fd] = e.conn /\ "READ" \in idle[e.fd] \intersect e.mask

\* A connection's descriptor is lost only when it is beyond the loop's table.
LeakOnlyBeyondTable == \A fd \in Connected : fd \in Registered \/ fd >= Count

\* What the next epoll_wait of the loop finds ready.
NextBatch == IF elmax = -1 THEN {} ELSE {e \in ReadyEvents : interest[e.fd] # {}}

\* The loop never goes deaf: whenever it is about to wait, a client that has sent
\* its word and waits for the answer has an event to wake it, of its own or, in
\* the backlog, of the listener; or it is one of the lost descriptors.
WaitersAreHeard ==
    pc = "loop" /\ active = {} =>
        \A c \in Clients : peer[c] = "open" /\ sent[c] # NoWord /\ inbox[c] = "none" =>
            \/ \E fd \in Connected : fd >= Count /\ file[fd] = c
            \/ \E e \in NextBatch :
                  e.conn = c \/ (e.conn = Listener /\ \E i \in DOMAIN backlog : backlog[i] = c)

\* How many steps the thread has left in the request it serves, at most.
Steps == [down |-> 0, load |-> 0, loop |-> 0, fetch |-> 3, persist |-> 2, reply |-> 1]

\* How many it has left before it polls again: four for an event not yet looked
\* at, and those of its request.
Work == 4 * Cardinality(active) + Steps[pc]

\* A batch ends: each step of the thread brings its end closer, and nothing that
\* clients do meanwhile puts it off.
BatchesEnd == [][Work # 0 => Work' <= Work /\ (ServerStep => Work' < Work)]_vars

\* The definition a client receives is that of a word with its word's hash.
AnswerHashMatches ==
    \A c \in Clients : inbox[c] \in Words =>
        sent[c] \in Words /\ Hash[inbox[c]] = Hash[sent[c]]

\* The definition a client receives is that of its word.
AnswerIsForTheWord ==
    \A c \in Clients : inbox[c] \in Words => inbox[c] = sent[c]

Stored == {rows[i] : i \in DOMAIN rows}

\* A client whose word the database holds is not told that it was not found, and
\* not hung up on without an answer, however the word came to be there.
StoredIsNotDenied ==
    [][\A c \in Clients : inbox[c] = "none" /\ inbox'[c] \in {"notfound", "eof"} =>
          sent[c] \in Unparsable \/ sent[c] \notin Stored]_vars

\* Once the rows are loaded, the cache finds every word the database holds.
RowsAreCached ==
    pc \notin {"down", "load"} => \A w \in Stored : Cached(w)

\* No word is inserted twice.
NoDuplicateRows == \A i, j \in DOMAIN rows : rows[i] = rows[j] => i = j

\* The site is asked only for words the database does not hold.
FetchOnlyIfUnknown == [][pc # "fetch" /\ pc' = "fetch" => req' \notin Stored]_vars

\* What the cache answers for a word does not change while the server runs.
AnswersAreStable ==
    [][pc # "down" /\ pc' # "down" =>
        \A w \in Words : \A i \in DOMAIN cache : FirstMatch(w, i) =>
            \E j \in DOMAIN cache' : FirstMatch(w, j)' /\ cache'[j].def = cache[i].def]_vars

\* A definition that was given out is in the database.
AnsweredIsDurable == \A c \in Clients : inbox[c] \in Words => inbox[c] \in Stored

\* A word the site does not define is answered with "Failed to find word".
UnknownIsReported ==
    \A c \in Clients : sent[c] \in Words \ (Unparsable \union Defined) =>
        inbox[c] \in {"none", "notfound"}

\* Whoever has sent a word gets an answer or end of file, or gives up: also when failed
\* requests to the site have kept every descriptor but the one of the client that is
\* being served, which the next client then gets.
EveryRequestEnds ==
    \A c \in Clients :
        peer[c] = "open" /\ sent[c] # NoWord ~> inbox[c] # "none" \/ peer[c] # "open"

\* A connection, a fetch that has a descriptor, or an answer is lost, or the process
\* dies of something other than a page without a definition.
Misfortune ==
    \/ FetchFails /\ Free # {}
    \/ ReplyCutShort \/ Kill
    \/ \E e \in active : AcceptDrops(e)

\* There is a descriptor for the request: neither the handles of failed requests nor
\* other clients have them all.
RoomToFetch == pc = "fetch" => Free # {}

\* Once misfortunes stop, and if from then on there is a descriptor for every fetch, a
\* well-formed word the site defines ends up in the database if it is sent again and
\* again, whether or not its clients wait.
EveryWordIsLearned ==
    <>[][~Misfortune]_vars /\ <>[]RoomToFetch =>
        \A w \in (Defined \ Unparsable) \ Quoted :
            []<>(\E c \in Clients : sent[c] = w /\ inbox[c] = "none" /\ pc # "down") => <>(w \in Stored)

\* To its clients the daemon is a store of definitions: whatever it fetches, caches
\* and inserts, and however often it dies, a client gets the definition of its word
\* once that is stored, the error text or what is left of it only for a word that
\* is not, and else end of file only for a malformed request; and each word is
\* learned once.
Service == INSTANCE DictService WITH asked <- sent, answer <- inbox, stored <- Stored
ImplementsDictService == Service!Spec

=============================================================================
