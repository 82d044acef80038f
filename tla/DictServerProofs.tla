-------------------------- MODULE DictServerProofs --------------------------
(***************************************************************************)
(* Theorems about DictServer for every value of its constants.              *)
(***************************************************************************)
EXTENDS DictServer, FiniteSetTheorems, WellFoundedInduction, TLAPS

-----------------------------------------------------------------------------
(* Type correctness. *)

\* While a request is being served there is an event, a word and, at the end,
\* a response.
ThreadOK ==
    /\ pc \in {"fetch", "persist", "reply"} => cur \in Events /\ req \in Words
    /\ pc = "reply" => resp # NoWord

TypeInv == TypeOK /\ ThreadOK

(***************************************************************************)
(* The loop's bookkeeping: the kernel watches exactly the descriptors of    *)
(* the table, each for READ; the events still to be handled, the current    *)
(* one included, are of different registered descriptors, and are for the   *)
(* file now open there; and a process that is not running owns nothing.     *)
(***************************************************************************)
Serving == pc \in {"fetch", "persist", "reply"}

Pending == active \union (IF Serving THEN {cur} ELSE {})

TableOK ==
    /\ \A fd \in Descriptors : interest[fd] = (IF fd \in Slots THEN idle[fd] ELSE {})
    /\ \A fd \in Slots : idle[fd] # {} =>
          idle[fd] = {"READ"} /\ fd \in Descriptors /\ file[fd] # Closed

EventsOK ==
    /\ \A e \in Pending :
          /\ e.fd \in Slots /\ idle[e.fd] # {} /\ file[e.fd] = e.conn
          /\ "READ" \in e.mask /\ (e.conn = Listener => e.mask = {"READ"})
    /\ \A e, f \in Pending : e.fd = f.fd => e = f
    /\ Serving => cur.conn \in Clients /\ cur \notin active

DownOK ==
    pc = "down" =>
        /\ idle = NoSlots /\ interest = NoInterest /\ elmax = -1 /\ active = {}
        /\ file = [fd \in Descriptors |-> Closed] /\ backlog = <<>>
        /\ clientcount = 0 /\ cache = <<>> /\ loaded = 0

LoopInv == TableOK /\ MaxIsHighest /\ EventsOK /\ DownOK

(***************************************************************************)
(* The rows and the cache, for a database that does not fail: the rows read *)
(* so far are cached, then all of them; the word being fetched is not       *)
(* cached, hence not stored; the word being inserted is cached and not yet  *)
(* stored.                                                                  *)
(***************************************************************************)
RowsInv ==
    /\ pc = "load" => \A i \in 1 .. loaded : Cached(rows[i])
    /\ pc \notin {"down", "load"} => \A i \in DOMAIN rows : Cached(rows[i])
    /\ pc = "fetch" => ~Cached(req)
    /\ pc = "persist" => Cached(req) /\ req \notin Stored
    /\ NoDuplicateRows

(***************************************************************************)
(* A client is held by the server at most once, in the backlog or under one *)
(* descriptor, and only from its connect until it is hung up on; a pending  *)
(* event of a connection means there is something to read; the word being   *)
(* served is the one its client sent.                                       *)
(***************************************************************************)
ClientInv ==
    /\ \A c \in Held : peer[c] # "idle" /\ inbox[c] = "none"
    /\ \A fd, g \in Descriptors : file[fd] \in Clients /\ file[fd] = file[g] => fd = g
    /\ \A i, j \in DOMAIN backlog : backlog[i] = backlog[j] => i = j
    /\ \A fd \in Descriptors, i \in DOMAIN backlog : file[fd] # backlog[i]
    /\ \A c \in Clients : peer[c] # "open" => inbox[c] = "none"
    /\ \A e \in Pending : e.conn \in Clients =>
            sent[e.conn] # NoWord \/ peer[e.conn] # "open"
    /\ Serving => sent[cur.conn] = req

(***************************************************************************)
(* Entries, responses and answers carry the hash of the word they are for.  *)
(***************************************************************************)
AnswerInv ==
    /\ \A i \in DOMAIN cache : cache[i].hash = Hash[cache[i].def]
    /\ pc = "reply" /\ resp \in Words => Hash[resp] = Hash[req]
    /\ AnswerHashMatches

(***************************************************************************)
(* What is cached has been inserted, but for the word about to be.          *)
(***************************************************************************)
DurableInv ==
    /\ \A i \in DOMAIN cache : cache[i].def \in Stored \/ (pc = "persist" /\ cache[i].def = req)
    /\ pc = "reply" /\ resp \in Words => resp \in Stored
    /\ AnsweredIsDurable

(***************************************************************************)
(* The word being served is a request, has a definition when it is about to *)
(* be inserted, and is not stored when the client is about to be told that  *)
(* it is not found.                                                         *)
(***************************************************************************)
ToldInv ==
    /\ Serving => req \notin Unparsable
    /\ pc = "persist" => req \in Defined
    /\ pc = "reply" /\ resp = "notfound" => req \notin Stored

(***************************************************************************)
(* The count of the registered connections, and the only lost descriptors   *)
(* when the kernel registers all it is asked to.                            *)
(***************************************************************************)
BookInv == CountIsExact /\ ("epoll" \notin Faults => LeakOnlyBeyondTable)

(***************************************************************************)
(* No batch is left over when the process is not in its loop, every waiting *)
(* client is in the backlog or has a descriptor, and the listener, once     *)
(* registered, stays so.                                                    *)
(***************************************************************************)
HearInv ==
    /\ pc \in {"down", "load"} => active = {}
    /\ \A c \in Clients : peer[c] = "open" /\ inbox[c] = "none" => c \in Held
    /\ "epoll" \notin Faults /\ pc # "down" => file[Sfd] = Listener /\ Sfd \in Registered

IInv == TypeInv /\ LoopInv /\ ClientInv /\ AnswerInv /\ BookInv /\ HearInv
DataInv == RowsInv /\ DurableInv /\ ToldInv

USE SizesAssumption, WordsAssumption, ServerAssumption

\* A daemon not yet started, with no client, is well-typed.
LEMMA InitType == Init => TypeInv
BY DEF Init, TypeInv, TypeOK, ThreadOK, NoSlots, NoInterest, Slots, Descriptors, Masks,
       Answers

\* Hanging up on clients with well-typed answers keeps the clients well-typed.
LEMMA HangUpType ==
    ASSUME TypeOK, NEW cs, NEW answer, HangUp(cs, answer),
           \A c \in cs \intersect Clients : answer[c] \in Answers
    PROVE  /\ peer' \in [Clients -> {"idle", "open", "fin", "rst"}]
           /\ sent' \in [Clients -> Words \union {NoWord}]
           /\ inbox' \in [Clients -> Answers]
BY DEF TypeOK, HangUp

\* Reversing a sequence gives a sequence over the same set, of the same length.
LEMMA ReverseSeq ==
    ASSUME NEW S, NEW s \in Seq(S)
    PROVE  /\ Reverse(s) \in Seq(S) /\ Len(Reverse(s)) = Len(s)
           /\ \A i \in 1 .. Len(s) : Reverse(s)[i] = s[(Len(s) - i) + 1]
<1>1. Len(s) \in Nat
  OBVIOUS
<1>2. \A i \in 1 .. Len(s) : (Len(s) - i) + 1 \in 1 .. Len(s)
  BY <1>1
<1>3. \A i \in 1 .. Len(s) : s[(Len(s) - i) + 1] \in S
  BY <1>2
<1> DEFINE r == [i \in 1 .. Len(s) |-> s[(Len(s) - i) + 1]]
<1>4. r \in Seq(S) /\ Len(r) = Len(s)
  BY <1>1, <1>3
<1> QED BY <1>4 DEF Reverse

\* hmapAdd keeps a well-typed cache.
LEMMA HmapAddType ==
    ASSUME TypeOK, NEW w \in Words, NEW key \in Words \union {Stack}, hmapAdd(key, w)
    PROVE  cache' \in Seq(Entries) /\ cap' \in Nat \ {0}
<1>1. Rebuilt \in Seq(Entries)
  BY ReverseSeq DEF TypeOK, Rebuilt
<1>2. [key |-> key, hash |-> Hash[w], def |-> w] \in Entries
  BY DEF Entries
<1>3. <<[key |-> key, hash |-> Hash[w], def |-> w]>> \o Rebuilt \in Seq(Entries)
  BY <1>1, <1>2
<1>4. cap' \in Nat \ {0}
  BY DEF TypeOK, hmapAdd
<1> QED BY <1>1, <1>3, <1>4 DEF hmapAdd

\* Registering an event keeps the loop well-typed.
LEMMA AddEventType ==
    ASSUME TypeOK, NEW fd \in Descriptors, NEW mask \in Masks, eloopAddEvent(fd, mask)
    PROVE  /\ idle' \in [Slots -> Masks] /\ interest' \in [Descriptors -> Masks]
           /\ elmax' \in -1 .. Count - 1
<1>1. fd \in Slots /\ fd \in 0 .. Count - 1
  BY DEF eloopAddEvent, eloopAddEventOk, Slots, Descriptors
<1>2. idle[fd] \union mask \in Masks
  BY <1>1 DEF TypeOK, Masks
<1>3. idle' \in [Slots -> Masks] /\ interest' \in [Descriptors -> Masks]
  BY <1>1, <1>2 DEF TypeOK, eloopAddEvent
<1>4. elmax' \in -1 .. Count - 1
  BY <1>1 DEF TypeOK, eloopAddEvent
<1> QED BY <1>3, <1>4

\* Removing an event and closing its descriptor keeps the loop well-typed.
LEMMA DeleteEventType ==
    ASSUME TypeOK, NEW fd \in Descriptors, NEW mask \in Masks,
           eloopDeleteEventAndClose(fd, mask)
    PROVE  /\ idle' \in [Slots -> Masks] /\ interest' \in [Descriptors -> Masks]
           /\ elmax' \in -1 .. Count - 1
<1>1. CASE fd >= Count \/ idle[fd] = {}
  BY <1>1 DEF TypeOK, eloopDeleteEventAndClose, KernelClose, Masks
<1>2. CASE ~(fd >= Count \/ idle[fd] = {})
  <2>1. fd \in Slots
    BY <1>2 DEF Slots, Descriptors
  <2>2. idle[fd] \in Masks /\ idle[fd] \ mask \in Masks /\ {} \in Masks
    BY <2>1 DEF TypeOK, Masks
  <2>3. idle' \in [Slots -> Masks]
    BY <1>2, <2>2 DEF TypeOK, eloopDeleteEventAndClose
  <2>4. eloopStateDelete(fd, mask) \in [Descriptors -> Masks]
    BY <2>2 DEF TypeOK, eloopStateDelete
  <2>5. interest' \in [Descriptors -> Masks]
    BY <1>2, <2>2, <2>4 DEF eloopDeleteEventAndClose, KernelClose
  <2>6. elmax' \in -1 .. Count - 1
    BY <1>2, <2>1 DEF TypeOK, eloopDeleteEventAndClose, eloopDeleteMax, Slots
  <2> QED BY <2>3, <2>5, <2>6
<1> QED BY <1>1, <1>2

\* The end of a connection keeps everything it touches well-typed.
LEMMA CloseType ==
    ASSUME TypeOK, NEW e \in Events, NEW answer \in Answers, CloseConnection(e, answer),
           UNCHANGED <<backlog, cacheVars, dbVars>>, active' \subseteq active
    PROVE  TypeInv'
<1>1. e.fd \in Descriptors /\ e.mask \in Masks
  BY DEF Events
<1>2. /\ idle' \in [Slots -> Masks] /\ interest' \in [Descriptors -> Masks]
      /\ elmax' \in -1 .. Count - 1
  BY <1>1, DeleteEventType DEF CloseConnection
<1>3. /\ peer' \in [Clients -> {"idle", "open", "fin", "rst"}]
      /\ sent' \in [Clients -> Words \union {NoWord}]
      /\ inbox' \in [Clients -> Answers]
  <2> DEFINE f == [c \in {file[e.fd]} |-> answer]
  <2>1. HangUp({file[e.fd]}, f)
    BY DEF CloseConnection
  <2>2. \A c \in {file[e.fd]} \intersect Clients : f[c] \in Answers
    OBVIOUS
  <2> HIDE DEF f
  <2> QED BY <2>1, <2>2, HangUpType
<1>4. clientcount' \in Int /\ file' \in [Descriptors -> Clients \union {Listener, Closed, Kept}]
  <2>1. clientcount' = clientcount - 1 /\ file' = [file EXCEPT ![e.fd] = Closed]
    BY DEF CloseConnection
  <2>2. clientcount \in Int /\ file \in [Descriptors -> Clients \union {Listener, Closed, Kept}]
    BY DEF TypeOK
  <2>3. clientcount' \in Int
    BY <2>1, <2>2
  <2>4. file' \in [Descriptors -> Clients \union {Listener, Closed, Kept}]
    BY <2>1, <2>2
  <2> QED BY <2>3, <2>4
<1>5. pc' = "loop" /\ cur' = NoEvent /\ req' = NoWord /\ resp' = NoWord
  BY DEF CloseConnection
<1>6. /\ backlog' = backlog /\ cache' = cache /\ cap' = cap /\ rows' = rows
      /\ loaded' = loaded /\ active' \subseteq active
  BY DEF cacheVars, dbVars
<1> QED BY <1>2, <1>3, <1>4, <1>5, <1>6 DEF TypeInv, TypeOK, ThreadOK

\* A dead process leaves the clients and the rows well-typed.
LEMMA DieType ==
    ASSUME TypeOK, NEW answer, \A c \in Clients : answer[c] \in Answers, Die(answer)
    PROVE  TypeInv'
<1>1. HangUp(Held, answer)
  BY DEF Die
<1>2. /\ peer' \in [Clients -> {"idle", "open", "fin", "rst"}]
      /\ sent' \in [Clients -> Words \union {NoWord}]
      /\ inbox' \in [Clients -> Answers]
  BY <1>1, HangUpType
<1> QED BY <1>2 DEF Die, eloopCreate, TypeInv, TypeOK, ThreadOK, NoSlots, NoInterest, Masks

\* No step breaks the types.  EventsOK says that a dispatched event is of a
\* connection or of the listener, which the handlers take for granted.
LEMMA NextType == TypeInv /\ EventsOK /\ [Next]_vars => TypeInv'
<1> SUFFICES ASSUME TypeInv, EventsOK, [Next]_vars PROVE TypeInv'
  OBVIOUS
<1>a. TypeOK /\ ThreadOK
  BY DEF TypeInv
<1> USE <1>a DEF loopVars, clientVars, cacheVars, dbVars, reqVars
<1>1. ASSUME NEW c \in Clients, ClientConnect(c) PROVE TypeInv'
  BY <1>1 DEF ClientConnect, TypeInv, TypeOK, ThreadOK
<1>2. ASSUME NEW c \in Clients, ClientWrite(c) PROVE TypeInv'
  BY <1>2 DEF ClientWrite, TypeInv, TypeOK, ThreadOK
<1>3. ASSUME NEW c \in Clients, ClientRead(c) PROVE TypeInv'
  BY <1>3 DEF ClientRead, TypeInv, TypeOK, ThreadOK, Answers
<1>4. ASSUME NEW c \in Clients, ClientKilled(c) PROVE TypeInv'
  BY <1>4 DEF ClientKilled, TypeInv, TypeOK, ThreadOK
<1>5. CASE serverInit
  <2>1. Sfd \in Descriptors /\ {"READ"} \in Masks
    BY DEF Sfd, Descriptors, Masks
  <2>2. /\ idle' \in [Slots -> Masks] /\ interest' \in [Descriptors -> Masks]
        /\ elmax' \in -1 .. Count - 1
    BY <1>5, <2>1, AddEventType DEF serverInit, TypeOK
  <2> QED BY <1>5, <2>1, <2>2 DEF serverInit, TypeInv, TypeOK, ThreadOK
<1>6. CASE Kill
  BY <1>6, DieType DEF Kill, AllReset, Answers
<1>7. CASE serverTransferToCache
  <2>1. rows[loaded + 1] \in Words
    BY <1>7 DEF serverTransferToCache, TypeOK
  <2>2. cache' \in Seq(Entries) /\ cap' \in Nat \ {0}
    BY <1>7, <2>1, HmapAddType DEF serverTransferToCache
  <2> QED BY <1>7, <2>2 DEF serverTransferToCache, TypeInv, TypeOK, ThreadOK
<1>8. CASE serverInitDictionaryReturns
  BY <1>8 DEF serverInitDictionaryReturns, TypeInv, TypeOK, ThreadOK
<1>9. CASE eloopProcessEvents
  <2>1. ReadyEvents \subseteq Events
    BY DEF ReadyEvents, Readable, ReadyMask, Events, Masks
  <2>2. active' \subseteq Events
    BY <1>9, <2>1 DEF eloopProcessEvents, eloopPoll
  <2> QED BY <1>9, <2>2 DEF eloopProcessEvents, TypeInv, TypeOK, ThreadOK
<1>10. ASSUME NEW e \in active, AcceptFails(e) PROVE TypeInv'
  BY <1>10 DEF AcceptFails, Dispatch, TypeInv, TypeOK, ThreadOK
<1>d. ASSUME NEW e \in active, AcceptDrops(e) PROVE TypeInv'
  <2>1. backlog' \in Seq(Clients) /\ Len(backlog') <= Backlog
    BY <1>d DEF AcceptDrops, TypeOK
  <2>2. \A c \in Clients : AllReset[c] \in Answers
    BY DEF AllReset, Answers
  <2>3. /\ peer' \in [Clients -> {"idle", "open", "fin", "rst"}]
        /\ sent' \in [Clients -> Words \union {NoWord}]
        /\ inbox' \in [Clients -> Answers]
    BY <1>d, <2>2, HangUpType DEF AcceptDrops
  <2> QED BY <1>d, <2>1, <2>3 DEF AcceptDrops, Dispatch, TypeInv, TypeOK, ThreadOK
<1>11. ASSUME NEW e \in active, NEW fd \in Descriptors, Accept(fd)
       PROVE  /\ backlog' \in Seq(Clients) /\ Len(backlog') <= Backlog
              /\ file' \in [Descriptors -> Clients \union {Listener, Closed, Kept}]
  <2>1. /\ backlog' \in Seq(Clients) /\ Len(backlog') <= Len(backlog)
        /\ Head(backlog) \in Clients
    BY <1>11 DEF Accept, TypeOK
  <2> QED BY <1>11, <2>1 DEF Accept, TypeOK
<1>12. ASSUME NEW e \in active, NEW fd \in Descriptors, serverAccept(e, fd) PROVE TypeInv'
  <2>1. e.mask \in Masks
    BY DEF TypeOK, Events
  <2>2. /\ idle' \in [Slots -> Masks] /\ interest' \in [Descriptors -> Masks]
        /\ elmax' \in -1 .. Count - 1
    BY <1>12, <2>1, AddEventType DEF serverAccept
  <2> QED BY <1>11, <1>12, <2>2 DEF serverAccept, Dispatch, TypeInv, TypeOK, ThreadOK
<1>13. ASSUME NEW e \in active, NEW fd \in Descriptors, serverAcceptLeaks(e, fd)
       PROVE  TypeInv'
  BY <1>11, <1>13 DEF serverAcceptLeaks, Dispatch, TypeInv, TypeOK, ThreadOK
<1>14. ASSUME NEW e \in active, RequestMalformed(e) PROVE TypeInv'
  BY <1>14, CloseType DEF RequestMalformed, Dispatch, TypeOK, Answers
<1>15. ASSUME NEW e \in active, Dispatch(e), file[e.fd] # Listener,
              Request(file[e.fd]) # NoWord
       PROVE  e \in Events /\ Request(file[e.fd]) \in Words
  <2>1. e \in Events
    BY DEF TypeOK
  <2>2. e.conn \in Clients \union {Listener}
    BY <2>1 DEF Events
  <2>3. file[e.fd] = e.conn
    BY DEF EventsOK, Pending
  <2>4. file[e.fd] \in Clients
    BY <1>15, <2>2, <2>3
  <2> QED BY <1>15, <2>1, <2>4 DEF Request, TypeOK
<1>16. ASSUME NEW e \in active, RequestCached(e) PROVE TypeInv'
  <2>1. cur' \in Events /\ req' \in Words
    BY <1>15, <1>16 DEF RequestCached
  <2>2. resp' \in Words
    <3>1. PICK i \in DOMAIN cache : resp' = cache[i].def
      BY <1>16 DEF RequestCached
    <3>2. cache[i] \in Entries
      BY DEF TypeOK
    <3> QED BY <3>1, <3>2 DEF Entries
  <2>3. active' \subseteq active /\ pc' = "reply" /\ resp' # NoWord
    BY <1>16, <2>2 DEF RequestCached, Dispatch
  <2> QED BY <1>16, <2>1, <2>2, <2>3 DEF RequestCached, TypeInv, TypeOK, ThreadOK
<1>17. ASSUME NEW e \in active, RequestUnknown(e) PROVE TypeInv'
  <2>1. cur' \in Events /\ req' \in Words
    BY <1>15, <1>17 DEF RequestUnknown
  <2>2. active' \subseteq active /\ pc' = "fetch"
    BY <1>17 DEF RequestUnknown, Dispatch
  <2> QED BY <1>17, <2>1, <2>2 DEF RequestUnknown, TypeInv, TypeOK, ThreadOK
<1>18. CASE FetchFails
  BY <1>18 DEF FetchFails, TypeInv, TypeOK, ThreadOK
<1>19. CASE FetchFinds
  <2>1. cache' \in Seq(Entries) /\ cap' \in Nat \ {0}
    BY <1>19, HmapAddType DEF FetchFinds, ThreadOK
  <2> QED BY <1>19, <2>1 DEF FetchFinds, TypeInv, TypeOK, ThreadOK
<1>20. CASE FetchFindsNothing
  BY <1>20, DieType DEF FetchFindsNothing, AllReset, Answers
<1>21. CASE serverPesistToDb
  <2>1. req \in Words /\ cur \in Events
    BY <1>21 DEF serverPesistToDb, ThreadOK
  <2>2. rows' \in Seq(Words) /\ loaded' \in Nat /\ loaded' <= Len(rows')
    <3>1. rows \in Seq(Words) /\ loaded \in Nat /\ loaded <= Len(rows)
      BY DEF TypeOK
    <3>2. loaded' = loaded /\ rows' \in {rows, Append(rows, req)}
      BY <1>21 DEF serverPesistToDb
    <3>3. Append(rows, req) \in Seq(Words) /\ Len(Append(rows, req)) = Len(rows) + 1
      BY <2>1, <3>1
    <3>4. CASE rows' = rows
      BY <3>1, <3>2, <3>4
    <3>5. CASE rows' = Append(rows, req)
      BY <3>1, <3>2, <3>3, <3>5
    <3> QED BY <3>2, <3>4, <3>5
  <2>3. req # NoWord
    BY <2>1
  <2> QED BY <1>21, <2>1, <2>2, <2>3 DEF serverPesistToDb, TypeInv, TypeOK, ThreadOK
<1>22. CASE Reply \/ ErrorTextLost
  BY <1>22, CloseType DEF Reply, ErrorTextLost, ThreadOK, TypeOK, Answers
<1>23. CASE ReplyCutShort
  BY <1>23, DieType DEF ReplyCutShort, AllReset, Answers
<1>24. CASE UNCHANGED vars
  BY <1>24 DEF vars, TypeInv, TypeOK, ThreadOK
<1> QED BY <1>1, <1>2, <1>3, <1>4, <1>5, <1>6, <1>7, <1>8, <1>9, <1>10, <1>d, <1>12, <1>13, <1>14,
           <1>16, <1>17, <1>18, <1>19, <1>20, <1>21, <1>22, <1>23, <1>24
        DEF Next, ServerStep

-----------------------------------------------------------------------------
(* The event loop. *)

\* Nothing is registered, watched or pending at the start.
LEMMA InitLoop == Init => LoopInv
BY DEF Init, LoopInv, TableOK, MaxIsHighest, EventsOK, DownOK, Registered, Pending, Serving,
       NoSlots, NoInterest

\* The descriptor table as a request to the site leaves it: one descriptor that
\* was free may be kept.
Keeps ==
    \A fd \in Descriptors : file'[fd] = file[fd] \/ (file[fd] = Closed /\ file'[fd] = Kept)

\* So a failed request leaves it.
LEMMA FetchFailsKeeps == ASSUME TypeOK, FetchFails PROVE Keeps
BY DEF FetchFails, Free, TypeOK, Keeps

\* What is kept is no connection: the server holds the same clients, under the same
\* descriptors.
LEMMA KeepsConnections ==
    ASSUME Keeps, backlog' = backlog
    PROVE  /\ Held' = Held /\ Connected' = Connected
           /\ \A fd \in Descriptors : file[fd] # Closed \/ file'[fd] \in Clients \union {Listener}
                                        => file'[fd] = file[fd]
BY DEF Keeps, Held, Connected

\* The parts of LoopInv read only these variables; a step that changes no other,
\* and goes from serving to serving or from idling to idling, keeps it.
LEMMA LoopFrame ==
    ASSUME LoopInv, UNCHANGED <<idle, elmax, interest, active, cur>>, Keeps,
           pc # "down", pc' # "down", Serving' = Serving
    PROVE  LoopInv'
<1>1. Pending' = Pending /\ Registered' = Registered
  BY DEF Pending, Registered
<1>2. \A fd \in Slots : idle[fd] # {} => fd \in Descriptors /\ file'[fd] = file[fd]
  BY DEF LoopInv, TableOK, Keeps
<1>3. TableOK' /\ MaxIsHighest'
  BY <1>1, <1>2 DEF LoopInv, TableOK, MaxIsHighest
<1>4. EventsOK'
  BY <1>1, <1>2 DEF LoopInv, EventsOK, Serving
<1> QED BY <1>3, <1>4 DEF LoopInv, DownOK

\* A process that has ended satisfies LoopInv: it owns nothing.
LEMMA DieLoop == ASSUME NEW answer, Die(answer) PROVE LoopInv'
BY DEF Die, eloopCreate, LoopInv, TableOK, MaxIsHighest, EventsOK, DownOK, Registered,
       Pending, Serving, NoSlots, NoInterest

\* serverAccept and serverInit register a descriptor that has just been opened,
\* which keeps the table, the kernel's set and eloop.max in step.
LEMMA AddEventLoop ==
    ASSUME TypeOK, TableOK, MaxIsHighest, NEW fd \in Descriptors, file[fd] = Closed,
           eloopAddEvent(fd, {"READ"}), NEW f, f # Closed, file' = [file EXCEPT ![fd] = f]
    PROVE  TableOK' /\ MaxIsHighest'
<1>1. fd \in Slots /\ idle[fd] = {} /\ elmax \in Int
  BY DEF TypeOK, TableOK, eloopAddEvent, eloopAddEventOk, Slots, Descriptors
<1>2. idle' = [idle EXCEPT ![fd] = {"READ"}] /\ interest' = [interest EXCEPT ![fd] = {"READ"}]
  BY <1>1 DEF eloopAddEvent
<1>3. TableOK'
  <2>1. idle'[fd] = {"READ"} /\ \A g \in Slots \ {fd} : idle'[g] = idle[g]
    BY <1>1, <1>2 DEF TypeOK
  <2>2. interest'[fd] = {"READ"} /\ \A g \in Descriptors \ {fd} : interest'[g] = interest[g]
    BY <1>2 DEF TypeOK
  <2>3. file'[fd] # Closed /\ \A g \in Descriptors \ {fd} : file'[g] = file[g]
    BY DEF TypeOK
  <2>4. ASSUME NEW g \in Descriptors
        PROVE  interest'[g] = (IF g \in Slots THEN idle'[g] ELSE {})
    BY <1>1, <2>1, <2>2 DEF TableOK
  <2>5. ASSUME NEW g \in Slots, idle'[g] # {}
        PROVE  idle'[g] = {"READ"} /\ g \in Descriptors /\ file'[g] # Closed
    BY <2>1, <2>3, <2>5 DEF TableOK
  <2> QED BY <2>4, <2>5 DEF TableOK
<1>4. MaxIsHighest'
  BY <1>1, <1>2 DEF TypeOK, MaxIsHighest, Registered, eloopAddEvent, Slots
<1> QED BY <1>3, <1>4

\* Deleting the event of a registered descriptor and closing it keeps the table,
\* the kernel's set and eloop.max in step, and empties the slot.
LEMMA DeleteEventLoop ==
    ASSUME TypeOK, TableOK, MaxIsHighest, NEW fd \in Slots, idle[fd] # {},
           NEW mask, "READ" \in mask, eloopDeleteEventAndClose(fd, mask),
           file' = [file EXCEPT ![fd] = Closed]
    PROVE  TableOK' /\ MaxIsHighest' /\ idle' = [idle EXCEPT ![fd] = {}]
<1>1. /\ fd \in Descriptors /\ idle[fd] = {"READ"} /\ interest[fd] = {"READ"}
      /\ ~(fd >= Count \/ idle[fd] = {}) /\ interest[fd] # {} /\ idle[fd] \ mask = {}
  <2>1. fd \in Descriptors /\ idle[fd] = {"READ"} /\ interest[fd] = {"READ"}
    BY DEF TableOK
  <2>2. ~(fd >= Count)
    BY DEF Slots
  <2> QED BY <2>1, <2>2
<1>2. idle' = [idle EXCEPT ![fd] = {}] /\ interest' = [interest EXCEPT ![fd] = {}]
  BY <1>1 DEF eloopDeleteEventAndClose, eloopStateDelete, KernelClose
<1>3. TableOK'
  BY <1>1, <1>2 DEF TypeOK, TableOK
<1>4. MaxIsHighest'
  <2>1. eloopDeleteMax(fd)
    BY <1>1 DEF eloopDeleteEventAndClose
  <2>2. elmax \in -1 .. Count - 1
    BY DEF TypeOK
  <2>3. idle'[fd] = {} /\ \A g \in Slots \ {fd} : idle'[g] = idle[g]
    BY <1>2 DEF TypeOK
  <2>4. CASE fd # elmax
    BY <2>1, <2>2, <2>3, <2>4 DEF eloopDeleteMax, MaxIsHighest, Registered
  <2>5. CASE fd = elmax
    <3>1. PICK i \in -1 .. fd - 1 : ScanStopsAt(fd, i) /\ elmax' = i
      BY <2>1, <2>3, <2>5 DEF eloopDeleteMax
    <3>2. \A g \in Slots : idle'[g] # {} => g < fd
      BY <2>2, <2>3, <2>5 DEF MaxIsHighest, Registered, Slots
    <3>3. \A g \in Slots : idle'[g] # {} => g <= i
      BY <3>1, <3>2 DEF ScanStopsAt, Slots
    <3>4. i # -1 => i \in Slots /\ idle'[i] # {}
      BY <3>1 DEF ScanStopsAt, Slots
    <3> QED BY <3>1, <3>3, <3>4 DEF MaxIsHighest, Registered
  <2> QED BY <2>4, <2>5
<1> QED BY <1>2, <1>3, <1>4

\* The end of the connection of a pending event keeps LoopInv.
LEMMA CloseLoop ==
    ASSUME TypeInv, LoopInv, NEW e \in Pending, NEW answer, CloseConnection(e, answer),
           pc # "down", active' = active \ {e}
    PROVE  LoopInv'
<1>1. e.fd \in Slots /\ idle[e.fd] # {} /\ "READ" \in e.mask
  BY DEF LoopInv, EventsOK
<1>2. TableOK' /\ MaxIsHighest' /\ idle' = [idle EXCEPT ![e.fd] = {}]
  BY <1>1, DeleteEventLoop DEF TypeInv, LoopInv, CloseConnection
<1>3. pc' = "loop" /\ cur' = NoEvent /\ file' = [file EXCEPT ![e.fd] = Closed]
  BY DEF CloseConnection
<1>4. Pending' = active' /\ ~Serving'
  BY <1>3 DEF Pending, Serving
<1>5. \A f \in active' : f \in Pending /\ f.fd # e.fd
  BY DEF LoopInv, EventsOK, Pending
<1>6. \A f \in active' : f.fd \in Slots /\ idle'[f.fd] = idle[f.fd] /\ file'[f.fd] = file[f.fd]
  BY <1>2, <1>3, <1>5 DEF LoopInv, EventsOK, TypeInv, TypeOK
<1>7. EventsOK'
  BY <1>4, <1>5, <1>6 DEF LoopInv, EventsOK
<1> QED BY <1>2, <1>3, <1>7 DEF LoopInv, DownOK

\* The connection of a pending event is held, by the descriptor of the event only.
LEMMA PendingHeld ==
    ASSUME TypeInv, LoopInv, NEW e \in Pending
    PROVE  /\ e.fd \in Descriptors /\ file[e.fd] = e.conn
           /\ e.conn \in Clients \/ e.conn = Listener
           /\ e.conn \in Clients => e.conn \in Held
<1>1. e.fd \in Descriptors /\ file[e.fd] = e.conn
  BY DEF LoopInv, EventsOK, TableOK
<1>2. e \in Events
  BY DEF TypeInv, TypeOK, ThreadOK, Pending, Serving
<1>3. e.conn \in Clients \/ e.conn = Listener
  BY <1>2 DEF Events
<1> QED BY <1>1, <1>3 DEF Held

\* An answer, or what is left of the error text, ends the connection being served.
LEMMA ReplyCloses ==
    ASSUME TypeInv, LoopInv, Reply \/ ErrorTextLost
    PROVE  /\ cur \in Pending /\ cur.conn \in Clients /\ file[cur.fd] = cur.conn
           /\ file[cur.fd] # Listener /\ pc # "down" /\ active' = active \ {cur}
           /\ pc = "reply" /\ UNCHANGED <<active, backlog, cache, cap, rows, loaded>>
           /\ \E answer \in Words \union {"notfound", "eof", "partial"} :
                 /\ CloseConnection(cur, answer)
                 /\ answer = resp \/ (resp = "notfound" /\ answer \in {"eof", "partial"})
<1>1. pc = "reply" /\ UNCHANGED <<active, backlog, cache, cap, rows, loaded>>
  BY DEF Reply, ErrorTextLost, cacheVars, dbVars
<1>2. cur \in Pending /\ cur.conn \in Clients /\ cur \notin active
  BY <1>1 DEF Pending, Serving, LoopInv, EventsOK
<1>3. file[cur.fd] = cur.conn /\ file[cur.fd] # Listener
  BY <1>2, PendingHeld
<1>4. resp \in Words \union {"notfound"}
  BY <1>1 DEF TypeInv, TypeOK, ThreadOK
<1>5. \E answer \in Words \union {"notfound", "eof", "partial"} :
         /\ CloseConnection(cur, answer)
         /\ answer = resp \/ (resp = "notfound" /\ answer \in {"eof", "partial"})
  BY <1>4 DEF Reply, ErrorTextLost
<1> QED BY <1>1, <1>2, <1>3, <1>5

\* No step breaks the loop's bookkeeping.
LEMMA NextLoop == TypeInv /\ LoopInv /\ [Next]_vars => LoopInv'
<1> SUFFICES ASSUME TypeInv, LoopInv, [Next]_vars PROVE LoopInv'
  OBVIOUS
<1> USE DEF loopVars, clientVars, cacheVars, dbVars, reqVars
<1>1. ASSUME NEW c \in Clients, ClientConnect(c) PROVE LoopInv'
  BY <1>1, LoopFrame DEF ClientConnect, Serving, Keeps
<1>2. ASSUME NEW c \in Clients, ClientWrite(c) \/ ClientRead(c) \/ ClientKilled(c)
      PROVE  LoopInv'
  BY <1>2 DEF ClientWrite, ClientRead, ClientKilled, LoopInv, TableOK, MaxIsHighest, EventsOK,
              DownOK, Registered, Pending, Serving
<1>5. CASE serverInit
  <2>1. Sfd \in Descriptors /\ file[Sfd] = Closed /\ active = {} /\ TypeOK /\ ~Serving
    BY <1>5 DEF serverInit, Sfd, Descriptors, LoopInv, DownOK, TypeInv, Serving
  <2>2. TableOK' /\ MaxIsHighest'
    <3>1. CASE eloopAddEvent(Sfd, {"READ"})
      BY <1>5, <2>1, <3>1, AddEventLoop DEF serverInit, LoopInv
    <3>2. CASE UNCHANGED <<idle, elmax, interest>>
      BY <1>5, <2>1, <3>2 DEF serverInit, LoopInv, TableOK, MaxIsHighest, Registered, TypeOK
    <3> QED BY <1>5, <3>1, <3>2 DEF serverInit
  <2>3. active' = {} /\ ~Serving' /\ pc' # "down"
    BY <1>5, <2>1 DEF serverInit, Serving
  <2> QED BY <2>2, <2>3 DEF LoopInv, EventsOK, Pending, DownOK
<1>6. CASE Kill \/ FetchFindsNothing \/ ReplyCutShort
  BY <1>6, DieLoop DEF Kill, FetchFindsNothing, ReplyCutShort
<1>7. CASE serverTransferToCache
  BY <1>7, LoopFrame DEF serverTransferToCache, Serving, Keeps
<1>8. CASE serverInitDictionaryReturns
  BY <1>8, LoopFrame DEF serverInitDictionaryReturns, Serving, Keeps
<1>9. CASE eloopProcessEvents
  <2>1. ~Serving /\ ~Serving' /\ pc' # "down"
    BY <1>9 DEF eloopProcessEvents, Serving
  <2>2. Pending' = active' /\ active' \subseteq {e \in ReadyEvents : interest[e.fd] # {}}
    BY <1>9, <2>1 DEF eloopProcessEvents, eloopPoll, Pending
  <2>3. ASSUME NEW e \in active'
        PROVE  /\ e.fd \in Descriptors /\ e = [fd |-> e.fd, mask |-> ReadyMask(e.fd), conn |-> file[e.fd]]
               /\ interest[e.fd] # {}
    BY <2>2 DEF ReadyEvents
  <2>4. \A e \in active' : e.fd \in Slots /\ idle[e.fd] # {}
    BY <2>3 DEF LoopInv, TableOK
  <2>5. \A e \in active' : e.mask = ReadyMask(e.fd) /\ e.conn = file[e.fd]
    BY <2>3
  <2>6. \A e \in active' : "READ" \in e.mask /\ (e.conn = Listener => e.mask = {"READ"})
    BY <2>5 DEF ReadyMask
  <2>7. EventsOK'
    BY <1>9, <2>1, <2>2, <2>3, <2>4, <2>5, <2>6 DEF EventsOK, eloopProcessEvents
  <2> QED BY <1>9, <2>1, <2>7 DEF eloopProcessEvents, LoopInv, TableOK, MaxIsHighest, Registered,
                                   DownOK
<1>10. ASSUME NEW e \in active, AcceptFails(e) \/ AcceptDrops(e) PROVE LoopInv'
  BY <1>10 DEF AcceptFails, AcceptDrops, Dispatch, LoopInv, TableOK, MaxIsHighest, EventsOK, DownOK,
               Registered, Pending, Serving
<1>11. ASSUME NEW e \in active, NEW fd \in Descriptors, Dispatch(e), Accept(fd),
              UNCHANGED <<pc, cur>>, \A g \in Slots \ {fd} : idle'[g] = idle[g]
       PROVE  EventsOK' /\ file[fd] = Closed
              /\ Head(backlog) # Closed /\ file' = [file EXCEPT ![fd] = Head(backlog)]
  <2>1. file[fd] = Closed /\ Head(backlog) \in Clients
        /\ file' = [file EXCEPT ![fd] = Head(backlog)]
    BY <1>11 DEF Accept, Free, TypeInv, TypeOK
  <2>2. ~Serving /\ ~Serving' /\ Pending = active /\ Pending' = active \ {e}
    BY <1>11 DEF Dispatch, Serving, Pending
  <2>3. \A f \in active : f.fd \in Slots /\ file[f.fd] # Closed /\ f.fd # fd
    BY <2>1, <2>2 DEF LoopInv, EventsOK, TableOK
  <2>4. \A f \in active : idle'[f.fd] = idle[f.fd] /\ file'[f.fd] = file[f.fd]
    BY <1>11, <2>1, <2>3 DEF TypeInv, TypeOK
  <2>5. EventsOK'
    BY <2>2, <2>4 DEF LoopInv, EventsOK
  <2> QED BY <2>1, <2>5
<1>12. ASSUME NEW e \in active, NEW fd \in Descriptors, serverAccept(e, fd) PROVE LoopInv'
  <2>1. e.mask = {"READ"} /\ TypeOK /\ pc # "down" /\ pc' # "down"
    BY <1>12 DEF serverAccept, Dispatch, LoopInv, EventsOK, Pending, TypeInv
  <2>2. \A g \in Slots \ {fd} : idle'[g] = idle[g]
    BY <1>12 DEF serverAccept, eloopAddEvent, TypeInv, TypeOK
  <2>3. EventsOK' /\ file[fd] = Closed
        /\ Head(backlog) # Closed /\ file' = [file EXCEPT ![fd] = Head(backlog)]
    BY <1>11, <1>12, <2>2 DEF serverAccept
  <2>4. TableOK' /\ MaxIsHighest'
    BY <1>12, <2>1, <2>3, AddEventLoop DEF serverAccept, LoopInv
  <2> QED BY <2>1, <2>3, <2>4 DEF LoopInv, DownOK
<1>13. ASSUME NEW e \in active, NEW fd \in Descriptors, serverAcceptLeaks(e, fd)
       PROVE  LoopInv'
  <2>1. EventsOK' /\ file[fd] = Closed
        /\ Head(backlog) # Closed /\ file' = [file EXCEPT ![fd] = Head(backlog)]
    BY <1>11, <1>13 DEF serverAcceptLeaks
  <2>2. TableOK' /\ MaxIsHighest' /\ pc' # "down"
    BY <1>13, <2>1 DEF serverAcceptLeaks, Dispatch, LoopInv, TableOK, MaxIsHighest, Registered,
                       TypeInv, TypeOK
  <2> QED BY <2>1, <2>2 DEF LoopInv, DownOK
<1>14. ASSUME NEW e \in active, RequestMalformed(e) PROVE LoopInv'
  BY <1>14, CloseLoop DEF RequestMalformed, Dispatch, Pending
<1>16. ASSUME NEW e \in active, RequestCached(e) \/ RequestUnknown(e) PROVE LoopInv'
  <2>1. /\ ~Serving /\ Serving' /\ cur' = e /\ active' = active \ {e} /\ pc' # "down"
        /\ file[e.fd] # Listener /\ UNCHANGED <<idle, elmax, interest, file>>
    BY <1>16 DEF RequestCached, RequestUnknown, Dispatch, Serving
  <2>2. Pending = active /\ Pending' = active
    BY <2>1 DEF Pending
  <2>3. e.conn \in Clients
    BY <2>1, <2>2, PendingHeld
  <2>4. EventsOK'
    BY <2>1, <2>2, <2>3 DEF LoopInv, EventsOK
  <2> QED BY <2>1, <2>4 DEF LoopInv, TableOK, MaxIsHighest, Registered, DownOK
<1>18. CASE FetchFails
  BY <1>18, LoopFrame, FetchFailsKeeps DEF FetchFails, Serving, TypeInv
<1>19. CASE FetchFinds
  BY <1>19, LoopFrame DEF FetchFinds, Serving, Keeps
<1>21. CASE serverPesistToDb
  BY <1>21, LoopFrame DEF serverPesistToDb, Serving, Keeps
<1>22. CASE Reply \/ ErrorTextLost
  BY <1>22, ReplyCloses, CloseLoop
<1>24. CASE UNCHANGED vars
  BY <1>24 DEF vars, LoopInv, TableOK, MaxIsHighest, EventsOK, DownOK, Registered, Pending,
               Serving
<1> QED BY <1>1, <1>2, <1>5, <1>6, <1>7, <1>8, <1>9, <1>10, <1>12, <1>13, <1>14,
           <1>16, <1>18, <1>19, <1>21, <1>22, <1>24
        DEF Next, ServerStep

-----------------------------------------------------------------------------
(* The cache. *)

\* hmapAdd keeps every entry, whatever it reorders, and adds at most its own,
\* which it does unless the word is found.
LEMMA HmapAddEntries ==
    ASSUME TypeOK, NEW w \in Words, NEW key \in Words \union {Stack}, hmapAdd(key, w)
    PROVE  LET new == [key |-> key, hash |-> Hash[w], def |-> w] IN
           /\ \A i \in DOMAIN cache : \E j \in DOMAIN cache' : cache'[j] = cache[i]
           /\ \A j \in DOMAIN cache' : cache'[j] = new \/ \E i \in DOMAIN cache : cache'[j] = cache[i]
           /\ Cached(w) \/ \E j \in DOMAIN cache' : cache'[j] = new
<1> DEFINE new == [key |-> key, hash |-> Hash[w], def |-> w]
<1>1. cache \in Seq(Entries) /\ Rebuilt \in Seq(Entries) /\ new \in Entries
  BY ReverseSeq DEF TypeOK, Rebuilt, Entries
<1>2. /\ \A i \in 1 .. Len(cache) : \E j \in 1 .. Len(Rebuilt) : Rebuilt[j] = cache[i]
      /\ \A j \in 1 .. Len(Rebuilt) : \E i \in 1 .. Len(cache) : Rebuilt[j] = cache[i]
  <2>1. CASE Rebuilt = cache
    BY <2>1
  <2>2. CASE Rebuilt # cache
    <3>1. /\ Rebuilt = Reverse(cache) /\ Len(Rebuilt) = Len(cache) /\ Len(cache) \in Nat
          /\ \A i \in 1 .. Len(cache) : Rebuilt[i] = cache[(Len(cache) - i) + 1]
      BY <1>1, <2>2, ReverseSeq DEF Rebuilt
    <3>2. \A i \in 1 .. Len(cache) : /\ (Len(cache) - i) + 1 \in 1 .. Len(cache)
                                      /\ (Len(cache) - ((Len(cache) - i) + 1)) + 1 = i
      BY <3>1
    <3> QED BY <3>1, <3>2
  <2> QED BY <2>1, <2>2
<1> HIDE DEF new
<1>d. DOMAIN cache = 1 .. Len(cache) /\ DOMAIN Rebuilt = 1 .. Len(Rebuilt)
  BY <1>1
<1>3. CASE Cached(w)
  <2>1. cache' = Rebuilt
    BY <1>3 DEF hmapAdd
  <2> QED BY <1>2, <1>d, <1>3, <2>1
<1>4. CASE ~Cached(w)
  <2>1. cache' = <<new>> \o Rebuilt
    BY <1>4 DEF hmapAdd, new
  <2>2. /\ DOMAIN cache' = 1 .. Len(Rebuilt) + 1 /\ cache'[1] = new
        /\ \A j \in 1 .. Len(Rebuilt) : j + 1 \in DOMAIN cache' /\ cache'[j + 1] = Rebuilt[j]
        /\ \A j \in DOMAIN cache' : j # 1 =>
                j - 1 \in 1 .. Len(Rebuilt) /\ cache'[j] = Rebuilt[j - 1]
    BY <1>1, <2>1
  <2>3. 1 \in DOMAIN cache'
    BY <1>1, <2>2
  <2>4. \A i \in DOMAIN cache : \E j \in DOMAIN cache' : cache'[j] = cache[i]
    <3> TAKE i \in DOMAIN cache
    <3>1. PICK k \in 1 .. Len(Rebuilt) : Rebuilt[k] = cache[i]
      BY <1>2, <1>d
    <3> QED BY <2>2, <3>1
  <2>5. \A j \in DOMAIN cache' : cache'[j] = new \/ \E i \in DOMAIN cache : cache'[j] = cache[i]
    <3> TAKE j \in DOMAIN cache'
    <3>1. CASE j = 1
      BY <2>2, <3>1
    <3>2. CASE j # 1
      <4>1. PICK k \in 1 .. Len(Rebuilt) : cache'[j] = Rebuilt[k]
        BY <2>2, <3>2
      <4> QED BY <1>2, <1>d, <4>1
    <3> QED BY <3>1, <3>2
  <2> QED BY <2>2, <2>3, <2>4, <2>5 DEF new
<1> QED BY <1>3, <1>4 DEF new

\* So what was cached stays cached, and the added word is.
LEMMA HmapAddCaches ==
    ASSUME TypeOK, NEW w \in Words, NEW key \in {w, Stack}, hmapAdd(key, w)
    PROVE  Cached(w)' /\ \A v \in Words : Cached(v) => Cached(v)'
<1>1. key \in Words \union {Stack}
  OBVIOUS
<1>2. \A i \in DOMAIN cache : \E j \in DOMAIN cache' : cache'[j] = cache[i]
  BY <1>1, HmapAddEntries
<1>3. \A v \in Words : Cached(v) => Cached(v)'
  BY <1>2 DEF Cached, Matches
<1>4. CASE Cached(w)
  BY <1>3, <1>4
<1>5. CASE ~Cached(w)
  <2>1. PICK j \in DOMAIN cache' : cache'[j] = [key |-> key, hash |-> Hash[w], def |-> w]
    BY <1>1, <1>5, HmapAddEntries
  <2>2. cache'[j].hash = Hash[w] /\ cache'[j].key \in {w, Stack}
    BY <2>1
  <2> QED BY <1>3, <2>2 DEF Cached, Matches
<1> QED BY <1>3, <1>4, <1>5

\* What is cached depends on the cache alone.
LEMMA CachedFrame == ASSUME cache' = cache, NEW v PROVE Cached(v)' <=> Cached(v)
BY DEF Cached, Matches

-----------------------------------------------------------------------------
(* The rows. *)

\* An empty database satisfies RowsInv.
LEMMA InitRows == Init => RowsInv
BY DEF Init, RowsInv, NoDuplicateRows

\* With a database that does not fail no step breaks RowsInv.
LEMMA NextRows ==
    ASSUME "db" \notin Faults, TypeInv, LoopInv, RowsInv, [Next]_vars
    PROVE  RowsInv'
<1> USE DEF loopVars, clientVars, cacheVars, dbVars, reqVars
<1>t. TypeOK /\ ThreadOK
  BY DEF TypeInv
<1>s. \A i \in DOMAIN rows : rows[i] \in Words
  BY <1>t DEF TypeOK
<1>1. ASSUME UNCHANGED <<pc, cache, req, rows, loaded>> PROVE RowsInv'
  BY <1>1, CachedFrame DEF RowsInv, NoDuplicateRows, Stored
<1>2. ASSUME UNCHANGED <<cache, rows, loaded>>, pc \notin {"down", "load"},
             pc' \in {"loop", "reply"}
      PROVE  RowsInv'
  BY <1>2, CachedFrame DEF RowsInv, NoDuplicateRows, Stored
<1>3. ASSUME NEW answer, Die(answer) PROVE RowsInv'
  BY <1>3 DEF Die, RowsInv, NoDuplicateRows
<1>4. CASE serverInit
  BY <1>4, CachedFrame DEF serverInit, LoopInv, DownOK, RowsInv, NoDuplicateRows
<1>5. CASE serverTransferToCache
  <2>1. /\ pc = "load" /\ pc' = "load" /\ rows' = rows /\ loaded' = loaded + 1
        /\ loaded + 1 \in DOMAIN rows /\ loaded \in Nat
    BY <1>t, <1>5 DEF serverTransferToCache, TypeOK
  <2>2. PICK w \in Words : w = rows[loaded + 1]
    BY <1>s, <2>1
  <2>3. Cached(w)' /\ \A v \in Words : Cached(v) => Cached(v)'
    <3>1. hmapAdd(w, w) /\ w \in {w, Stack}
      BY <1>5, <2>2 DEF serverTransferToCache
    <3> QED BY <1>t, <3>1, HmapAddCaches
  <2>4. ASSUME NEW v \in Words, NEW i \in 1 .. loaded + 1, v = rows[i] PROVE Cached(v)'
    <3>1. CASE i = loaded + 1
      BY <2>2, <2>3, <2>4, <3>1
    <3>2. CASE i \in 1 .. loaded
      BY <2>1, <2>3, <2>4, <3>2 DEF RowsInv
    <3> QED BY <2>1, <3>1, <3>2
  <2>5. \A i \in 1 .. loaded' : Cached(rows[i])'
    <3> TAKE i \in 1 .. loaded'
    <3>1. i \in 1 .. loaded + 1 /\ i \in DOMAIN rows
      BY <1>t, <2>1 DEF TypeOK
    <3>2. PICK v \in Words : v = rows[i]
      BY <1>s, <3>1
    <3>3. Cached(v)' /\ v = rows'[i]
      BY <2>1, <2>4, <3>1, <3>2
    <3> QED BY <3>3 DEF Cached, Matches
  <2> QED BY <2>1, <2>5 DEF RowsInv, NoDuplicateRows
<1>6. CASE serverInitDictionaryReturns
  BY <1>t, <1>6, CachedFrame DEF serverInitDictionaryReturns, dbForEachRowReturns, RowsInv, NoDuplicateRows, TypeOK
<1>7. ASSUME NEW e \in active, RequestUnknown(e) PROVE RowsInv'
  BY <1>7, CachedFrame DEF RequestUnknown, Dispatch, RowsInv, NoDuplicateRows
<1>8. CASE FetchFinds
  <2>1. req \in Words /\ ~Cached(req) /\ pc = "fetch"
    BY <1>t, <1>8 DEF FetchFinds, ThreadOK, RowsInv
  <2>2. /\ Cached(req)'
        /\ \A v \in Words : Cached(v) => Cached(v)'
    BY <1>t, <1>8, <2>1, HmapAddCaches DEF FetchFinds
  <2>3. req \notin Stored
    BY <2>1 DEF RowsInv, Stored
  <2> QED BY <1>s, <1>8, <2>1, <2>2, <2>3 DEF FetchFinds, RowsInv, NoDuplicateRows, Stored
<1>9. CASE serverPesistToDb
  <2>1. /\ pc = "persist" /\ pc' = "reply" /\ UNCHANGED <<cache, loaded>>
        /\ rows' \in {rows, Append(rows, req)}
    BY <1>9 DEF serverPesistToDb
  <2>2. CASE rows' = rows
    BY <1>2, <2>1, <2>2
  <2>3. CASE rows' = Append(rows, req)
    <3>1. rows \in Seq(Words) /\ req \in Words
      BY <1>t, <2>1 DEF TypeOK, ThreadOK
    <3>2. /\ DOMAIN rows' = 1 .. Len(rows) + 1 /\ rows'[Len(rows) + 1] = req
          /\ \A i \in DOMAIN rows : rows'[i] = rows[i]
          /\ \A i \in DOMAIN rows' : i \in DOMAIN rows \/ i = Len(rows) + 1
      BY <2>3, <3>1
    <3>3. Cached(req) /\ req \notin Stored /\ \A i \in DOMAIN rows : Cached(rows[i])
      BY <2>1 DEF RowsInv
    <3>4. \A i \in DOMAIN rows' : Cached(rows[i])'
      BY <2>1, <3>2, <3>3, CachedFrame
    <3>5. NoDuplicateRows'
      BY <3>2, <3>3 DEF RowsInv, NoDuplicateRows, Stored
    <3> QED BY <2>1, <3>4, <3>5 DEF RowsInv
  <2> QED BY <2>1, <2>2, <2>3
<1>10. ASSUME NEW e \in active, NEW fd \in Descriptors,
              serverAccept(e, fd) \/ serverAcceptLeaks(e, fd)
       PROVE  RowsInv'
  BY <1>1, <1>10 DEF serverAccept, serverAcceptLeaks
<1>11. ASSUME NEW e \in active, AcceptFails(e) \/ AcceptDrops(e) PROVE RowsInv'
  BY <1>1, <1>11 DEF AcceptFails, AcceptDrops
<1>12. ASSUME NEW e \in active, RequestMalformed(e) \/ RequestCached(e) PROVE RowsInv'
  BY <1>2, <1>12 DEF RequestMalformed, RequestCached, Dispatch, CloseConnection
<1>13. CASE FetchFails \/ Reply \/ ErrorTextLost
  BY <1>2, <1>13 DEF FetchFails, Reply, ErrorTextLost, CloseConnection
<1>14. CASE Kill \/ FetchFindsNothing \/ ReplyCutShort
  BY <1>3, <1>14 DEF Kill, FetchFindsNothing, ReplyCutShort
<1>15. CASE eloopProcessEvents
  BY <1>1, <1>15 DEF eloopProcessEvents
<1>16. ASSUME NEW c \in Clients,
              ClientConnect(c) \/ ClientWrite(c) \/ ClientRead(c) \/ ClientKilled(c)
       PROVE  RowsInv'
  BY <1>1, <1>16 DEF ClientConnect, ClientWrite, ClientRead, ClientKilled
<1>17. CASE UNCHANGED vars
  BY <1>1, <1>17 DEF vars
<1> QED BY <1>4, <1>5, <1>6, <1>7, <1>8, <1>9, <1>10, <1>11, <1>12, <1>13, <1>14, <1>15, <1>16,
           <1>17
        DEF Next, ServerStep

-----------------------------------------------------------------------------
(* The clients. *)

\* No client is connected at the start.
LEMMA InitClient == Init => ClientInv
BY DEF Init, ClientInv, Held, Pending, Serving

\* A step that leaves the clients and the descriptors alone, reports no event and
\* starts no request keeps ClientInv.
LEMMA ClientFrame ==
    ASSUME TypeOK, ClientInv, UNCHANGED <<peer, sent, inbox, backlog>>, Keeps,
           Pending' \subseteq Pending, Serving' => Serving /\ UNCHANGED <<cur, req>>
    PROVE  ClientInv'
<1>1. Held' = Held
  BY KeepsConnections
<1>2. \A fd, g \in Descriptors : file'[fd] \in Clients /\ file'[fd] = file'[g] => fd = g
  BY DEF Keeps, ClientInv
<1>3. \A fd \in Descriptors, i \in DOMAIN backlog : file'[fd] # backlog[i]
  BY DEF Keeps, ClientInv, TypeOK
<1> QED BY <1>1, <1>2, <1>3 DEF ClientInv

\* The end of the connection of a pending event keeps ClientInv.
LEMMA CloseClient ==
    ASSUME TypeInv, LoopInv, ClientInv, NEW e \in Pending, NEW answer, file[e.fd] # Listener,
           CloseConnection(e, answer), active' = active \ {e}, backlog' = backlog
    PROVE  ClientInv'
<1>1. PICK c \in Clients : c = e.conn /\ c = file[e.fd] /\ c \in Held /\ e.fd \in Descriptors
  BY PendingHeld
<1>2. /\ file' = [file EXCEPT ![e.fd] = Closed]
      /\ HangUp({c}, [d \in {c} |-> answer])
      /\ pc' = "loop"
  BY <1>1 DEF CloseConnection
<1>3. /\ file'[e.fd] = Closed
      /\ \A fd \in Descriptors : fd # e.fd => file'[fd] = file[fd]
  BY <1>1, <1>2 DEF TypeInv, TypeOK
<1>4. \A d \in Clients : d # c =>
          peer'[d] = peer[d] /\ sent'[d] = sent[d] /\ inbox'[d] = inbox[d]
  BY <1>2 DEF HangUp
<1>5. peer'[c] # "open" => inbox'[c] = "none"
  BY <1>1, <1>2 DEF HangUp, ClientInv
<1>6. c \notin Held' /\ Held' \subseteq Held
  BY <1>1, <1>3 DEF Held, ClientInv
<1>7. \A d \in Held' : peer'[d] # "idle" /\ inbox'[d] = "none"
  BY <1>4, <1>6 DEF ClientInv, Held
<1>8. /\ \A fd, g \in Descriptors : file'[fd] \in Clients /\ file'[fd] = file'[g] => fd = g
      /\ \A i, j \in DOMAIN backlog' : backlog'[i] = backlog'[j] => i = j
  BY <1>3 DEF ClientInv
<1>9. \A fd \in Descriptors, i \in DOMAIN backlog' : file'[fd] # backlog'[i]
  <2>1. \A i \in DOMAIN backlog : backlog[i] \in Clients /\ backlog[i] # Closed
    BY DEF TypeInv, TypeOK
  <2> QED BY <1>3, <2>1 DEF ClientInv
<1>10. \A d \in Clients : peer'[d] # "open" => inbox'[d] = "none"
  BY <1>4, <1>5 DEF ClientInv
<1>11. Pending' = active' /\ ~Serving' /\ active' \subseteq Pending
  BY <1>2 DEF Pending, Serving
<1>12. \A f \in active' : f.conn \in Clients => f.conn # c
  BY <1>1, <1>11, PendingHeld DEF ClientInv, LoopInv, EventsOK
<1>13. \A f \in Pending' : f.conn \in Clients =>
          sent'[f.conn] # NoWord \/ peer'[f.conn] # "open"
  BY <1>4, <1>11, <1>12 DEF ClientInv
<1> QED BY <1>7, <1>8, <1>9, <1>10, <1>11, <1>13 DEF ClientInv

\* The end of the process keeps ClientInv.
LEMMA DieClient ==
    ASSUME ClientInv, NEW answer, Die(answer)
    PROVE  ClientInv'
<1>1. Held' = {} /\ Pending' = {} /\ ~Serving'
  BY DEF Die, Held, eloopCreate, Pending, Serving
<1>2. \A c \in Clients : peer'[c] # "open" => inbox'[c] = "none"
  BY DEF Die, HangUp, ClientInv
<1> QED BY <1>1, <1>2 DEF Die, ClientInv

\* No step breaks what ties the clients to the server's descriptors and events.
LEMMA NextClient ==
    ASSUME TypeInv, LoopInv, ClientInv, [Next]_vars
    PROVE  ClientInv'
<1> USE DEF loopVars, clientVars, cacheVars, dbVars, reqVars
<1>t. TypeOK /\ ThreadOK
  BY DEF TypeInv
<1>1. ASSUME NEW c \in Clients, ClientConnect(c) PROVE ClientInv'
  <2>1. /\ peer[c] = "idle" /\ c \notin Held /\ inbox[c] = "none"
        /\ backlog' = Append(backlog, c) /\ peer' = [peer EXCEPT ![c] = "open"]
        /\ UNCHANGED <<sent, inbox, file>> /\ Pending' = Pending
        /\ Serving' = Serving /\ UNCHANGED <<cur, req>>
    BY <1>1 DEF ClientConnect, ClientInv, Pending, Serving
  <2>2. /\ DOMAIN backlog' = 1 .. Len(backlog) + 1 /\ backlog'[Len(backlog) + 1] = c
        /\ \A i \in DOMAIN backlog : backlog'[i] = backlog[i]
        /\ \A i \in DOMAIN backlog' : i \in DOMAIN backlog \/ i = Len(backlog) + 1
    BY <1>t, <2>1 DEF TypeOK
  <2>3. \A d \in Held' : peer'[d] # "idle" /\ inbox'[d] = "none"
    BY <1>t, <2>1, <2>2 DEF Held, ClientInv, TypeOK
  <2>4. \A i, j \in DOMAIN backlog' : backlog'[i] = backlog'[j] => i = j
    BY <2>1, <2>2 DEF Held, ClientInv
  <2>5. \A fd \in Descriptors, i \in DOMAIN backlog' : file'[fd] # backlog'[i]
    BY <2>1, <2>2 DEF Held, ClientInv
  <2>6. \A d \in Clients : peer'[d] # "open" => inbox'[d] = "none"
    BY <1>t, <2>1 DEF ClientInv, TypeOK
  <2>7. \A e \in Pending : e.conn \in Clients => e.conn # c
    BY <2>1, PendingHeld
  <2>8. \A e \in Pending' : e.conn \in Clients =>
            sent'[e.conn] # NoWord \/ peer'[e.conn] # "open"
    BY <1>t, <2>1, <2>7 DEF ClientInv, TypeOK
  <2> QED BY <2>1, <2>3, <2>4, <2>5, <2>6, <2>8 DEF ClientInv
<1>2. ASSUME NEW c \in Clients, ClientWrite(c) PROVE ClientInv'
  <2>1. /\ sent[c] = NoWord /\ UNCHANGED <<peer, inbox, file, backlog, cur, req>>
        /\ Pending' = Pending /\ Serving' = Serving /\ Held' = Held
    BY <1>2 DEF ClientWrite, Pending, Serving, Held
  <2>2. PICK w \in Words : sent' = [sent EXCEPT ![c] = w]
    BY <1>2 DEF ClientWrite
  <2>3. Serving => req \in Words /\ req # NoWord
    BY <1>t DEF ThreadOK, Serving
  <2>4. Serving => cur.conn \in Clients /\ cur.conn # c
    BY <2>1, <2>3 DEF LoopInv, EventsOK, ClientInv
  <2>5. w # NoWord
    OBVIOUS
  <2> QED BY <1>t, <2>1, <2>2, <2>4, <2>5 DEF ClientInv, TypeOK
<1>3. ASSUME NEW c \in Clients, ClientRead(c) PROVE ClientInv'
  <2>1. /\ inbox[c] # "none" /\ peer' = [peer EXCEPT ![c] = "idle"]
        /\ sent' = [sent EXCEPT ![c] = NoWord] /\ inbox' = [inbox EXCEPT ![c] = "none"]
        /\ UNCHANGED <<file, backlog, cur, req>>
        /\ Pending' = Pending /\ Serving' = Serving /\ Held' = Held
    BY <1>3 DEF ClientRead, Pending, Serving, Held
  <2>2. c \notin Held
    BY <2>1 DEF ClientInv
  <2>3. \A e \in Pending : e.conn \in Clients => e.conn # c
    BY <2>2, PendingHeld
  <2>4. Serving => cur.conn \in Clients /\ cur.conn # c
    BY <2>3 DEF LoopInv, EventsOK, Pending
  <2>5. \A d \in Clients : d # c =>
            peer'[d] = peer[d] /\ sent'[d] = sent[d] /\ inbox'[d] = inbox[d]
    BY <1>t, <2>1 DEF TypeOK
  <2>6. inbox'[c] = "none"
    BY <1>t, <2>1 DEF TypeOK
  <2> QED BY <2>1, <2>2, <2>3, <2>4, <2>5, <2>6 DEF ClientInv, Held
<1>4. ASSUME NEW c \in Clients, ClientKilled(c) PROVE ClientInv'
  <2>1. /\ inbox[c] = "none" /\ UNCHANGED <<sent, inbox, file, backlog, cur, req>>
        /\ Pending' = Pending /\ Serving' = Serving /\ Held' = Held
    BY <1>4 DEF ClientKilled, Pending, Serving, Held
  <2>2. /\ peer'[c] # "idle" /\ peer'[c] # "open"
        /\ \A d \in Clients : d # c => peer'[d] = peer[d]
    BY <1>t, <1>4 DEF ClientKilled, TypeOK
  <2> QED BY <2>1, <2>2 DEF ClientInv, Held
<1>5. CASE serverInit
  <2>1. /\ \A fd \in Descriptors : file[fd] = Closed
        /\ \A fd \in Descriptors : file'[fd] \in {Closed, Listener}
        /\ backlog = <<>> /\ active = {} /\ UNCHANGED <<peer, sent, inbox, backlog>>
    BY <1>5 DEF serverInit, LoopInv, DownOK
  <2>2. Pending' = {} /\ ~Serving'
    BY <1>5, <2>1 DEF serverInit, Pending, Serving
  <2> QED BY <2>1, <2>2 DEF ClientInv, Held
<1>6. CASE Kill \/ FetchFindsNothing \/ ReplyCutShort
  BY <1>6, DieClient DEF Kill, FetchFindsNothing, ReplyCutShort
<1>7. CASE \/ serverTransferToCache \/ serverInitDictionaryReturns
           \/ FetchFails \/ FetchFinds \/ serverPesistToDb
  <2>1. /\ UNCHANGED <<peer, sent, inbox, backlog, cur, req>> /\ Pending' = Pending
        /\ Serving' = Serving
    BY <1>7 DEF serverTransferToCache, serverInitDictionaryReturns, FetchFails, FetchFinds,
                serverPesistToDb, Pending, Serving
  <2>2. Keeps
    BY <1>t, <1>7, FetchFailsKeeps DEF serverTransferToCache, serverInitDictionaryReturns,
       FetchFinds, serverPesistToDb, Keeps
  <2> QED BY <1>t, <2>1, <2>2, ClientFrame
<1>8. CASE eloopProcessEvents
  <2>1. /\ ~Serving' /\ Pending' = active' /\ UNCHANGED <<peer, sent, inbox, backlog, file>>
        /\ active' \subseteq ReadyEvents
    BY <1>8 DEF eloopProcessEvents, eloopPoll, Pending, Serving
  <2>2. \A e \in ReadyEvents : e.conn = file[e.fd] /\ Readable(e.fd)
    BY DEF ReadyEvents
  <2>3. \A e \in active' : e.conn \in Clients =>
            sent'[e.conn] # NoWord \/ peer'[e.conn] # "open"
    BY <2>1, <2>2 DEF Readable
  <2> QED BY <2>1, <2>3 DEF ClientInv, Held
<1>9. ASSUME NEW e \in active, AcceptFails(e) PROVE ClientInv'
  <2>1. /\ UNCHANGED <<peer, sent, inbox, backlog, file, cur, req>> /\ Pending' \subseteq Pending
        /\ Serving' = Serving
    BY <1>9 DEF AcceptFails, Dispatch, Pending, Serving
  <2> QED BY <1>t, <2>1, ClientFrame DEF Keeps
<1>d. ASSUME NEW e \in active, AcceptDrops(e) PROVE ClientInv'
  <2>1. /\ backlog \in Seq(Clients) /\ backlog # <<>> /\ backlog' = Tail(backlog)
        /\ HangUp({Head(backlog)}, AllReset) /\ file' = file
    BY <1>t, <1>d DEF AcceptDrops, TypeOK
  <2> DEFINE c == backlog[1]
  <2>2. /\ Head(backlog) = c /\ 1 \in DOMAIN backlog /\ c \in Clients
        /\ \A i \in DOMAIN backlog' : i + 1 \in DOMAIN backlog /\ backlog'[i] = backlog[i + 1]
                                      /\ i + 1 # 1 /\ i \in Int
    BY <2>1
  <2>3. \A d \in Clients : d # c =>
            peer'[d] = peer[d] /\ sent'[d] = sent[d] /\ inbox'[d] = inbox[d]
    BY <2>1, <2>2 DEF HangUp
  <2>4. c \in Held /\ c \notin Held' /\ Held' \subseteq Held
    BY <2>1, <2>2 DEF Held, ClientInv
  <2>5. peer'[c] # "open" => inbox'[c] = "none"
    BY <2>1, <2>2, <2>4 DEF HangUp, ClientInv
  <2>6. \A i, j \in DOMAIN backlog' : backlog'[i] = backlog'[j] => i = j
    <3> TAKE i, j \in DOMAIN backlog'
    <3>1. backlog'[i] = backlog'[j] => i + 1 = j + 1
      BY <2>2 DEF ClientInv
    <3> QED BY <2>2, <3>1
  <2>7. \A g \in Descriptors, i \in DOMAIN backlog' : file'[g] # backlog'[i]
    BY <2>1, <2>2 DEF ClientInv
  <2>8. Pending' \subseteq Pending /\ ~Serving'
    BY <1>d DEF AcceptDrops, Dispatch, Pending, Serving
  <2>9. \A f \in Pending' : f.conn \in Clients => f.conn # c
    BY <2>2, <2>8, PendingHeld DEF ClientInv
  <2>10. \A f \in Pending' : f.conn \in Clients =>
            sent'[f.conn] # NoWord \/ peer'[f.conn] # "open"
    BY <2>3, <2>8, <2>9 DEF ClientInv
  <2>11. \A d \in Held' : peer'[d] # "idle" /\ inbox'[d] = "none"
    BY <2>3, <2>4 DEF ClientInv, Held
  <2>12. \A d \in Clients : peer'[d] # "open" => inbox'[d] = "none"
    BY <2>3, <2>5 DEF ClientInv
  <2>13. \A fd, g \in Descriptors : file'[fd] \in Clients /\ file'[fd] = file'[g] => fd = g
    BY <2>1 DEF ClientInv
  <2> QED BY <2>6, <2>7, <2>8, <2>10, <2>11, <2>12, <2>13 DEF ClientInv
<1>10. ASSUME NEW e \in active, NEW fd \in Descriptors, Dispatch(e), Accept(fd),
              UNCHANGED <<clientVars, pc, cur, req>>
       PROVE  ClientInv'
  <2>1. /\ backlog \in Seq(Clients) /\ backlog # <<>> /\ file[fd] = Closed
        /\ file' = [file EXCEPT ![fd] = Head(backlog)] /\ backlog' = Tail(backlog)
    BY <1>t, <1>10 DEF Accept, Free, TypeOK
  <2>2. /\ Head(backlog) = backlog[1] /\ 1 \in DOMAIN backlog /\ backlog[1] \in Clients
        /\ \A i \in DOMAIN backlog' : i + 1 \in DOMAIN backlog /\ backlog'[i] = backlog[i + 1]
                                      /\ i + 1 # 1 /\ i \in Int
    BY <2>1
  <2>3. file'[fd] = backlog[1] /\ \A g \in Descriptors : g # fd => file'[g] = file[g]
    BY <1>t, <2>1, <2>2 DEF TypeOK
  <2>4. Held' \subseteq Held
    BY <2>2, <2>3 DEF Held
  <2>5. \A g, h \in Descriptors : file'[g] \in Clients /\ file'[g] = file'[h] => g = h
    BY <2>2, <2>3 DEF ClientInv
  <2>6. \A i, j \in DOMAIN backlog' : backlog'[i] = backlog'[j] => i = j
    <3> TAKE i, j \in DOMAIN backlog'
    <3>1. backlog'[i] = backlog'[j] => i + 1 = j + 1
      BY <2>2 DEF ClientInv
    <3> QED BY <2>2, <3>1
  <2>7. \A g \in Descriptors, i \in DOMAIN backlog' : file'[g] # backlog'[i]
    BY <2>2, <2>3 DEF ClientInv
  <2>8. Pending' \subseteq Pending /\ ~Serving'
    BY <1>10 DEF Dispatch, Pending, Serving
  <2> QED BY <1>10, <2>4, <2>5, <2>6, <2>7, <2>8 DEF ClientInv
<1>11. ASSUME NEW e \in active, NEW fd \in Descriptors,
              serverAccept(e, fd) \/ serverAcceptLeaks(e, fd)
       PROVE  ClientInv'
  BY <1>10, <1>11 DEF serverAccept, serverAcceptLeaks
<1>12. ASSUME NEW e \in active, RequestMalformed(e) PROVE ClientInv'
  <2>1. e \in Pending
    BY DEF Pending
  <2> QED BY <1>12, <2>1, CloseClient DEF RequestMalformed, Dispatch
<1>13. ASSUME NEW e \in active, RequestCached(e) \/ RequestUnknown(e) PROVE ClientInv'
  <2>1. /\ ~Serving /\ Serving' /\ cur' = e /\ active' = active \ {e}
        /\ UNCHANGED <<peer, sent, inbox, backlog, file>>
        /\ req' = Request(file[e.fd]) /\ req' # NoWord
    BY <1>13 DEF RequestCached, RequestUnknown, Dispatch, Serving
  <2>2. Pending' = Pending /\ e \in Pending /\ Held' = Held
    BY <2>1 DEF Pending, Held
  <2>3. req' = sent'[cur'.conn]
    BY <2>1, <2>2, PendingHeld DEF Request
  <2> QED BY <2>1, <2>2, <2>3 DEF ClientInv
<1>14. CASE Reply \/ ErrorTextLost
  BY <1>14, ReplyCloses, CloseClient
<1>15. CASE UNCHANGED vars
  <2>1. /\ UNCHANGED <<peer, sent, inbox, backlog, file, cur, req>> /\ Pending' = Pending
        /\ Serving' = Serving
    BY <1>15 DEF vars, Pending, Serving
  <2> QED BY <1>t, <2>1, ClientFrame DEF Keeps
<1> QED BY <1>1, <1>2, <1>3, <1>4, <1>5, <1>6, <1>7, <1>8, <1>9, <1>d, <1>11, <1>12, <1>13,
           <1>14, <1>15
        DEF Next, ServerStep

-----------------------------------------------------------------------------
(* The answers. *)

\* Nothing is cached or answered at the start.
LEMMA InitAnswer == Init => AnswerInv
BY DEF Init, AnswerInv, AnswerHashMatches

\* The answers already given stand, and those given now are as required.
LEMMA HangUpAnswer ==
    ASSUME TypeOK, ClientInv, AnswerInv, NEW cs \in SUBSET Held, NEW answer, HangUp(cs, answer),
           \A c \in cs : answer[c] \in Words =>
                            sent[c] \in Words /\ Hash[answer[c]] = Hash[sent[c]]
    PROVE  AnswerHashMatches'
<1>1. ASSUME NEW c \in Clients, inbox'[c] \in Words
      PROVE  sent'[c] \in Words /\ Hash[inbox'[c]] = Hash[sent'[c]]
  <2>1. CASE c \in cs /\ peer[c] # "open"
    BY <1>1, <2>1 DEF HangUp, ClientInv
  <2>2. CASE c \in cs /\ peer[c] = "open"
    BY <1>1, <2>2 DEF HangUp
  <2>3. CASE c \notin cs
    BY <1>1, <2>3 DEF HangUp, AnswerInv, AnswerHashMatches
  <2> QED BY <2>1, <2>2, <2>3
<1> QED BY <1>1 DEF AnswerHashMatches

\* The end of the process, which answers no one with a definition, keeps AnswerInv.
LEMMA DieAnswer ==
    ASSUME TypeInv, ClientInv, AnswerInv, NEW answer, Die(answer),
           \A c \in Clients : answer[c] \in {"reset", "partial"}
    PROVE  AnswerInv'
<1>1. HangUp(Held, answer) /\ cache' = <<>> /\ pc' = "down" /\ TypeOK
  BY DEF Die, TypeInv
<1>2. \A c \in Held : answer[c] \notin Words
  BY DEF Held
<1>3. AnswerHashMatches'
  BY <1>1, <1>2, HangUpAnswer
<1> QED BY <1>1, <1>3 DEF AnswerInv

\* The end of a connection with an answer that carries the hash of the word sent
\* keeps AnswerInv.
LEMMA CloseAnswer ==
    ASSUME TypeInv, LoopInv, ClientInv, AnswerInv, NEW e \in Pending, NEW answer,
           file[e.fd] # Listener, CloseConnection(e, answer), cache' = cache,
           answer \in Words => sent[e.conn] \in Words /\ Hash[answer] = Hash[sent[e.conn]]
    PROVE  AnswerInv'
<1>1. PICK c \in Clients : c = e.conn /\ c = file[e.fd] /\ c \in Held
  BY PendingHeld
<1> DEFINE f == [d \in {c} |-> answer]
<1>2. HangUp({c}, f) /\ pc' = "loop" /\ TypeOK
  BY <1>1 DEF CloseConnection, TypeInv
<1>3. \A d \in {c} : f[d] = answer
  OBVIOUS
<1> HIDE DEF f
<1>4. AnswerHashMatches'
  BY <1>1, <1>2, <1>3, HangUpAnswer
<1> QED BY <1>2, <1>4 DEF AnswerInv

\* A word added to the cache carries its own hash.
LEMMA HmapAddAnswer ==
    ASSUME TypeOK, AnswerInv, NEW w \in Words, NEW key \in Words \union {Stack}, hmapAdd(key, w)
    PROVE  \A j \in DOMAIN cache' : cache'[j].hash = Hash[cache'[j].def]
<1> TAKE j \in DOMAIN cache'
<1>1. \/ cache'[j] = [key |-> key, hash |-> Hash[w], def |-> w]
      \/ \E i \in DOMAIN cache : cache'[j] = cache[i]
  BY HmapAddEntries
<1> QED BY <1>1 DEF AnswerInv

\* No step breaks the tie between a word's hash and what is cached and answered.
LEMMA NextAnswer ==
    ASSUME TypeInv, LoopInv, ClientInv, AnswerInv, [Next]_vars
    PROVE  AnswerInv'
<1> USE DEF loopVars, clientVars, cacheVars, dbVars, reqVars
<1>t. TypeOK /\ ThreadOK
  BY DEF TypeInv
<1>1. ASSUME UNCHANGED <<sent, inbox, cache>>, pc' = "reply" => UNCHANGED <<pc, req, resp>>
      PROVE  AnswerInv'
  BY <1>1 DEF AnswerInv, AnswerHashMatches
<1>2. ASSUME NEW c \in Clients, ClientConnect(c) \/ ClientKilled(c) PROVE AnswerInv'
  BY <1>1, <1>2 DEF ClientConnect, ClientKilled
<1>3. ASSUME NEW c \in Clients, ClientWrite(c) \/ ClientRead(c) PROVE AnswerInv'
  <2>1. /\ inbox'[c] = "none" /\ UNCHANGED <<cache, pc, req, resp>>
        /\ \A d \in Clients : d # c => sent'[d] = sent[d] /\ inbox'[d] = inbox[d]
    BY <1>t, <1>3 DEF ClientWrite, ClientRead, TypeOK
  <2> QED BY <2>1 DEF AnswerInv, AnswerHashMatches
<1>4. CASE serverInit \/ serverInitDictionaryReturns \/ eloopProcessEvents \/ UNCHANGED vars
  BY <1>1, <1>4 DEF serverInit, serverInitDictionaryReturns, eloopProcessEvents, vars
<1>5. CASE Kill \/ FetchFindsNothing \/ ReplyCutShort
  BY <1>5, DieAnswer DEF Kill, FetchFindsNothing, ReplyCutShort, AllReset
<1>6. CASE serverTransferToCache
  <2>1. rows[loaded + 1] \in Words /\ UNCHANGED <<sent, inbox>> /\ pc' # "reply"
    BY <1>t, <1>6 DEF serverTransferToCache, TypeOK
  <2>2. \A j \in DOMAIN cache' : cache'[j].hash = Hash[cache'[j].def]
    BY <1>t, <1>6, <2>1, HmapAddAnswer DEF serverTransferToCache
  <2> QED BY <2>1, <2>2 DEF AnswerInv, AnswerHashMatches
<1>7. CASE FetchFinds
  <2>1. req \in Words /\ UNCHANGED <<sent, inbox>> /\ pc' # "reply"
    BY <1>t, <1>7 DEF FetchFinds, ThreadOK
  <2>2. \A j \in DOMAIN cache' : cache'[j].hash = Hash[cache'[j].def]
    BY <1>t, <1>7, <2>1, HmapAddAnswer DEF FetchFinds
  <2> QED BY <2>1, <2>2 DEF AnswerInv, AnswerHashMatches
<1>8. CASE FetchFails \/ serverPesistToDb
  <2>1. resp' = "notfound" \/ (resp' = req /\ req' = req)
    BY <1>8 DEF FetchFails, serverPesistToDb
  <2> QED BY <1>8, <2>1 DEF FetchFails, serverPesistToDb, AnswerInv, AnswerHashMatches
<1>9. ASSUME NEW e \in active, AcceptFails(e) PROVE AnswerInv'
  BY <1>1, <1>9 DEF AcceptFails
<1>d. ASSUME NEW e \in active, AcceptDrops(e) PROVE AnswerInv'
  <2>1. /\ HangUp({Head(backlog)}, AllReset) /\ backlog \in Seq(Clients) /\ backlog # <<>>
        /\ UNCHANGED <<cache, pc, req, resp>>
    BY <1>t, <1>d DEF AcceptDrops, TypeOK
  <2>2. Head(backlog) = backlog[1] /\ 1 \in DOMAIN backlog /\ backlog[1] \in Clients
    BY <2>1
  <2>3. {Head(backlog)} \in SUBSET Held /\ AllReset[Head(backlog)] = "reset"
    BY <2>2 DEF Held, AllReset
  <2>4. AnswerHashMatches'
    BY <1>t, <2>1, <2>3, HangUpAnswer
  <2> QED BY <2>1, <2>4 DEF AnswerInv
<1>10. ASSUME NEW e \in active, NEW fd \in Descriptors,
              serverAccept(e, fd) \/ serverAcceptLeaks(e, fd)
       PROVE  AnswerInv'
  BY <1>1, <1>10 DEF serverAccept, serverAcceptLeaks, Dispatch
<1>11. ASSUME NEW e \in active, RequestMalformed(e) PROVE AnswerInv'
  <2>1. e \in Pending /\ e.conn \in Clients /\ file[e.fd] = e.conn
    BY <1>11, PendingHeld DEF Pending, RequestMalformed
  <2> QED BY <1>11, <2>1, CloseAnswer DEF RequestMalformed
<1>12. ASSUME NEW e \in active, RequestUnknown(e) PROVE AnswerInv'
  BY <1>1, <1>12 DEF RequestUnknown
<1>13. ASSUME NEW e \in active, RequestCached(e) PROVE AnswerInv'
  <2>1. PICK i \in DOMAIN cache : FirstMatch(req', i) /\ resp' = cache[i].def
    BY <1>13 DEF RequestCached
  <2>2. Hash[resp'] = Hash[req']
    BY <2>1 DEF FirstMatch, Matches, AnswerInv
  <2> QED BY <1>13, <2>2 DEF RequestCached, AnswerInv, AnswerHashMatches
<1>14. CASE Reply \/ ErrorTextLost
  <2>1. PICK answer \in Words \union {"notfound", "eof", "partial"} :
          /\ CloseConnection(cur, answer)
          /\ answer \in Words => answer = resp
    BY <1>14, ReplyCloses
  <2>2. /\ cur \in Pending /\ file[cur.fd] # Listener /\ pc = "reply" /\ cache' = cache
        /\ sent[cur.conn] = req /\ req \in Words
    BY <1>t, <1>14, ReplyCloses DEF Serving, ClientInv, ThreadOK
  <2>3. answer \in Words => Hash[answer] = Hash[req]
    BY <2>1, <2>2 DEF AnswerInv
  <2> QED BY <2>1, <2>2, <2>3, CloseAnswer
<1> QED BY <1>2, <1>3, <1>4, <1>5, <1>6, <1>7, <1>8, <1>9, <1>d, <1>10, <1>11, <1>12, <1>13,
           <1>14
        DEF Next, ServerStep

-----------------------------------------------------------------------------
(* The database against the answers. *)

\* Nothing is cached or answered at the start.
LEMMA InitDurable == Init => DurableInv
BY DEF Init, DurableInv, AnsweredIsDurable

\* hmapAdd adds no definition but that of its word.
LEMMA HmapAddDurable ==
    ASSUME TypeOK, NEW w \in Words, NEW key \in Words \union {Stack}, hmapAdd(key, w)
    PROVE  \A j \in DOMAIN cache' : cache'[j].def = w \/ \E i \in DOMAIN cache : cache'[j] = cache[i]
<1> TAKE j \in DOMAIN cache'
<1>1. \/ cache'[j] = [key |-> key, hash |-> Hash[w], def |-> w]
      \/ \E i \in DOMAIN cache : cache'[j] = cache[i]
  BY HmapAddEntries
<1> QED BY <1>1

\* With a database that does not fail and inserts no apostrophe breaks, what is
\* cached or answered is, or is about to be, in the database.
LEMMA NextDurable ==
    ASSUME "db" \notin Faults, Quoted = {}, TypeInv, LoopInv, DurableInv, [Next]_vars
    PROVE  DurableInv'
<1> USE DEF loopVars, clientVars, cacheVars, dbVars, reqVars
<1>t. TypeOK /\ ThreadOK
  BY DEF TypeInv
<1>1. ASSUME UNCHANGED <<cache, rows>>, pc # "persist",
             \A c \in Clients : inbox'[c] \in Words => inbox'[c] \in Stored,
             pc' = "reply" => (UNCHANGED <<pc, resp>> \/ resp' \notin Words)
      PROVE  DurableInv'
  BY <1>1 DEF DurableInv, AnsweredIsDurable, Stored
<1>2. ASSUME NEW c \in Clients,
             ClientConnect(c) \/ ClientWrite(c) \/ ClientRead(c) \/ ClientKilled(c)
      PROVE  DurableInv'
  <2>1. \A d \in Clients : inbox'[d] = inbox[d] \/ inbox'[d] = "none"
    BY <1>t, <1>2 DEF ClientConnect, ClientWrite, ClientRead, ClientKilled, TypeOK
  <2>2. UNCHANGED <<cache, rows, pc, req, resp>>
    BY <1>2 DEF ClientConnect, ClientWrite, ClientRead, ClientKilled
  <2> QED BY <2>1, <2>2 DEF DurableInv, AnsweredIsDurable, Stored
<1>3. ASSUME NEW answer, Die(answer), \A c \in Clients : answer[c] \notin Words
      PROVE  DurableInv'
  BY <1>3 DEF Die, HangUp, DurableInv, AnsweredIsDurable, Stored
<1>4. CASE Kill \/ FetchFindsNothing \/ ReplyCutShort
  <2>1. \A c \in Clients : AllReset[c] \notin Words
                           /\ \A d : [AllReset EXCEPT ![d] = "partial"][c] \notin Words
    BY DEF AllReset
  <2> QED BY <1>3, <1>4, <2>1 DEF Kill, FetchFindsNothing, ReplyCutShort
<1>5. CASE UNCHANGED vars
  BY <1>5 DEF vars, DurableInv, AnsweredIsDurable, Stored
<1>6. CASE \/ serverInit \/ serverInitDictionaryReturns \/ eloopProcessEvents \/ FetchFails
  <2>1. /\ UNCHANGED <<cache, rows, inbox>> /\ pc # "persist"
        /\ pc' = "reply" => resp' \notin Words
    BY <1>6 DEF serverInit, serverInitDictionaryReturns, eloopProcessEvents, FetchFails
  <2> QED BY <1>1, <2>1 DEF DurableInv, AnsweredIsDurable
<1>7. CASE serverTransferToCache
  <2>1. /\ rows[loaded + 1] \in Words /\ rows[loaded + 1] \in Stored
        /\ UNCHANGED <<inbox, rows>> /\ pc = "load" /\ pc' = "load"
    BY <1>t, <1>7 DEF serverTransferToCache, TypeOK, Stored
  <2>2. \A j \in DOMAIN cache' : cache'[j].def \in Stored
    BY <1>t, <1>7, <2>1, HmapAddDurable DEF serverTransferToCache, DurableInv
  <2> QED BY <2>1, <2>2 DEF DurableInv, AnsweredIsDurable, Stored
<1>8. CASE FetchFinds
  <2>1. /\ req \in Words /\ UNCHANGED <<inbox, rows, req>> /\ pc = "fetch" /\ pc' = "persist"
    BY <1>t, <1>8 DEF FetchFinds, ThreadOK
  <2>2. \A j \in DOMAIN cache' : cache'[j].def \in Stored \/ cache'[j].def = req
    BY <1>t, <1>8, <2>1, HmapAddDurable DEF FetchFinds, DurableInv
  <2> QED BY <2>1, <2>2 DEF DurableInv, AnsweredIsDurable, Stored
<1>9. CASE serverPesistToDb
  <2>1. /\ rows' = Append(rows, req) /\ resp' = req /\ pc = "persist" /\ pc' = "reply"
        /\ UNCHANGED <<inbox, cache, req>> /\ rows \in Seq(Words) /\ req \in Words
    BY <1>t, <1>9 DEF serverPesistToDb, dbExecMayFail, TypeOK, ThreadOK
  <2>2. /\ DOMAIN rows' = 1 .. Len(rows) + 1 /\ rows'[Len(rows) + 1] = req
        /\ \A i \in DOMAIN rows : rows'[i] = rows[i] /\ i \in DOMAIN rows'
        /\ Len(rows) + 1 \in DOMAIN rows'
    BY <2>1
  <2>3. Stored \subseteq Stored' /\ req \in Stored'
    BY <2>2 DEF Stored
  <2> QED BY <2>1, <2>3 DEF DurableInv, AnsweredIsDurable
<1>10. ASSUME NEW e \in active, NEW fd \in Descriptors,
              serverAccept(e, fd) \/ serverAcceptLeaks(e, fd)
       PROVE  DurableInv'
  BY <1>1, <1>10 DEF serverAccept, serverAcceptLeaks, Dispatch, DurableInv, AnsweredIsDurable
<1>11. ASSUME NEW e \in active, AcceptFails(e) \/ RequestUnknown(e) PROVE DurableInv'
  BY <1>1, <1>11 DEF AcceptFails, RequestUnknown, Dispatch, DurableInv, AnsweredIsDurable
<1>d. ASSUME NEW e \in active, AcceptDrops(e) PROVE DurableInv'
  <2>1. \A c \in Clients : inbox'[c] = inbox[c] \/ inbox'[c] \in {"reset"}
    BY <1>t, <1>d DEF AcceptDrops, HangUp, AllReset, TypeOK
  <2>2. \A c \in Clients : inbox'[c] \in Words => inbox'[c] \in Stored
    BY <2>1 DEF DurableInv, AnsweredIsDurable
  <2> QED BY <1>1, <1>d, <2>2 DEF AcceptDrops, Dispatch
<1>12. ASSUME NEW e, NEW answer, CloseConnection(e, answer),
              answer \in Words => answer \in Stored
       PROVE  \A c \in Clients : inbox'[c] \in Words => inbox'[c] \in Stored
  <2>1. HangUp({file[e.fd]}, [d \in {file[e.fd]} |-> answer])
    BY <1>12 DEF CloseConnection
  <2>2. \A c \in Clients : inbox'[c] = answer \/ inbox'[c] = inbox[c]
    BY <2>1 DEF HangUp
  <2> QED BY <1>12, <2>2 DEF DurableInv, AnsweredIsDurable
<1>13. ASSUME NEW e \in active, RequestMalformed(e) PROVE DurableInv'
  <2>1. \A c \in Clients : inbox'[c] \in Words => inbox'[c] \in Stored
    BY <1>12, <1>13 DEF RequestMalformed
  <2> QED BY <1>1, <1>13, <2>1 DEF RequestMalformed, Dispatch, CloseConnection
<1>14. ASSUME NEW e \in active, RequestCached(e) PROVE DurableInv'
  BY <1>14 DEF RequestCached, Dispatch, DurableInv, AnsweredIsDurable, Stored
<1>15. CASE Reply \/ ErrorTextLost
  <2>1. PICK answer \in Words \union {"notfound", "eof", "partial"} :
          /\ CloseConnection(cur, answer)
          /\ answer \in Words => answer = resp
    BY <1>15, ReplyCloses
  <2>2. pc = "reply" /\ UNCHANGED <<cache, rows>>
    BY <1>15, ReplyCloses
  <2>3. \A c \in Clients : inbox'[c] \in Words => inbox'[c] \in Stored
    BY <1>12, <2>1, <2>2 DEF DurableInv
  <2> QED BY <1>1, <2>1, <2>2, <2>3 DEF CloseConnection
<1> QED BY <1>d, <1>2, <1>4, <1>5, <1>6, <1>7, <1>8, <1>9, <1>10, <1>11, <1>13, <1>14, <1>15
        DEF Next, ServerStep

\* What is not cached when it is asked for is not stored, and is not inserted
\* while its client is being told so.
LEMMA NextTold ==
    ASSUME TypeInv, RowsInv, ToldInv, [Next]_vars
    PROVE  ToldInv'
<1> USE DEF loopVars, clientVars, cacheVars, dbVars, reqVars
<1>t. TypeOK /\ ThreadOK
  BY DEF TypeInv
<1>1. CASE pc' \notin {"fetch", "persist", "reply"}
  BY <1>1 DEF ToldInv, Serving
<1>2. CASE UNCHANGED <<pc, resp, req, rows>>
  BY <1>2 DEF ToldInv, Serving, Stored
<1>3. CASE FetchFails
  BY <1>3 DEF FetchFails, ToldInv, Serving, RowsInv, Stored
<1>4. ASSUME NEW e \in active, RequestCached(e) PROVE ToldInv'
  <2>1. PICK i \in DOMAIN cache : resp' = cache[i].def
    BY <1>4 DEF RequestCached
  <2>2. cache[i] \in Entries
    BY <1>t DEF TypeOK
  <2>3. resp' # "notfound"
    BY <2>1, <2>2 DEF Entries
  <2>4. req' \notin Unparsable /\ pc' = "reply"
    BY <1>4 DEF RequestCached, Request
  <2> QED BY <2>3, <2>4 DEF ToldInv
<1>5. CASE serverPesistToDb
  BY <1>t, <1>5 DEF serverPesistToDb, ThreadOK, ToldInv, Serving
<1>6. ASSUME NEW e \in active, RequestUnknown(e) PROVE ToldInv'
  BY <1>6 DEF RequestUnknown, Request, ToldInv
<1>7. CASE FetchFinds
  BY <1>7 DEF FetchFinds, ToldInv, Serving
<1> QED
  BY <1>1, <1>2, <1>3, <1>4, <1>5, <1>6, <1>7
  DEF Next, ServerStep, vars, ClientConnect, ClientWrite, ClientRead, ClientKilled, serverInit,
      Kill, Die, serverTransferToCache, serverInitDictionaryReturns, eloopProcessEvents,
      AcceptFails, AcceptDrops, serverAccept, serverAcceptLeaks, RequestMalformed,
      CloseConnection, FetchFindsNothing, Reply, ErrorTextLost, ReplyCutShort

-----------------------------------------------------------------------------
(* The connection count. *)

Counted == Registered \intersect Connected

\* There are finitely many registered connections, so they can be counted.
LEMMA CountedFinite == IsFiniteSet(Counted) /\ Cardinality(Counted) \in Nat
<1>1. IsFiniteSet(0 .. Count - 1)
  BY FS_Interval
<1>2. Counted \subseteq 0 .. Count - 1
  BY DEF Counted, Registered, Slots
<1>3. IsFiniteSet(Counted)
  BY <1>1, <1>2, FS_Subset
<1> QED BY <1>3, FS_CardinalityType

\* Nothing is counted and nothing is lost at the start.
LEMMA InitBook == Init => BookInv
<1> SUFFICES ASSUME Init PROVE BookInv
  OBVIOUS
<1>1. Registered = {} /\ Connected = {} /\ clientcount = 0
  BY DEF Init, Registered, Connected, NoSlots
<1>2. Registered \intersect Connected = {} /\ Cardinality({}) = 0
  BY <1>1, FS_EmptySet
<1> QED BY <1>1, <1>2 DEF BookInv, CountIsExact, LeakOnlyBeyondTable

\* No step breaks the count or, when epoll_ctl does not fail, loses a descriptor
\* of the table.
LEMMA NextBook ==
    ASSUME TypeInv, LoopInv, BookInv, [Next]_vars
    PROVE  BookInv'
<1> USE DEF loopVars, clientVars, cacheVars, dbVars, reqVars
<1>t. TypeOK /\ TableOK
  BY DEF TypeInv, LoopInv
<1>1. ASSUME UNCHANGED <<idle, clientcount>>, Connected' = Connected PROVE BookInv'
  BY <1>1 DEF BookInv, CountIsExact, LeakOnlyBeyondTable, Registered
<1>2. ASSUME NEW answer, Die(answer) PROVE BookInv'
  <2>1. Registered' = {} /\ Connected' = {} /\ clientcount' = 0
    BY <1>2 DEF Die, eloopCreate, Registered, Connected, NoSlots
  <2>2. (Registered \intersect Connected)' = {} /\ Cardinality({}) = 0
    BY <2>1, FS_EmptySet
  <2> QED BY <2>1, <2>2 DEF BookInv, CountIsExact, LeakOnlyBeyondTable
<1>3. ASSUME NEW e \in Pending, NEW answer, file[e.fd] # Listener, CloseConnection(e, answer)
      PROVE  BookInv'
  <2>1. /\ e.fd \in Slots /\ e.fd \in Descriptors /\ idle[e.fd] # {} /\ "READ" \in e.mask
        /\ file[e.fd] \in Clients
    BY <1>3, PendingHeld DEF LoopInv, EventsOK
  <2>2. idle' = [idle EXCEPT ![e.fd] = {}]
    BY <1>3, <1>t, <2>1, DeleteEventLoop DEF LoopInv, CloseConnection
  <2>3. file' = [file EXCEPT ![e.fd] = Closed] /\ clientcount' = clientcount - 1
    BY <1>3 DEF CloseConnection
  <2>4. Registered' = Registered \ {e.fd} /\ Connected' = Connected \ {e.fd}
    BY <1>t, <2>1, <2>2, <2>3 DEF Registered, Connected, TypeOK
  <2>5. Counted' = Counted \ {e.fd} /\ e.fd \in Counted
    BY <2>1, <2>4 DEF Counted, Registered, Connected
  <2>6. Cardinality(Counted') = Cardinality(Counted) - 1
    BY <2>5, CountedFinite, FS_RemoveElement
  <2>7. CountIsExact'
    BY <2>3, <2>6 DEF BookInv, CountIsExact, Counted
  <2>8. LeakOnlyBeyondTable => LeakOnlyBeyondTable'
    BY <2>4 DEF LeakOnlyBeyondTable
  <2> QED BY <2>7, <2>8 DEF BookInv
<1>4. ASSUME NEW e \in active, NEW fd \in Descriptors, serverAccept(e, fd) PROVE BookInv'
  <2>1. /\ file[fd] = Closed /\ Head(backlog) \in Clients
        /\ file' = [file EXCEPT ![fd] = Head(backlog)]
    BY <1>4, <1>t DEF serverAccept, Accept, Free, TypeOK
  <2>2. e.mask # {} /\ fd \in Slots /\ clientcount' = clientcount + 1
        /\ idle' = [idle EXCEPT ![fd] = idle[fd] \union e.mask]
    BY <1>4 DEF serverAccept, eloopAddEvent, eloopAddEventOk, LoopInv, EventsOK, Pending, Slots,
                Descriptors
  <2>3. Registered' = Registered \union {fd} /\ Connected' = Connected \union {fd}
    BY <1>t, <2>1, <2>2 DEF Registered, Connected, TypeOK
  <2>4. fd \notin Registered /\ fd \notin Connected
    BY <1>t, <2>1 DEF Registered, Connected, TableOK
  <2>5. Counted' = Counted \union {fd} /\ fd \notin Counted
    BY <2>3, <2>4 DEF Counted
  <2>6. Cardinality(Counted') = Cardinality(Counted) + 1
    BY <2>5, CountedFinite, FS_AddElement
  <2>7. CountIsExact'
    BY <2>2, <2>6 DEF BookInv, CountIsExact, Counted
  <2>8. LeakOnlyBeyondTable => LeakOnlyBeyondTable'
    BY <2>3 DEF LeakOnlyBeyondTable
  <2> QED BY <2>7, <2>8 DEF BookInv
<1>5. ASSUME NEW e \in active, NEW fd \in Descriptors, serverAcceptLeaks(e, fd) PROVE BookInv'
  <2>1. /\ file[fd] = Closed /\ Head(backlog) \in Clients
        /\ file' = [file EXCEPT ![fd] = Head(backlog)] /\ UNCHANGED <<idle, clientcount>>
    BY <1>5, <1>t DEF serverAcceptLeaks, Accept, Free, TypeOK
  <2>2. fd \notin Registered
    BY <1>t, <2>1 DEF Registered, TableOK
  <2>3. Registered' = Registered /\ Connected' = Connected \union {fd}
    BY <1>t, <2>1 DEF Registered, Connected, TypeOK
  <2>4. (Registered \intersect Connected)' = Registered \intersect Connected
    BY <2>2, <2>3
  <2>5. CountIsExact'
    BY <2>1, <2>4 DEF BookInv, CountIsExact
  <2>6. "epoll" \notin Faults => fd >= Count
    <3>1. fd \in Slots => eloopStateAddOk(fd)
      BY <1>t DEF TableOK, eloopStateAddOk
    <3> QED BY <1>5, <3>1 DEF serverAcceptLeaks, eloopAddEventOk, Slots, Descriptors
  <2> QED BY <2>3, <2>5, <2>6 DEF BookInv, LeakOnlyBeyondTable
<1>6. CASE serverInit
  <2>1. /\ \A fd \in Descriptors : file[fd] = Closed /\ clientcount' = clientcount
        /\ \A fd \in Descriptors : file'[fd] \in {Closed, Listener}
    BY <1>6 DEF serverInit, LoopInv, DownOK
  <2>2. Connected = {} /\ Connected' = {}
    BY <2>1 DEF Connected
  <2> QED BY <1>6, <2>2 DEF serverInit, BookInv, CountIsExact, LeakOnlyBeyondTable
<1>7. CASE Kill \/ FetchFindsNothing \/ ReplyCutShort
  BY <1>2, <1>7 DEF Kill, FetchFindsNothing, ReplyCutShort
<1>8. ASSUME NEW e \in active, RequestMalformed(e) PROVE BookInv'
  BY <1>3, <1>8 DEF RequestMalformed, Pending
<1>9. CASE Reply \/ ErrorTextLost
  BY <1>3, <1>9, ReplyCloses
<1>10. ASSUME NEW e \in active, \/ AcceptFails(e) \/ AcceptDrops(e)
                                 \/ RequestCached(e) \/ RequestUnknown(e)
       PROVE  BookInv'
  BY <1>1, <1>10 DEF AcceptFails, AcceptDrops, RequestCached, RequestUnknown, Connected
<1>11. CASE \/ serverTransferToCache \/ serverInitDictionaryReturns \/ eloopProcessEvents
            \/ FetchFinds \/ serverPesistToDb \/ UNCHANGED vars
  BY <1>1, <1>11 DEF serverTransferToCache, serverInitDictionaryReturns, eloopProcessEvents,
                     FetchFinds, serverPesistToDb, vars, Connected
<1>13. CASE FetchFails
  BY <1>t, <1>1, <1>13, FetchFailsKeeps, KeepsConnections DEF FetchFails
<1>12. ASSUME NEW c \in Clients,
              ClientConnect(c) \/ ClientWrite(c) \/ ClientRead(c) \/ ClientKilled(c)
       PROVE  BookInv'
  BY <1>1, <1>12 DEF ClientConnect, ClientWrite, ClientRead, ClientKilled, Connected
<1> QED BY <1>4, <1>5, <1>6, <1>7, <1>8, <1>9, <1>10, <1>11, <1>12, <1>13 DEF Next, ServerStep

-----------------------------------------------------------------------------
(* Nobody who waits is forgotten. *)

\* Nobody waits at the start.
LEMMA InitHear == Init => HearInv
BY DEF Init, HearInv

\* A step that leaves the clients' ends, the answers, the descriptors and the
\* table alone, and no batch outside the loop, keeps HearInv.
LEMMA HearFrame ==
    ASSUME HearInv, UNCHANGED <<peer, inbox, backlog, idle>>, Keeps, pc # "down",
           pc' \in {"down", "load"} => active' = {}
    PROVE  HearInv'
<1>1. Held' = Held /\ Registered' = Registered
  BY KeepsConnections DEF Registered
<1>2. Sfd \in Descriptors /\ (file[Sfd] = Listener => file'[Sfd] = Listener)
  BY KeepsConnections DEF Sfd, Descriptors
<1> QED BY <1>1, <1>2 DEF HearInv

\* The end of the process keeps HearInv: whoever waits is told.
LEMMA DieHear ==
    ASSUME HearInv, NEW answer, \A c \in Clients : answer[c] # "none", Die(answer)
    PROVE  HearInv'
<1>1. pc' = "down" /\ active' = {}
  BY DEF Die, eloopCreate
<1>2. \A c \in Clients : ~(peer'[c] = "open" /\ inbox'[c] = "none")
  BY DEF Die, HangUp, HearInv
<1> QED BY <1>1, <1>2 DEF HearInv

\* Whoever is hung up on waits no longer, and nobody else begins to.
LEMMA HangUpHear ==
    ASSUME NEW cs, NEW answer, \A c \in cs : answer[c] # "none", HangUp(cs, answer),
           NEW c \in Clients, peer'[c] = "open", inbox'[c] = "none"
    PROVE  c \notin cs /\ peer[c] = "open" /\ inbox[c] = "none"
BY DEF HangUp

\* The end of the connection of a pending event keeps HearInv.
LEMMA CloseHear ==
    ASSUME TypeInv, LoopInv, HearInv, NEW e \in Pending, file[e.fd] # Listener,
           NEW answer, answer # "none", CloseConnection(e, answer), backlog' = backlog,
           pc # "down"
    PROVE  HearInv'
<1>1. /\ e.fd \in Slots /\ e.fd \in Descriptors /\ idle[e.fd] # {} /\ "READ" \in e.mask
      /\ file[e.fd] \in Clients
  BY PendingHeld DEF LoopInv, EventsOK
<1>2. pc' = "loop" /\ file' = [file EXCEPT ![e.fd] = Closed]
  BY DEF CloseConnection
<1>3. idle' = [idle EXCEPT ![e.fd] = {}]
  BY <1>1, <1>2, DeleteEventLoop DEF CloseConnection, TypeInv, LoopInv
<1>4. \A fd \in Descriptors : fd # e.fd => file'[fd] = file[fd]
  BY <1>2 DEF TypeInv, TypeOK
<1>5. ASSUME NEW c \in Clients, peer'[c] = "open", inbox'[c] = "none" PROVE c \in Held'
  <2> DEFINE told == [d \in {file[e.fd]} |-> answer]
  <2>1. HangUp({file[e.fd]}, told) /\ \A d \in {file[e.fd]} : told[d] # "none"
    BY DEF CloseConnection
  <2> HIDE DEF told
  <2>2. c # file[e.fd] /\ c \in Held
    BY <1>5, <2>1, HangUpHear DEF HearInv
  <2> QED BY <1>1, <1>4, <2>2 DEF Held
<1>6. ASSUME "epoll" \notin Faults PROVE file'[Sfd] = Listener /\ Sfd \in Registered'
  <2>1. file[Sfd] = Listener /\ Sfd \in Registered
    BY <1>6 DEF HearInv
  <2>2. Sfd # e.fd /\ Sfd \in Descriptors
    BY <1>1, <2>1 DEF Sfd, Descriptors
  <2>3. file'[Sfd] = Listener
    BY <1>4, <2>1, <2>2
  <2>4. Sfd \in Registered'
    BY <1>3, <2>1, <2>2 DEF Registered, TypeInv, TypeOK
  <2> QED BY <2>3, <2>4
<1> QED BY <1>2, <1>5, <1>6 DEF HearInv

\* The connection that accept takes from the backlog is held by its descriptor.
LEMMA AcceptHear ==
    ASSUME TypeInv, HearInv, NEW fd \in Descriptors, Accept(fd), UNCHANGED clientVars,
           pc = "loop", pc' = "loop",
           idle' = idle \/ \E mask : idle' = [idle EXCEPT ![fd] = @ \union mask]
    PROVE  HearInv'
<1>1. /\ backlog \in Seq(Clients) /\ backlog # <<>> /\ file[fd] = Closed
      /\ file' = [file EXCEPT ![fd] = Head(backlog)] /\ backlog' = Tail(backlog)
  BY DEF Accept, Free, TypeInv, TypeOK
<1>2. file'[fd] = Head(backlog) /\ \A g \in Descriptors : g # fd => file'[g] = file[g]
  BY <1>1 DEF TypeInv, TypeOK
<1>3. \A i \in DOMAIN backlog : backlog[i] = Head(backlog)
                                \/ \E j \in DOMAIN backlog' : backlog'[j] = backlog[i]
  <2> TAKE i \in DOMAIN backlog
  <2>1. i = 1 \/ (i - 1 \in DOMAIN backlog' /\ backlog'[i - 1] = backlog[i])
    BY <1>1
  <2>2. backlog[1] = Head(backlog)
    BY <1>1
  <2> QED BY <2>1, <2>2
<1>4. \A c \in Clients : c \in Held => c \in Held'
  <2>1. ASSUME NEW c \in Clients, NEW g \in Descriptors, file[g] = c PROVE c \in Held'
    BY <1>1, <1>2, <2>1 DEF Held
  <2>2. ASSUME NEW c \in Clients, NEW i \in DOMAIN backlog, backlog[i] = c PROVE c \in Held'
    BY <1>2, <1>3, <2>2 DEF Held
  <2> QED BY <2>1, <2>2 DEF Held
<1>5. ASSUME "epoll" \notin Faults PROVE file'[Sfd] = Listener /\ Sfd \in Registered'
  <2>1. file[Sfd] = Listener /\ Sfd \in Registered /\ Sfd \in Descriptors
    BY <1>5 DEF HearInv, Sfd, Descriptors
  <2>2. Sfd # fd
    BY <1>1, <2>1
  <2>3. file'[Sfd] = Listener
    BY <1>2, <2>1, <2>2
  <2>4. Sfd \in Registered'
    BY <2>1, <2>2 DEF Registered, TypeInv, TypeOK
  <2> QED BY <2>3, <2>4
<1> QED BY <1>4, <1>5 DEF HearInv, clientVars

\* No step forgets a client that waits.
LEMMA NextHear ==
    ASSUME TypeInv, LoopInv, ClientInv, HearInv, [Next]_vars
    PROVE  HearInv'
<1> USE DEF loopVars, clientVars, cacheVars, dbVars, reqVars
<1>t. TypeOK /\ ThreadOK
  BY DEF TypeInv
<1>1. ASSUME NEW c \in Clients, ClientConnect(c) PROVE HearInv'
  <2>1. /\ backlog' = Append(backlog, c) /\ peer' = [peer EXCEPT ![c] = "open"]
        /\ UNCHANGED <<inbox, file, idle, active, pc>>
    BY <1>1 DEF ClientConnect
  <2>2. /\ Len(backlog) + 1 \in DOMAIN backlog' /\ backlog'[Len(backlog) + 1] = c
        /\ \A i \in DOMAIN backlog : i \in DOMAIN backlog' /\ backlog'[i] = backlog[i]
    BY <1>t, <2>1 DEF TypeOK
  <2>3. c \in Held' /\ Held \subseteq Held'
    BY <2>1, <2>2 DEF Held
  <2>4. \A d \in Clients : d # c => peer'[d] = peer[d]
    BY <1>t, <2>1 DEF TypeOK
  <2> QED BY <2>1, <2>3, <2>4 DEF HearInv, Registered
<1>2. ASSUME NEW c \in Clients, ClientWrite(c) \/ ClientRead(c) \/ ClientKilled(c)
      PROVE  HearInv'
  <2>1. /\ UNCHANGED <<backlog, file, idle, active, pc>>
        /\ \A d \in Clients : d # c => peer'[d] = peer[d] /\ inbox'[d] = inbox[d]
    BY <1>t, <1>2 DEF ClientWrite, ClientRead, ClientKilled, TypeOK
  <2>2. peer'[c] = "open" => peer[c] = "open" /\ inbox'[c] = inbox[c]
    BY <1>t, <1>2 DEF ClientWrite, ClientRead, ClientKilled, TypeOK
  <2> QED BY <2>1, <2>2 DEF HearInv, Held, Registered
<1>3. CASE serverInit
  <2>1. /\ pc = "down" /\ pc' = "load" /\ active' = active
        /\ UNCHANGED <<peer, inbox>> /\ file' = [file EXCEPT ![Sfd] = Listener]
    BY <1>3 DEF serverInit
  <2>2. Held = {}
    BY <2>1 DEF LoopInv, DownOK, Held
  <2>3. ASSUME "epoll" \notin Faults PROVE file'[Sfd] = Listener /\ Sfd \in Registered'
    <3>1. eloopAddEvent(Sfd, {"READ"}) /\ Sfd \in Descriptors
      BY <1>3, <2>3 DEF serverInit, Sfd, Descriptors
    <3>2. file'[Sfd] = Listener
      BY <1>t, <2>1, <3>1 DEF TypeOK
    <3>3. Sfd \in Slots /\ "READ" \in idle'[Sfd]
      BY <1>t, <3>1 DEF eloopAddEvent, eloopAddEventOk, Sfd, Slots, TypeOK
    <3> QED BY <3>2, <3>3 DEF Registered
  <2> QED BY <2>1, <2>2, <2>3 DEF HearInv
<1>4. CASE Kill \/ FetchFindsNothing
  <2>1. \A c \in Clients : AllReset[c] # "none"
    BY DEF AllReset
  <2> QED BY <1>4, <2>1, DieHear DEF Kill, FetchFindsNothing
<1>5. CASE ReplyCutShort
  <2> DEFINE told == [AllReset EXCEPT ![file[cur.fd]] = "partial"]
  <2>1. \A c \in Clients : told[c] # "none"
    BY DEF AllReset
  <2>2. Die(told)
    BY <1>5 DEF ReplyCutShort
  <2> HIDE DEF told
  <2> QED BY <2>1, <2>2, DieHear
<1>6. CASE \/ serverTransferToCache \/ serverInitDictionaryReturns
           \/ FetchFails \/ FetchFinds \/ serverPesistToDb
  <2>1. Keeps
    BY <1>t, <1>6, FetchFailsKeeps DEF serverTransferToCache, serverInitDictionaryReturns,
       FetchFinds, serverPesistToDb, Keeps
  <2> QED BY <1>6, <2>1, HearFrame DEF serverTransferToCache, serverInitDictionaryReturns, FetchFails,
          FetchFinds, serverPesistToDb, HearInv
<1>7. CASE eloopProcessEvents
  BY <1>7, HearFrame DEF eloopProcessEvents, Keeps
<1>8. ASSUME NEW e \in active, AcceptFails(e) \/ RequestCached(e) \/ RequestUnknown(e)
      PROVE  HearInv'
  BY <1>8, HearFrame DEF AcceptFails, RequestCached, RequestUnknown, Dispatch, Keeps
<1>9. ASSUME NEW e \in active, AcceptDrops(e) PROVE HearInv'
  <2>1. /\ backlog \in Seq(Clients) /\ backlog # <<>> /\ backlog' = Tail(backlog)
        /\ HangUp({Head(backlog)}, AllReset) /\ UNCHANGED <<file, idle>>
        /\ pc = "loop" /\ pc' = "loop"
    BY <1>t, <1>9 DEF AcceptDrops, Dispatch, TypeOK
  <2>2. /\ Head(backlog) = backlog[1] /\ Head(backlog) \in Clients
        /\ \A i \in DOMAIN backlog : i = 1
                \/ (i - 1 \in DOMAIN backlog' /\ backlog'[i - 1] = backlog[i])
    BY <2>1
  <2>3. ASSUME NEW c \in Clients, peer'[c] = "open", inbox'[c] = "none" PROVE c \in Held'
    <3>1. \A d \in {Head(backlog)} : AllReset[d] # "none"
      BY <2>2 DEF AllReset
    <3>2. c # Head(backlog) /\ c \in Held
      BY <2>1, <2>3, <3>1, HangUpHear DEF HearInv
    <3> QED BY <2>1, <2>2, <3>2 DEF Held
  <2> QED BY <2>1, <2>3 DEF HearInv, Registered
<1>10. ASSUME NEW e \in active, NEW fd \in Descriptors,
              serverAccept(e, fd) \/ serverAcceptLeaks(e, fd)
       PROVE  HearInv'
  BY <1>10, AcceptHear DEF serverAccept, serverAcceptLeaks, Dispatch, eloopAddEvent
<1>11. ASSUME NEW e \in active, RequestMalformed(e) PROVE HearInv'
  <2>1. e \in Pending /\ pc # "down"
    BY <1>11 DEF RequestMalformed, Dispatch, Pending
  <2> QED BY <1>11, <2>1, CloseHear DEF RequestMalformed
<1>12. CASE Reply \/ ErrorTextLost
  <2>1. PICK answer \in Words \union {"notfound", "eof", "partial"} : CloseConnection(cur, answer)
    BY <1>12, ReplyCloses
  <2>2. answer # "none"
    OBVIOUS
  <2> QED BY <1>12, <2>1, <2>2, ReplyCloses, CloseHear
<1>13. CASE UNCHANGED vars
  BY <1>13 DEF vars, HearInv, Held, Registered
<1> QED BY <1>1, <1>2, <1>3, <1>4, <1>5, <1>6, <1>7, <1>8, <1>9, <1>10, <1>11, <1>12, <1>13
        DEF Next, ServerStep

-----------------------------------------------------------------------------
(* The theorems. *)

(***************************************************************************)
(* IInv is inductive, whatever fails and whatever the hash function is.     *)
(***************************************************************************)
THEOREM Invariance == Spec => []IInv
<1>1. Init => IInv
  BY InitType, InitLoop, InitClient, InitAnswer, InitBook, InitHear DEF IInv
<1>2. IInv /\ [Next]_vars => IInv'
  <2> SUFFICES ASSUME IInv, [Next]_vars PROVE IInv'
    OBVIOUS
  <2>1. TypeInv /\ LoopInv /\ ClientInv /\ AnswerInv /\ BookInv /\ HearInv /\ EventsOK
    BY DEF IInv, LoopInv
  <2>2. TypeInv' /\ LoopInv'
    BY <2>1, NextType, NextLoop
  <2>3. ClientInv' /\ AnswerInv' /\ BookInv' /\ HearInv'
    BY <2>1, NextClient, NextAnswer, NextBook, NextHear
  <2> QED BY <2>2, <2>3 DEF IInv
<1> QED BY <1>1, <1>2, PTL DEF Spec

(***************************************************************************)
(* Every variable keeps its type: no handler indexes the loop's table or    *)
(* the cache out of range, and a response is there when it is written.      *)
(***************************************************************************)
THEOREM TypeCorrect == Spec => []TypeOK
<1>1. IInv => TypeOK
  BY DEF IInv, TypeInv
<1> QED BY <1>1, Invariance, PTL

(***************************************************************************)
(* The loop's table and the kernel's interest set agree although            *)
(* eloopStateDelete never removes anything, because its only caller closes  *)
(* the descriptor at once.                                                  *)
(***************************************************************************)
THEOREM TableAgrees == Spec => []TableMatchesKernel
<1>1. TypeOK /\ TableOK => TableMatchesKernel
  BY DEF TypeOK, TableOK, TableMatchesKernel, Registered
<1>2. IInv => TableMatchesKernel
  BY <1>1 DEF IInv, TypeInv, LoopInv
<1> QED BY <1>2, Invariance, PTL

(***************************************************************************)
(* eloop.max, kept up by eloopAddEvent and rescanned by eloopDeleteEvent,   *)
(* is the highest registered descriptor: the loop never stops polling while *)
(* one is registered.                                                       *)
(***************************************************************************)
THEOREM MaxCorrect == Spec => []MaxIsHighest
<1>1. IInv => MaxIsHighest
  BY DEF IInv, LoopInv
<1> QED BY <1>1, Invariance, PTL

(***************************************************************************)
(* No handler is ever called for a connection other than the one its event  *)
(* was reported for, whatever the handlers before it in the batch did.      *)
(***************************************************************************)
THEOREM EventsAreFresh == Spec => []NoStaleEvent
<1>1. ASSUME TypeOK, TableOK, EventsOK PROVE NoStaleEvent
  <2> SUFFICES ASSUME NEW e \in active
               PROVE  file[e.fd] = e.conn /\ "READ" \in idle[e.fd] \intersect e.mask
    BY DEF NoStaleEvent
  <2>1. /\ e.fd \in Slots /\ idle[e.fd] # {} /\ file[e.fd] = e.conn /\ "READ" \in e.mask
    BY <1>1 DEF EventsOK, Pending
  <2>2. idle[e.fd] = {"READ"}
    BY <2>1, <1>1 DEF TableOK
  <2> QED BY <2>1, <2>2
<1>2. IInv => NoStaleEvent
  BY <1>1 DEF IInv, TypeInv, LoopInv
<1> QED BY <1>2, Invariance, PTL

(***************************************************************************)
(* clientcount is exact, whatever accepts leak and however requests end.    *)
(***************************************************************************)
THEOREM CountCorrect == Spec => []CountIsExact
<1>1. IInv => CountIsExact
  BY DEF IInv, BookInv
<1> QED BY <1>1, Invariance, PTL

(***************************************************************************)
(* When epoll_ctl does what it is asked, the descriptors serverAccept loses *)
(* are those beyond the loop's table.                                       *)
(***************************************************************************)
THEOREM LeakBounded ==
    ASSUME "epoll" \notin Faults
    PROVE  Spec => []LeakOnlyBeyondTable
<1>1. IInv => LeakOnlyBeyondTable
  BY DEF IInv, BookInv
<1> QED BY <1>1, Invariance, PTL

(***************************************************************************)
(* When epoll_ctl does what it is asked, the loop never goes deaf: before   *)
(* every epoll_wait, whoever waits for an answer on a descriptor of the     *)
(* table has an event pending, or the listener has one for it.              *)
(***************************************************************************)
THEOREM WaitersHeard ==
    ASSUME "epoll" \notin Faults
    PROVE  Spec => []WaitersAreHeard
<1>1. IInv => WaitersAreHeard
  <2> SUFFICES ASSUME IInv, pc = "loop", NEW c \in Clients, peer[c] = "open",
                      sent[c] # NoWord, inbox[c] = "none",
                      \A fd \in Connected : fd >= Count => file[fd] # c
               PROVE  \E e \in NextBatch :
                        \/ e.conn = c
                        \/ e.conn = Listener /\ \E i \in DOMAIN backlog : backlog[i] = c
    BY DEF WaitersAreHeard
  <2>1. /\ TypeOK /\ TableOK /\ MaxIsHighest /\ LeakOnlyBeyondTable /\ c \in Held
        /\ file[Sfd] = Listener /\ Sfd \in Registered
    BY DEF IInv, TypeInv, LoopInv, BookInv, HearInv
  <2>2. elmax # -1
    BY <2>1 DEF MaxIsHighest, Sfd, TypeOK
  <2>3. \A fd \in Registered : fd \in Descriptors /\ interest[fd] # {}
    BY <2>1 DEF TableOK, Registered
  <2>4. ASSUME NEW fd \in Registered, Readable(fd)
        PROVE  \E e \in NextBatch : e.conn = file[fd]
    <3> DEFINE e == [fd |-> fd, mask |-> ReadyMask(fd), conn |-> file[fd]]
    <3>1. e \in ReadyEvents /\ e.fd = fd /\ e.conn = file[fd]
      BY <2>3, <2>4 DEF ReadyEvents
    <3>2. e \in NextBatch
      BY <2>2, <2>3, <3>1 DEF NextBatch
    <3> QED BY <3>1, <3>2
  <2>5. ASSUME NEW fd \in Descriptors, file[fd] = c
        PROVE  \E e \in NextBatch : e.conn = c
    <3>1. fd \in Connected /\ fd \in Registered
      BY <2>1, <2>5 DEF Connected, LeakOnlyBeyondTable
    <3>2. Readable(fd)
      BY <2>5 DEF Readable
    <3> QED BY <2>4, <2>5, <3>1, <3>2
  <2>6. ASSUME NEW i \in DOMAIN backlog, backlog[i] = c
        PROVE  \E e \in NextBatch : e.conn = Listener
    <3>1. Readable(Sfd)
      BY <2>1, <2>6 DEF Readable, TypeOK
    <3> QED BY <2>1, <2>4, <3>1
  <2> QED BY <2>1, <2>5, <2>6 DEF Held
<1> QED BY <1>1, Invariance, PTL

\* Events of different descriptors are finitely many.
LEMMA FewEvents ==
    ASSUME NEW S, \A e \in S : e.fd \in Descriptors, \A e, g \in S : e.fd = g.fd => e = g
    PROVE  IsFiniteSet(S) /\ Cardinality(S) \in Nat
<1> DEFINE f == [e \in S |-> e.fd]
<1>1. \A e, g \in S : f[e] = f[g] => e = g
  OBVIOUS
<1>2. f \in Injection(S, Descriptors)
  BY <1>1 DEF Injection, IsInjective
<1>3. IsFiniteSet(Descriptors)
  BY FS_Interval DEF Descriptors
<1>4. IsFiniteSet(S)
  BY <1>2, <1>3, FS_Injection
<1> QED BY <1>4, FS_CardinalityType

\* So a batch is finite, before a step and after it.
LEMMA BatchFinite ==
    ASSUME IInv, IInv'
    PROVE  /\ IsFiniteSet(active) /\ Cardinality(active) \in Nat
           /\ IsFiniteSet(active') /\ Cardinality(active') \in Nat
<1>1. TypeOK /\ EventsOK /\ TypeOK' /\ EventsOK'
  BY DEF IInv, TypeInv, LoopInv
<1>2. /\ \A e \in active : e.fd \in Descriptors
      /\ \A e \in active' : e.fd \in Descriptors
  BY <1>1 DEF TypeOK, Events
<1>3. /\ \A e, g \in active : e.fd = g.fd => e = g
      /\ \A e, g \in active' : e.fd = g.fd => e = g
  BY <1>1 DEF EventsOK, Pending
<1> QED BY <1>2, <1>3, FewEvents

\* How much work the thread's place stands for, before a step and after it.
LEMMA WorkIs ==
    ASSUME IInv, IInv'
    PROVE  /\ Work = 4 * Cardinality(active) + Steps[pc] /\ Work \in Nat
           /\ Work' = 4 * Cardinality(active') + Steps[pc'] /\ Work' \in Nat
<1>1. pc \in DOMAIN Steps /\ pc' \in DOMAIN Steps
  BY DEF IInv, TypeInv, TypeOK, Steps
<1>2. Steps[pc] \in Nat /\ Steps[pc'] \in Nat
  BY <1>1 DEF Steps
<1> QED BY <1>2, BatchFinite DEF Work

\* In a batch, each step of the thread leaves less work.
LEMMA ServerWorks ==
    ASSUME IInv, IInv', Work # 0, ServerStep
    PROVE  Work' < Work
<1> USE DEF loopVars, clientVars, cacheVars, dbVars, reqVars
<1>i. HearInv
  BY DEF IInv
<1>n. /\ IsFiniteSet(active) /\ Cardinality(active) \in Nat
      /\ Cardinality(active') \in Nat
  BY BatchFinite
<1>w. /\ Work = 4 * Cardinality(active) + Steps[pc] /\ Work \in Nat
      /\ Work' = 4 * Cardinality(active') + Steps[pc'] /\ Work' \in Nat
  BY WorkIs
<1>s. /\ Steps["fetch"] = 3 /\ Steps["persist"] = 2 /\ Steps["reply"] = 1
      /\ Steps["loop"] = 0 /\ Steps["load"] = 0 /\ Steps["down"] = 0
  BY DEF Steps
<1>0. Cardinality({}) = 0
  BY FS_EmptySet
<1>1. pc \notin {"down", "load"} /\ ~(pc = "loop" /\ active = {})
  <2>1. active # {} \/ pc \notin {"down", "load", "loop"}
    BY <1>0, <1>s, <1>w
  <2> QED BY <1>i, <2>1 DEF HearInv
<1>2. ASSUME NEW e \in active, Dispatch(e), pc' \in {"loop", "fetch", "reply"}
      PROVE  Work' < Work
  <2>1. Cardinality(active') = Cardinality(active) - 1 /\ pc = "loop"
    BY <1>2, <1>n, FS_RemoveElement DEF Dispatch
  <2> QED BY <1>2, <1>n, <1>s, <1>w, <2>1
<1>3. ASSUME NEW answer, Die(answer) PROVE Work' < Work
  <2>1. pc' = "down" /\ active' = {}
    BY <1>3 DEF Die, eloopCreate
  <2> QED BY <1>0, <1>s, <1>w, <2>1
<1>4. ASSUME NEW e \in active,
             \/ AcceptFails(e) \/ AcceptDrops(e)
             \/ \E fd \in Descriptors : serverAccept(e, fd) \/ serverAcceptLeaks(e, fd)
             \/ RequestMalformed(e) \/ RequestCached(e) \/ RequestUnknown(e)
      PROVE  Work' < Work
  <2>1. Dispatch(e) /\ pc' \in {"loop", "fetch", "reply"}
    BY <1>4 DEF AcceptFails, AcceptDrops, serverAccept, serverAcceptLeaks, RequestMalformed,
                RequestCached, RequestUnknown, CloseConnection, Dispatch
  <2> QED BY <1>2, <2>1
<1>5. ASSUME active' = active,
             \/ pc = "fetch" /\ pc' \in {"reply", "persist"}
             \/ pc = "persist" /\ pc' = "reply"
             \/ pc = "reply" /\ pc' = "loop"
      PROVE  Work' < Work
  BY <1>5, <1>n, <1>s, <1>w
<1>6. CASE FetchFails \/ FetchFinds \/ serverPesistToDb \/ Reply \/ ErrorTextLost
  BY <1>5, <1>6 DEF FetchFails, FetchFinds, serverPesistToDb, Reply, ErrorTextLost, CloseConnection
<1>7. CASE FetchFindsNothing \/ ReplyCutShort
  BY <1>3, <1>7 DEF FetchFindsNothing, ReplyCutShort
<1>8. CASE serverTransferToCache \/ serverInitDictionaryReturns \/ eloopProcessEvents
  BY <1>1, <1>8 DEF serverTransferToCache, serverInitDictionaryReturns, eloopProcessEvents,
                    eloopPoll
<1> QED BY <1>4, <1>6, <1>7, <1>8 DEF ServerStep

(***************************************************************************)
(* Every batch of events ends: whatever clients do, each step of the        *)
(* server's thread in a batch leaves fewer steps to its end, so the loop    *)
(* comes back to its epoll_wait, where WaitersHeard applies.                *)
(***************************************************************************)
THEOREM BatchesAreFinite == Spec => BatchesEnd
<1>1. IInv /\ IInv' /\ [Next]_vars =>
        [Work # 0 => Work' <= Work /\ (ServerStep => Work' < Work)]_vars
  <2> SUFFICES ASSUME IInv, IInv', Next, Work # 0
               PROVE  Work' <= Work /\ (ServerStep => Work' < Work)
    OBVIOUS
  <2>1. Work \in Nat /\ Work' \in Nat
    BY WorkIs
  <2>2. CASE ServerStep
    BY <2>1, <2>2, ServerWorks
  <2>3. ASSUME NEW c \in Clients,
               ClientConnect(c) \/ ClientWrite(c) \/ ClientRead(c) \/ ClientKilled(c)
        PROVE  Work' = Work
    <3>1. active' = active /\ pc' = pc
      BY <2>3 DEF ClientConnect, ClientWrite, ClientRead, ClientKilled, loopVars
    <3> QED BY <3>1 DEF Work
  <2>4. CASE serverInit
    <3>1. active = {} /\ pc = "down"
      BY <2>4 DEF serverInit, IInv, LoopInv, DownOK
    <3>2. Work = 0
      BY <3>1, FS_EmptySet DEF Work, Steps
    <3> QED BY <3>2
  <2>5. CASE Kill
    <3>1. active' = {} /\ pc' = "down"
      BY <2>5 DEF Kill, Die, eloopCreate
    <3>2. Work' = 0
      BY <3>1, FS_EmptySet DEF Work, Steps
    <3> QED BY <2>1, <3>2
  <2>6. CASE ~ServerStep
    <3>1. Work' <= Work
      BY <2>1, <2>3, <2>4, <2>5, <2>6 DEF Next
    <3> QED BY <2>6, <3>1
  <2> QED BY <2>2, <2>6
<1> QED BY <1>1, Invariance, PTL DEF Spec, BatchesEnd

(***************************************************************************)
(* Whatever the hash function, a definition given out has the hash of the   *)
(* word asked for, although the cached key points into a dead stack frame.  *)
(***************************************************************************)
THEOREM AnswersHashed == Spec => []AnswerHashMatches
<1>1. IInv => AnswerHashMatches
  BY DEF IInv, AnswerInv
<1> QED BY <1>1, Invariance, PTL

(***************************************************************************)
(* If no two words have the same hash, a client is given the definition of  *)
(* its own word.                                                            *)
(***************************************************************************)
THEOREM AnswersCorrect ==
    ASSUME \A v, w \in Words : Hash[v] = Hash[w] => v = w
    PROVE  Spec => []AnswerIsForTheWord
<1>1. IInv => AnswerIsForTheWord
  BY DEF IInv, AnswerInv, AnswerHashMatches, AnswerIsForTheWord
<1> QED BY <1>1, Invariance, PTL

(***************************************************************************)
(* With a database that does not fail, the cache holds every row once the   *)
(* rows are loaded, no word is inserted twice, and the site is asked only   *)
(* for words the database does not hold, across any number of crashes.      *)
(***************************************************************************)
THEOREM RowsInvariance ==
    ASSUME "db" \notin Faults
    PROVE  Spec => []RowsInv
<1>1. Init => RowsInv
  BY InitRows
<1>2. IInv /\ RowsInv /\ [Next]_vars => RowsInv'
  BY NextRows DEF IInv
<1> QED BY <1>1, <1>2, Invariance, PTL DEF Spec

\* Under the same assumption, once the rows are loaded the cache finds every word
\* the database holds.
THEOREM CacheComplete ==
    ASSUME "db" \notin Faults
    PROVE  Spec => []RowsAreCached
<1>1. RowsInv => RowsAreCached
  BY DEF RowsInv, RowsAreCached, Stored
<1> QED BY <1>1, RowsInvariance, PTL

\* Under the same assumption, no word is inserted into the database twice.
THEOREM RowsDistinct ==
    ASSUME "db" \notin Faults
    PROVE  Spec => []NoDuplicateRows
<1>1. RowsInv => NoDuplicateRows
  BY DEF RowsInv
<1> QED BY <1>1, RowsInvariance, PTL

\* Under the same assumption, a fetch never starts for a word that is stored.
THEOREM FetchesAreNeeded ==
    ASSUME "db" \notin Faults
    PROVE  Spec => FetchOnlyIfUnknown
<1>1. [Next]_vars => rows' = rows \/ pc' = "reply"
  BY DEF Next, ServerStep, vars, dbVars, loopVars, ClientConnect, ClientWrite, ClientRead,
         ClientKilled, serverInit, Kill, Die, serverTransferToCache,
         serverInitDictionaryReturns, eloopProcessEvents, AcceptFails, AcceptDrops,
         serverAccept,
         serverAcceptLeaks, RequestMalformed, RequestCached, RequestUnknown, FetchFails,
         FetchFinds, FetchFindsNothing, serverPesistToDb, Reply, ErrorTextLost, ReplyCutShort
<1>2. RowsInv' /\ pc' = "fetch" => req' \notin Stored'
  BY DEF RowsInv, Stored
<1>3. RowsInv' /\ [Next]_vars => [pc # "fetch" /\ pc' = "fetch" => req' \notin Stored]_vars
  BY <1>1, <1>2 DEF Stored
<1> QED BY <1>3, RowsInvariance, PTL DEF Spec, FetchOnlyIfUnknown

(***************************************************************************)
(* With a database that does not fail and no definition with an apostrophe, *)
(* a definition that was given out is in the database, across any number of *)
(* crashes between the fetch, the insert and the reply.                     *)
(***************************************************************************)
THEOREM AnswersDurable ==
    ASSUME "db" \notin Faults, Quoted = {}
    PROVE  Spec => []AnsweredIsDurable
<1>1. Init => DurableInv
  BY InitDurable
<1>2. IInv /\ DurableInv /\ [Next]_vars => DurableInv'
  BY NextDurable DEF IInv
<1>3. DurableInv => AnsweredIsDurable
  BY DEF DurableInv
<1> QED BY <1>1, <1>2, <1>3, Invariance, PTL DEF Spec

\* A nonempty set of natural numbers has a least element.
LEMMA Least ==
    ASSUME NEW S \in SUBSET Nat, S # {}
    PROVE  \E i \in S : \A j \in S : i <= j
<1>1. PICK i \in S : \A j \in S : ~(<<j, i>> \in OpToRel(<, Nat))
  BY WFMin, NatLessThanWellFounded
<1>2. ASSUME NEW j \in S PROVE i <= j
  <2>1. <<j, i>> \notin OpToRel(<, Nat)
    BY <1>1, Zenon
  <2>2. ~(j < i)
    BY <2>1 DEF OpToRel
  <2>3. i \in Nat /\ j \in Nat
    OBVIOUS
  <2> HIDE <1>1, <2>1
  <2> QED BY <2>2, <2>3
<1> QED BY <1>2

\* While the process lives, its cache forgets no word.
LEMMA CachedStays ==
    ASSUME TypeInv, [Next]_vars, pc # "down", pc' # "down", NEW v \in Words, Cached(v)
    PROVE  Cached(v)'
<1> USE DEF loopVars, clientVars, cacheVars, dbVars, reqVars
<1>t. TypeOK /\ ThreadOK
  BY DEF TypeInv
<1>1. CASE cache' = cache
  BY <1>1, CachedFrame
<1>2. CASE serverTransferToCache
  <2>1. rows[loaded + 1] \in Words
    BY <1>t, <1>2 DEF TypeOK, serverTransferToCache
  <2> QED BY <1>t, <1>2, <2>1, HmapAddCaches DEF serverTransferToCache
<1>3. CASE FetchFinds
  <2>1. req \in Words
    BY <1>t, <1>3 DEF ThreadOK, FetchFinds
  <2> QED BY <1>t, <1>3, <2>1, HmapAddCaches DEF FetchFinds
<1>4. ASSUME NEW answer PROVE ~Die(answer)
  BY DEF Die
<1> QED
  BY <1>1, <1>2, <1>3, <1>4
  DEF Next, ServerStep, vars, ClientConnect, ClientWrite, ClientRead, ClientKilled, serverInit,
      Kill, serverInitDictionaryReturns, eloopProcessEvents, AcceptFails, AcceptDrops,
         serverAccept,
      serverAcceptLeaks, RequestMalformed, RequestCached, RequestUnknown, FetchFails,
      FetchFindsNothing, serverPesistToDb, Reply, ErrorTextLost, ReplyCutShort

(***************************************************************************)
(* If no two words have the same hash, no step of a running server, the     *)
(* expansion that reverses every chain included, changes what the cache     *)
(* answers for a word.                                                      *)
(***************************************************************************)
THEOREM CacheIsStable ==
    ASSUME \A v, w \in Words : Hash[v] = Hash[w] => v = w
    PROVE  Spec => AnswersAreStable
<1>1. ASSUME IInv, IInv', [Next]_vars, pc # "down", pc' # "down",
             NEW w \in Words, NEW i \in DOMAIN cache, FirstMatch(w, i)
      PROVE  \E j \in DOMAIN cache' : FirstMatch(w, j)' /\ cache'[j].def = cache[i].def
  <2>1. TypeInv /\ TypeOK /\ AnswerInv /\ TypeOK' /\ AnswerInv'
    BY <1>1 DEF IInv, TypeInv
  <2>e. cache[i] \in Entries
    BY <1>1, <2>1 DEF TypeOK
  <2>2. cache[i].hash = Hash[w] /\ cache[i].def \in Words /\ cache[i].hash = Hash[cache[i].def]
    BY <1>1, <2>1, <2>e DEF FirstMatch, Matches, AnswerInv, Entries
  <2>3. cache[i].def = w
    BY <2>2
  <2>4. Matches(w)' # {}
    BY <1>1, <2>1, CachedStays DEF FirstMatch, Cached
  <2>5. Matches(w)' \in SUBSET Nat
    <3>1. cache' \in Seq(Entries)
      BY <2>1 DEF TypeOK
    <3>2. DOMAIN cache' = 1 .. Len(cache') /\ Len(cache') \in Nat
      BY <3>1
    <3>3. Matches(w)' \subseteq DOMAIN cache'
      BY Zenon DEF Matches
    <3>4. 1 .. Len(cache') \subseteq Nat
      BY <3>2
    <3> QED BY <3>2, <3>3, <3>4, Zenon
  <2>6. PICK j \in Matches(w)' : \A k \in Matches(w)' : j <= k
    BY <2>4, <2>5, Least
  <2>7. j \in DOMAIN cache' /\ FirstMatch(w, j)'
    BY <2>6 DEF FirstMatch, Matches
  <2>f. cache'[j] \in Entries
    BY <2>1, <2>7 DEF TypeOK
  <2>8. /\ cache'[j].hash = Hash[w] /\ cache'[j].def \in Words
        /\ cache'[j].hash = Hash[cache'[j].def]
    BY <2>1, <2>6, <2>7, <2>f DEF Matches, AnswerInv, Entries
  <2> QED BY <2>3, <2>7, <2>8
<1>2. IInv /\ IInv' /\ [Next]_vars =>
        [pc # "down" /\ pc' # "down" =>
            \A w \in Words : \A i \in DOMAIN cache : FirstMatch(w, i) =>
                \E j \in DOMAIN cache' : FirstMatch(w, j)' /\ cache'[j].def = cache[i].def]_vars
  BY <1>1
<1> QED BY <1>2, Invariance, PTL DEF Spec, AnswersAreStable

=============================================================================
