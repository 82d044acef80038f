-------------------------- MODULE DictServiceProofs --------------------------
(***************************************************************************)
(* DictServer implements DictService: every step of the clients, the server *)
(* and its database is a step of the service or changes nothing it has.     *)
(***************************************************************************)
EXTENDS DictServerProofs

USE SizesAssumption, WordsAssumption, ServerAssumption

Injective == \A v, w \in Words : Hash[v] = Hash[w] => v = w

Quiet == UNCHANGED <<sent, inbox, rows>>

Serves == [Service!Next]_(Service!serviceVars)

\* What a client may be given at its hang-up: the definition of its word, stored
\* by then; the error text, all, part or none of it, for a word that is not; end of
\* file for a message that is no request.
RightAnswer(c, answer) ==
    \/ answer = sent[c] /\ sent[c] \in Stored
    \/ answer \in {"notfound", "partial", "eof"} /\ sent[c] \in Words \ (Unparsable \union Stored)
    \/ answer = "eof" /\ sent[c] \in Unparsable

\* A step that touches no word sent, no answer and no row is none of the service.
LEMMA QuietServes == Quiet => Serves
BY DEF Serves, Quiet, Service!serviceVars, Stored

\* The service starts with nothing asked, answered or stored.
LEMMA InitService == Init => Service!Init
BY DEF Init, Service!Init, Stored

\* Hanging up on held clients without an answer is the service's HangUp.
LEMMA HangUpServes ==
    ASSUME TypeOK, ClientInv, NEW cs \in SUBSET Held, NEW answer, HangUp(cs, answer),
           rows' = rows,
           \/ answer = AllReset
           \/ \E d \in cs : /\ answer = [AllReset EXCEPT ![d] = "partial"]
                            /\ peer[d] = "open" => sent[d] \in Stored
    PROVE  Service!Next
<1> DEFINE gone == {c \in cs : peer[c] # "open"}
           broken == cs \ gone
<1>1. cs \subseteq Clients /\ broken \in SUBSET Clients /\ gone \in SUBSET (Clients \ broken)
  BY DEF Held
<1>2. \A c \in broken \union gone : inbox[c] = "none"
  BY DEF ClientInv
<1>3. sent' = [c \in Clients |-> IF c \in gone THEN NoWord ELSE sent[c]]
  BY DEF HangUp
<1>4. inbox' = [c \in Clients |-> IF c \in broken THEN answer[c] ELSE inbox[c]]
  BY DEF HangUp
<1>5. Stored' = Stored
  BY DEF Stored
<1> DEFINE told ==
             \/ inbox' = [c \in Clients |-> IF c \in broken THEN "reset" ELSE inbox[c]]
             \/ \E d \in broken :
                  /\ sent[d] \in Stored
                  /\ inbox' = [c \in Clients |-> IF c = d THEN "partial"
                                   ELSE IF c \in broken THEN "reset" ELSE inbox[c]]
<1>6. told
  <2>1. CASE answer = AllReset
    BY <1>1, <1>4, <2>1 DEF AllReset
  <2>2. ASSUME NEW d \in cs, answer = [AllReset EXCEPT ![d] = "partial"],
               peer[d] = "open" => sent[d] \in Stored
        PROVE  told
    <3>1. \A c \in Clients : answer[c] = IF c = d THEN "partial" ELSE "reset"
      BY <1>1, <2>2 DEF AllReset
    <3>2. CASE d \in broken
      BY <1>1, <1>4, <2>2, <3>1, <3>2
    <3>3. CASE d \notin broken
      BY <1>1, <1>4, <3>1, <3>3
    <3> QED BY <3>2, <3>3
  <2> QED BY <2>1, <2>2
<1> HIDE DEF gone, broken
<1>7. Service!HangUp(broken, gone)
  BY <1>2, <1>3, <1>5, <1>6 DEF Service!HangUp
<1> QED BY <1>1, <1>7 DEF Service!Next

\* The end of one connection gives its client a right answer, or finds it gone.
LEMMA CloseServes ==
    ASSUME TypeOK, ClientInv, NEW e \in Pending, e.fd \in Descriptors, NEW answer,
           file[e.fd] \in Clients, CloseConnection(e, answer), rows' = rows,
           peer[file[e.fd]] = "open" => RightAnswer(file[e.fd], answer)
    PROVE  Service!Next
<1> DEFINE c == file[e.fd]
           f == [d \in {c} |-> answer]
<1>1. HangUp({c}, f) /\ Stored' = Stored
  BY DEF CloseConnection, Stored
<1>2. c \in Clients /\ inbox[c] = "none"
  BY DEF ClientInv, Held
<1>f. f[c] = answer
  OBVIOUS
<1> HIDE DEF f, c
<1>3. CASE peer[c] = "open"
  <2>1. {d \in {c} : peer[d] # "open"} = {}
    BY <1>3
  <2>2. /\ inbox' = [d \in Clients |-> IF d \in {c} THEN f[d] ELSE inbox[d]]
        /\ sent' = [d \in Clients |-> sent[d]]
    BY <1>1, <2>1 DEF HangUp
  <2>3. inbox' = [inbox EXCEPT ![c] = answer] /\ sent' = sent
    BY <1>2, <1>f, <2>2 DEF TypeOK
  <2>4. Service!Give(c, answer)
    BY <1>1, <1>2, <2>3 DEF Service!Give
  <2>5. RightAnswer(c, answer)
    BY <1>3 DEF c
  <2>6. Service!Define(c) \/ Service!NotFound(c) \/ Service!Refuse(c)
    BY <2>4, <2>5 DEF RightAnswer, Service!Define, Service!NotFound, Service!Refuse
  <2> QED BY <1>2, <2>6 DEF Service!Next
<1>4. CASE peer[c] # "open"
  <2>1. {d \in {c} : peer[d] # "open"} = {c}
    BY <1>4
  <2>2. /\ inbox' = [d \in Clients |-> inbox[d]]
        /\ sent' = [d \in Clients |-> IF d \in {c} THEN NoWord ELSE sent[d]]
    BY <1>1, <2>1 DEF HangUp
  <2>3. inbox' = inbox
    BY <2>2 DEF TypeOK
  <2>4. Service!HangUp({}, {c})
    BY <1>1, <1>2, <2>2, <2>3 DEF Service!HangUp, TypeOK
  <2> QED BY <1>2, <2>4 DEF Service!Next
<1> QED BY <1>3, <1>4

\* Every step of the clients and of the server is one of the service, or of none
\* of its variables.
LEMMA NextServes ==
    ASSUME Injective, "db" \notin Faults, Quoted = {},
           IInv, DataInv, [Next]_vars
    PROVE  Serves
<1> USE DEF loopVars, clientVars, cacheVars, dbVars, reqVars
<1>t. TypeInv /\ TypeOK /\ ThreadOK /\ LoopInv /\ EventsOK /\ ClientInv /\ AnswerInv
  BY DEF IInv, TypeInv, LoopInv
<1>d. RowsInv /\ DurableInv /\ ToldInv
  BY DEF DataInv
<1>1. CASE Quiet
  BY <1>1, QuietServes
<1>2. ASSUME NEW c \in Clients, ClientWrite(c) PROVE Serves
  <2>1. Service!Ask(c)
    BY <1>2 DEF ClientWrite, Service!Ask, Stored
  <2> QED BY <2>1 DEF Service!Next, Serves
<1>3. ASSUME NEW c \in Clients, ClientRead(c) PROVE Serves
  <2>1. Service!Done(c)
    BY <1>3 DEF ClientRead, Service!Done, Stored
  <2> QED BY <2>1 DEF Service!Next, Serves
<1>4. CASE Kill \/ FetchFindsNothing
  <2>1. HangUp(Held, AllReset) /\ rows' = rows
    BY <1>4 DEF Kill, FetchFindsNothing, Die
  <2> QED BY <1>t, <2>1, HangUpServes DEF Serves
<1>5. ASSUME NEW e \in active, AcceptDrops(e) PROVE Serves
  <2>1. backlog # <<>> /\ HangUp({Head(backlog)}, AllReset) /\ rows' = rows
    BY <1>5 DEF AcceptDrops
  <2>2. Head(backlog) \in Held
    BY <1>t, <2>1 DEF TypeOK, Held
  <2> QED BY <1>t, <2>1, <2>2, HangUpServes DEF Serves
<1>6. ASSUME NEW e \in active, RequestMalformed(e) PROVE Serves
  <2>1. /\ CloseConnection(e, "eof") /\ rows' = rows /\ e \in Pending
        /\ file[e.fd] # Listener /\ Request(file[e.fd]) = NoWord
    BY <1>6 DEF RequestMalformed, Pending
  <2>2. e.fd \in Descriptors /\ file[e.fd] \in Clients /\ file[e.fd] = e.conn
    BY <1>t, <2>1, PendingHeld DEF EventsOK
  <2>3. peer[file[e.fd]] = "open" => sent[file[e.fd]] # NoWord
    BY <1>t, <2>1, <2>2 DEF ClientInv
  <2>4. peer[file[e.fd]] = "open" => sent[file[e.fd]] \in Unparsable
    BY <1>t, <2>1, <2>2, <2>3 DEF Request
  <2> QED BY <1>t, <2>1, <2>2, <2>4, CloseServes DEF RightAnswer, Serves
<1>7. CASE serverPesistToDb
  <2>1. /\ rows' = Append(rows, req) /\ UNCHANGED <<sent, inbox>> /\ pc = "persist"
    BY <1>7 DEF serverPesistToDb, dbExecMayFail
  <2>2. req \in Words /\ req \notin Stored /\ sent[cur.conn] = req /\ cur.conn \in Clients
    BY <1>t, <1>d, <2>1 DEF ThreadOK, RowsInv, ClientInv, EventsOK, Serving
  <2>3. Stored' = Stored \union {req}
    <3>1. rows \in Seq(Words)
      BY <1>t DEF TypeOK
    <3>2. /\ DOMAIN rows' = 1 .. Len(rows) + 1 /\ rows'[Len(rows) + 1] = req
          /\ DOMAIN rows = 1 .. Len(rows) /\ \A i \in DOMAIN rows : rows'[i] = rows[i]
          /\ DOMAIN rows' = DOMAIN rows \union {Len(rows) + 1}
      BY <2>1, <2>2, <3>1
    <3> QED BY <3>2 DEF Stored
  <2>4. req \in Defined
    BY <1>d, <2>1 DEF ToldInv
  <2>5. Service!Learn(req)
    BY <2>1, <2>2, <2>3 DEF Service!Learn
  <2> QED BY <2>4, <2>5 DEF Service!Next, Serves
<1>8. ASSUME pc = "reply"
      PROVE  /\ cur \in Pending /\ cur.fd \in Descriptors /\ file[cur.fd] \in Clients
             /\ file[cur.fd] = cur.conn /\ sent[cur.conn] = req /\ req \in Words
             /\ resp \in Words => resp = req /\ req \in Stored
             /\ resp \notin Words => resp = "notfound" /\ req \notin Stored
  <2>1. /\ cur \in Pending /\ cur.conn \in Clients /\ sent[cur.conn] = req
        /\ req \in Words /\ resp \in Words \union {"notfound"}
    BY <1>t, <1>8 DEF TypeOK, ThreadOK, EventsOK, ClientInv, Pending, Serving
  <2>2. cur.fd \in Descriptors /\ file[cur.fd] = cur.conn
    BY <1>t, <2>1, PendingHeld
  <2>3. resp \in Words => resp = req /\ resp \in Stored
    BY <1>t, <1>d, <1>8, <2>1 DEF AnswerInv, DurableInv, Injective
  <2>4. resp = "notfound" => req \notin Stored
    BY <1>d, <1>8 DEF ToldInv
  <2> QED BY <2>1, <2>2, <2>3, <2>4
<1>9. CASE Reply \/ ErrorTextLost
  <2>1. pc = "reply" /\ rows' = rows
    BY <1>t, <1>9, ReplyCloses
  <2>2. PICK answer \in Words \union {"notfound", "eof", "partial"} :
          /\ CloseConnection(cur, answer)
          /\ answer = resp \/ (resp = "notfound" /\ answer \in {"eof", "partial"})
    BY <1>t, <1>9, ReplyCloses
  <2>3. req \notin Unparsable
    BY <1>d, <2>1 DEF ToldInv, Serving
  <2>4. RightAnswer(cur.conn, answer)
    BY <1>8, <2>1, <2>2, <2>3 DEF RightAnswer
  <2> QED BY <1>t, <1>8, <2>1, <2>2, <2>4, CloseServes DEF Serves
<1>10. CASE ReplyCutShort
  <2>1. /\ pc = "reply" /\ HangUp(Held, [AllReset EXCEPT ![file[cur.fd]] = "partial"])
        /\ rows' = rows /\ (peer[file[cur.fd]] = "rst" \/ resp \in Words)
    BY <1>10 DEF ReplyCutShort, Die
  <2>2. file[cur.fd] \in Held /\ (peer[file[cur.fd]] = "open" => sent[file[cur.fd]] \in Stored)
    BY <1>8, <2>1 DEF Held
  <2> QED BY <1>t, <2>1, <2>2, HangUpServes DEF Serves
<1>11. ASSUME NEW e \in active,
              \/ AcceptFails(e) \/ RequestCached(e) \/ RequestUnknown(e)
              \/ \E fd \in Descriptors : serverAccept(e, fd) \/ serverAcceptLeaks(e, fd)
       PROVE  Serves
  <2>1. Quiet
    BY <1>11 DEF AcceptFails, serverAccept, serverAcceptLeaks, RequestCached, RequestUnknown, Quiet
  <2> QED BY <1>1, <2>1
<1>12. CASE \/ serverInit \/ serverTransferToCache \/ serverInitDictionaryReturns
            \/ eloopProcessEvents \/ FetchFails \/ FetchFinds \/ UNCHANGED vars
  BY <1>1, <1>12 DEF serverInit, serverTransferToCache, serverInitDictionaryReturns,
     eloopProcessEvents, FetchFails, FetchFinds, vars, Quiet
<1>13. ASSUME NEW c \in Clients, ClientConnect(c) \/ ClientKilled(c)
       PROVE  Serves
  <2>1. Quiet
    BY <1>13 DEF ClientConnect, ClientKilled, Quiet
  <2> QED BY <1>1, <2>1
<1> QED BY <1>2, <1>3, <1>4, <1>5, <1>6, <1>7, <1>9, <1>10, <1>11, <1>12, <1>13
        DEF Next, ServerStep

\* Nothing the client is told is stored, served or learned at the start.
LEMMA InitTold == Init => ToldInv
BY DEF Init, ToldInv, Serving

(***************************************************************************)
(* With a database that does not fail and no definition with an apostrophe, *)
(* through any crash: no word has two rows, what is cached is stored except *)
(* the word about to be inserted, what a client was answered is stored, and *)
(* a word is reported as not found only while it is not stored.             *)
(***************************************************************************)
THEOREM DataInvariance ==
    ASSUME "db" \notin Faults, Quoted = {}
    PROVE  Spec => []DataInv
<1>1. Init => DurableInv /\ ToldInv
  BY InitDurable, InitTold
<1>2. IInv /\ DurableInv /\ [Next]_vars => DurableInv'
  BY NextDurable DEF IInv
<1>3. IInv /\ RowsInv /\ ToldInv /\ [Next]_vars => ToldInv'
  BY NextTold DEF IInv
<1>4. RowsInv /\ DurableInv /\ ToldInv <=> DataInv
  BY DEF DataInv
<1> QED BY <1>1, <1>2, <1>3, <1>4, Invariance, RowsInvariance, PTL DEF Spec

(***************************************************************************)
(* With an injective hash, a database that does not fail and no definition  *)
(* with an apostrophe, the daemon implements the service, whatever else     *)
(* fails and however often it is killed: each client gets the definition of *)
(* its word, which is stored by then, the error text or what is left of it  *)
(* only for a word that is not, end of file otherwise only for no request,  *)
(* and each word is learned once.                                           *)
(***************************************************************************)
THEOREM ServiceImplemented ==
    ASSUME Injective, "db" \notin Faults, Quoted = {}
    PROVE  Spec => ImplementsDictService
<1>1. Init => Service!Init /\ ToldInv
  BY InitService, InitTold
<1>2. IInv /\ RowsInv /\ ToldInv /\ [Next]_vars => ToldInv'
  BY NextTold DEF IInv
<1>3. IInv /\ RowsInv /\ DurableInv /\ ToldInv /\ [Next]_vars
        => [Service!Next]_(Service!serviceVars)
  BY NextServes DEF DataInv, Serves
<1>4. Init => DurableInv
  BY InitDurable
<1>5. IInv /\ DurableInv /\ [Next]_vars => DurableInv'
  BY NextDurable DEF IInv
<1> QED BY <1>1, <1>2, <1>3, <1>4, <1>5, Invariance, RowsInvariance, PTL
        DEF Spec, ImplementsDictService, Service!Spec

\* The service gives the error text, or end of file, only for what is no request
\* or not stored.
LEMMA ServiceDeniesNothingStored ==
    ASSUME IInv, Service!Next, NEW c \in Clients, inbox[c] = "none",
           inbox'[c] \in {"notfound", "eof"}
    PROVE  sent[c] \in Unparsable \/ sent[c] \notin Stored
<1>1. inbox \in [Clients -> Answers] /\ Stored \subseteq Words
  BY DEF IInv, TypeInv, TypeOK, Stored
<1>2. ASSUME NEW d \in Clients, NEW what, Service!Give(d, what)
      PROVE  c = d /\ what = inbox'[c]
  <2>1. inbox' = [inbox EXCEPT ![d] = what]
    BY <1>2 DEF Service!Give
  <2> QED BY <1>1, <2>1
<1>3. ASSUME NEW d \in Clients, Service!Define(d) PROVE FALSE
  BY <1>1, <1>2, <1>3 DEF Service!Define
<1>4. ASSUME NEW d \in Clients, Service!NotFound(d) PROVE sent[c] \notin Stored
  BY <1>2, <1>4 DEF Service!NotFound
<1>5. ASSUME NEW d \in Clients, Service!Refuse(d) PROVE sent[c] \in Unparsable
  BY <1>2, <1>5 DEF Service!Refuse
<1>6. ASSUME NEW d \in Clients, Service!Ask(d) \/ Service!Done(d) PROVE FALSE
  BY <1>1, <1>6 DEF Service!Ask, Service!Done
<1>7. ASSUME NEW w \in Defined, Service!Learn(w) PROVE FALSE
  BY <1>7 DEF Service!Learn
<1>8. ASSUME NEW broken \in SUBSET Clients, NEW gone, Service!HangUp(broken, gone) PROVE FALSE
  BY <1>8 DEF Service!HangUp
<1> QED BY <1>3, <1>4, <1>5, <1>6, <1>7, <1>8 DEF Service!Next

(***************************************************************************)
(* Under the assumptions of ServiceImplemented, a client whose word is      *)
(* stored is neither told that it was not found nor hung up on without an   *)
(* answer, through every expansion of the cache and every restart.          *)
(***************************************************************************)
THEOREM StoredWordsAnswered ==
    ASSUME Injective, "db" \notin Faults, Quoted = {}
    PROVE  Spec => StoredIsNotDenied
<1>1. IInv /\ DataInv /\ [Next]_vars =>
        [\A c \in Clients : inbox[c] = "none" /\ inbox'[c] \in {"notfound", "eof"} =>
            sent[c] \in Unparsable \/ sent[c] \notin Stored]_vars
  <2> SUFFICES ASSUME IInv, DataInv, Next, NEW c \in Clients, inbox[c] = "none",
                      inbox'[c] \in {"notfound", "eof"}
               PROVE  sent[c] \in Unparsable \/ sent[c] \notin Stored
    OBVIOUS
  <2>1. Service!Next
    BY NextServes DEF Serves, Service!serviceVars
  <2> QED BY <2>1, ServiceDeniesNothingStored
<1> QED BY <1>1, Invariance, DataInvariance, PTL DEF Spec, StoredIsNotDenied

=============================================================================
