------------------------- MODULE LoopBackendsProofs -------------------------
(***************************************************************************)
(* The table of the event loop agrees with the kernel, over either back     *)
(* end, and callbacks run for the connection that was ready: for every size *)
(* of the table, every descriptor limit and every set of callbacks.         *)
(***************************************************************************)
EXTENDS LoopBackends, TLAPS

EventSet == [fd : Fds, mask : Masks, conn : Nat]

TypeInv ==
    /\ backend \in {"epoll", "kqueue"}
    /\ idle \in [Slots -> SUBSET Bits]
    /\ elmax \in Int
    /\ watched \in [Fds -> SUBSET Bits]
    /\ conn \in [Fds -> Nat] /\ opened \in Nat
    /\ active \subseteq EventSet
    /\ running \in {"setup", "loop", "READ", "WRITE"}

\* The events still to be dispatched are of connections that are open, but for those
\* whose descriptor has had one already; there are none of these over epoll.
EventsInv ==
    /\ running = "setup" => active = {}
    /\ running \in Bits => event.fd \in dispatched
    /\ \A e \in active : e.fd \notin dispatched => e.conn = conn[e.fd] /\ e.conn # 0
    /\ backend = "epoll" =>
          /\ \A e, f \in active : e.fd = f.fd => e = f
          /\ \A e \in active : e.fd \notin dispatched

LoopInv == TypeInv /\ TableIsSound /\ EventsInv

LEMMA LoopInit == Init => LoopInv
<1> SUFFICES ASSUME Init PROVE LoopInv
    OBVIOUS
<1>1. TypeInv
    BY DEF Init, TypeInv, EventSet
<1>2. TableIsSound
    BY LoopAssumption DEF Init, TableIsSound, Slots, Fds
<1>3. EventsInv
    BY DEF Init, EventsInv, Bits
<1> QED  BY <1>1, <1>2, <1>3 DEF LoopInv

-----------------------------------------------------------------------------
(* The calls. *)

LEMMA OpenKeeps ==
    ASSUME LoopInv, NEW fd \in Fds, Open(fd)
    PROVE  LoopInv'
<1> USE DEF LoopInv, Open, tableVars, batchVars
<1>1. opened' \in Nat \ {0} /\ conn' = [conn EXCEPT ![fd] = opened'] /\ conn' \in [Fds -> Nat]
    BY DEF TypeInv
<1>2. TypeInv'
    BY <1>1 DEF TypeInv
<1>3. TableIsSound'
    BY <1>1 DEF TypeInv, TableIsSound
<1>4. EventsInv'
    BY <1>1 DEF TypeInv, EventsInv, EventSet
<1> QED  BY <1>2, <1>3, <1>4

LEMMA CloseKeeps ==
    ASSUME LoopInv, NEW fd \in Fds, Close(fd)
    PROVE  LoopInv'
<1> USE DEF LoopInv, Close, batchVars
<1>1. TypeInv'
    BY DEF TypeInv
<1>2. TableIsSound'
    BY DEF TypeInv, TableIsSound
<1>3. \A e \in active : e.fd \notin dispatched => e.fd # fd
    BY DEF TypeInv, EventsInv, InProgram, Bits
<1>4. EventsInv'
    BY <1>3 DEF TypeInv, EventsInv, EventSet
<1> QED  BY <1>1, <1>2, <1>4

LEMMA AddKeeps ==
    ASSUME LoopInv, NEW fd \in Fds, NEW mask \in Masks \ {{}}, NEW f \in Callbacks,
           eloopAddEvent(fd, mask, f)
    PROVE  LoopInv'
<1> USE DEF LoopInv, eloopAddEvent, connVars, batchVars
<1>1. fd \in Slots /\ fd \in Nat /\ mask \in SUBSET Bits /\ mask # {}
    BY LoopAssumption DEF Fds, Slots, Masks
<1>2. /\ watched' \in [Fds -> SUBSET Bits]
      /\ \A d \in Fds : d # fd => watched'[d] = watched[d]
      /\ idle[fd] \union mask \subseteq watched'[fd]
      /\ fd \notin leftover' => watched'[fd] = idle[fd] \union mask
    <2>1. CASE backend = "epoll"
        BY <1>1, <2>1 DEF eloopStateAdd, TypeInv
    <2>2. CASE backend = "kqueue"
        BY <1>1, <2>2 DEF eloopStateAdd, TypeInv, TableIsSound
    <2> QED  BY <2>1, <2>2 DEF TypeInv
<1>3. \A d \in Fds : d # fd => (d \in leftover' <=> d \in leftover)
    OBVIOUS
<1>4. /\ idle' \in [Slots -> SUBSET Bits] /\ idle'[fd] = idle[fd] \union mask
      /\ \A s \in Slots : s # fd => idle'[s] = idle[s]
    BY <1>1 DEF TypeInv
<1>5. TypeInv'
    <2>1. elmax' \in Int
        BY <1>1 DEF TypeInv
    <2> QED  BY <1>2, <1>4, <2>1 DEF TypeInv
<1>6. TableIsSound'
    <2>1. ASSUME NEW d \in Fds
          PROVE  /\ d \in Slots => idle'[d] \subseteq watched'[d]
                 /\ watched'[d] # {} => conn'[d] # 0 /\ d \in Slots
                 /\ d \in Slots /\ d \notin leftover' => watched'[d] = idle'[d]
        <3>1. CASE d = fd
            BY <1>1, <1>2, <1>4, <3>1
        <3>2. CASE d # fd
            BY <1>2, <1>3, <1>4, <3>2 DEF TableIsSound
        <3> QED  BY <3>1, <3>2
    <2>2. ASSUME NEW s \in Slots, idle'[s] # {} PROVE s <= elmax'
        <3>1. s \in Int /\ elmax \in Int
            BY LoopAssumption DEF Slots, TypeInv
        <3>2. s = fd \/ s <= elmax
            BY <1>4, <2>2 DEF TableIsSound
        <3> QED  BY <1>1, <3>1, <3>2
    <2>3. elmax' # -1 => elmax' \in Slots /\ idle'[elmax'] # {}
        BY <1>1, <1>4 DEF TableIsSound
    <2> QED  BY <2>1, <2>2, <2>3 DEF TableIsSound
<1>7. EventsInv'
    BY DEF EventsInv
<1> QED  BY <1>5, <1>6, <1>7

LEMMA HalfKeeps ==
    ASSUME LoopInv, NEW fd \in Fds, eloopAddEventHalf(fd)
    PROVE  LoopInv'
<1> USE DEF LoopInv, eloopAddEventHalf, connVars, batchVars
<1>1. fd \in Slots
    BY LoopAssumption DEF Fds, Slots
<1>2. TypeInv'
    BY DEF TypeInv, Bits
<1>3. TableIsSound'
    BY <1>1 DEF TypeInv, TableIsSound
<1>4. EventsInv'
    BY DEF EventsInv
<1> QED  BY <1>2, <1>3, <1>4

LEMMA DeleteKeeps ==
    ASSUME LoopInv, NEW fd \in Fds, NEW mask \in Masks \ {{}}, eloopDeleteEvent(fd, mask)
    PROVE  LoopInv'
<1> USE DEF LoopInv, eloopDeleteEvent, connVars, batchVars
<1>1. fd \in Slots /\ fd \in Nat /\ watched[fd] # {} /\ conn[fd] # 0
    <2>1. fd \in Slots /\ fd \in Nat
        BY LoopAssumption DEF Fds, Slots
    <2> QED  BY <2>1 DEF TableIsSound
<1>2. /\ watched' \in [Fds -> SUBSET Bits]
      /\ \A d \in Fds : d # fd => watched'[d] = watched[d]
      /\ idle[fd] \ mask \subseteq watched'[fd]
      /\ fd \notin leftover' => watched'[fd] = idle[fd] \ mask
    <2>1. CASE backend = "epoll"
        BY <1>1, <2>1 DEF eloopStateDelete, TypeInv, TableIsSound
    <2>2. CASE backend = "kqueue"
        BY <1>1, <2>2 DEF eloopStateDelete, TypeInv, TableIsSound
    <2> QED  BY <2>1, <2>2 DEF TypeInv
<1>3. \A d \in Fds : d # fd => (d \in leftover' <=> d \in leftover)
    OBVIOUS
<1>4. /\ idle' \in [Slots -> SUBSET Bits] /\ idle'[fd] = idle[fd] \ mask
      /\ \A s \in Slots : s # fd => idle'[s] = idle[s]
    BY <1>1 DEF TypeInv
<1>5. elmax' \in Int /\ (\A s \in Slots : idle'[s] # {} => s <= elmax')
        /\ (elmax' # -1 => elmax' \in Slots /\ idle'[elmax'] # {})
    <2>1. CASE fd = elmax /\ idle[fd] \ mask = {}
        <3>1. PICK i \in -1 .. fd - 1 :
                  /\ i # -1 => idle[i] # {}
                  /\ \A j \in i + 1 .. fd - 1 : idle[j] = {}
                  /\ elmax' = i
            BY <2>1 DEF eloopDeleteMax
        <3>2. i \in Int /\ (i # -1 => i \in Slots /\ i # fd)
            BY <1>1, LoopAssumption, <3>1 DEF Slots
        <3>3. ASSUME NEW s \in Slots, idle'[s] # {} PROVE s <= elmax'
            <4>1. s # fd /\ idle[s] # {}
                BY <1>4, <2>1, <3>3
            <4>2. s <= fd
                BY <4>1, <2>1 DEF TableIsSound
            <4>3. s \in Int /\ s >= 0
                BY LoopAssumption DEF Slots
            <4>4. s \notin i + 1 .. fd - 1
                BY <3>1, <4>1
            <4> QED  BY <1>1, <3>1, <3>2, <4>1, <4>2, <4>3, <4>4
        <3> QED  BY <1>4, <3>1, <3>2, <3>3
    <2>2. CASE ~(fd = elmax /\ idle[fd] \ mask = {})
        <3>1. elmax' = elmax
            BY <2>2 DEF eloopDeleteMax
        <3>2. \A s \in Slots : idle'[s] # {} => idle[s] # {}
            BY <1>4
        <3>3. elmax # -1 => idle'[elmax] # {}
            BY <1>4, <2>2 DEF TableIsSound
        <3> QED  BY <3>1, <3>2, <3>3 DEF TypeInv, TableIsSound
    <2> QED  BY <2>1, <2>2
<1>6. TypeInv'
    BY <1>2, <1>4, <1>5 DEF TypeInv
<1>7. TableIsSound'
    <2>1. ASSUME NEW d \in Fds
          PROVE  /\ d \in Slots => idle'[d] \subseteq watched'[d]
                 /\ watched'[d] # {} => conn'[d] # 0 /\ d \in Slots
                 /\ d \in Slots /\ d \notin leftover' => watched'[d] = idle'[d]
        <3>1. CASE d = fd
            BY <1>1, <1>2, <1>4, <3>1
        <3>2. CASE d # fd
            BY <1>2, <1>3, <1>4, <3>2 DEF TableIsSound
        <3> QED  BY <3>1, <3>2
    <2> QED  BY <2>1, <1>5 DEF TableIsSound
<1>8. EventsInv'
    BY DEF EventsInv
<1> QED  BY <1>6, <1>7, <1>8

-----------------------------------------------------------------------------
(* The loop. *)

LEMMA PollKeeps ==
    ASSUME LoopInv, eloopPoll
    PROVE  LoopInv'
<1> USE DEF LoopInv, eloopPoll, tableVars, connVars
<1>1. PICK evs \in SUBSET {Event(fd, mask) : fd \in Fds, mask \in Masks} :
          Reported(evs) /\ active' = evs
    OBVIOUS
<1>2. \A e \in evs : e \in EventSet /\ e.conn = conn[e.fd]
    BY <1>1 DEF Event, EventSet, TypeInv
<1>3. TypeInv'
    BY <1>1, <1>2 DEF TypeInv
<1>4. TableIsSound'
    BY DEF TableIsSound
<1>5. EventsInv'
    <2>1. ASSUME NEW e \in evs PROVE e.conn # 0
        <3>1. e.fd \in Fds
            BY <1>2, <2>1 DEF EventSet
        <3>2. watched[e.fd] # {}
            <4>1. CASE backend = "epoll"
                BY <1>1, <4>1 DEF Reported
            <4>2. CASE backend # "epoll"
                <5>1. \A f \in evs : \E b \in watched[f.fd] : f = Event(f.fd, {b})
                    BY ONLY <1>1, <4>2 DEF Reported
                <5>2. \E b \in watched[e.fd] : e = Event(e.fd, {b})
                    BY ONLY <5>1, e \in evs
                <5> QED  BY ONLY <5>2
            <4> QED  BY <4>1, <4>2
        <3> QED  BY <1>2, <3>1, <3>2 DEF TableIsSound
    <2>2. backend = "epoll" => \A e, f \in evs : e.fd = f.fd => e = f
        BY <1>1 DEF Reported
    <2>3. running' = "loop" /\ "loop" \notin Bits /\ backend' = backend /\ conn' = conn
        BY DEF Bits
    <2> QED  BY <1>1, <1>2, <2>1, <2>2, <2>3 DEF EventsInv
<1> QED  BY <1>3, <1>4, <1>5

LEMMA DispatchKeeps ==
    ASSUME LoopInv, NEW e \in active, Dispatch(e)
    PROVE  LoopInv'
<1> USE DEF LoopInv, Dispatch, tableVars, connVars
<1>1. running' \in {"loop", "READ", "WRITE"}
    OBVIOUS
<1>2. TypeInv'
    BY <1>1 DEF TypeInv
<1>3. TableIsSound'
    BY DEF TableIsSound
<1>4. running' \in Bits => event' = e
    BY DEF Bits
<1>5. EventsInv'
    BY <1>1, <1>4 DEF EventsInv
<1> QED  BY <1>2, <1>3, <1>5

LEMMA ReturnKeeps ==
    ASSUME LoopInv, Return
    PROVE  LoopInv'
<1> USE DEF LoopInv, Return, tableVars, connVars
<1>1. running' \in {"loop", "WRITE"} /\ (running' = "WRITE" => running \in Bits /\ event' = event)
    BY DEF Bits
<1>2. TypeInv'
    BY <1>1 DEF TypeInv
<1>3. TableIsSound'
    BY DEF TableIsSound
<1>4. EventsInv'
    BY <1>1 DEF EventsInv, Bits
<1> QED  BY <1>2, <1>3, <1>4

LEMMA LoopStep == LoopInv /\ [Next]_backendVars => LoopInv'
<1> SUFFICES ASSUME LoopInv, [Next]_backendVars PROVE LoopInv'
    OBVIOUS
<1>1. ASSUME NEW fd \in Fds, Open(fd) PROVE LoopInv'
    BY <1>1, OpenKeeps
<1>2. ASSUME NEW fd \in Fds, Close(fd) PROVE LoopInv'
    BY <1>2, CloseKeeps
<1>3. ASSUME NEW fd \in Fds, eloopAddEventHalf(fd) PROVE LoopInv'
    BY <1>3, HalfKeeps
<1>4. ASSUME NEW fd \in Fds, NEW mask \in Masks \ {{}}, eloopDeleteEvent(fd, mask) PROVE LoopInv'
    BY <1>4, DeleteKeeps
<1>5. ASSUME NEW fd \in Fds, NEW mask \in Masks \ {{}}, NEW f \in Callbacks,
             eloopAddEvent(fd, mask, f)
      PROVE  LoopInv'
    BY <1>5, AddKeeps
<1>6. CASE eloopPoll
    BY <1>6, PollKeeps
<1>7. CASE Return
    BY <1>7, ReturnKeeps
<1>8. ASSUME NEW e \in active, Dispatch(e) PROVE LoopInv'
    BY <1>8, DispatchKeeps
<1>9. CASE UNCHANGED backendVars
    BY <1>9 DEF LoopInv, TypeInv, TableIsSound, EventsInv, backendVars, tableVars, connVars, batchVars
<1> QED  BY <1>1, <1>2, <1>3, <1>4, <1>5, <1>6, <1>7, <1>8, <1>9 DEF Next

\* The strengthened invariant holds in every reachable state: the types, the table,
\* and what the rest of a batch of events says about connections (eloop.c,
\* epoll_loop.c, kevent_loop.c).
THEOREM LoopInvariance == Spec => []LoopInv
<1> QED  BY LoopInit, LoopStep, PTL DEF Spec

\* eloopAddEvent and eloopDeleteEvent keep the loop's table, its maximum and the
\* kernel's side in agreement, over epoll and over kqueue.
THEOREM LoopTableSound == Spec => []TableIsSound
<1>1. LoopInv => TableIsSound
    BY DEF LoopInv
<1> QED  BY <1>1, LoopInvariance, PTL

\* eloopProcessEvents calls a callback for a connection that has been closed
\* meanwhile only in the two cases CallsAreCurrent names.
THEOREM LoopCallsCurrent == Spec => CallsAreCurrent
<1> DEFINE Current == \A b \in Bits : running' = b /\ running # b =>
                          \/ event'.conn = conn[event'.fd]
                          \/ b = "WRITE" /\ running = "READ"
                          \/ backend = "kqueue" /\ running = "loop" /\ event'.fd \in dispatched
<1>1. LoopInv /\ [Next]_backendVars => [Current]_backendVars
    <2> SUFFICES ASSUME LoopInv, Next, NEW b \in Bits, running' = b, running # b,
                        ~(b = "WRITE" /\ running = "READ"),
                        ~(backend = "kqueue" /\ running = "loop" /\ event'.fd \in dispatched)
                 PROVE  event'.conn = conn[event'.fd]
        OBVIOUS
    <2>1. b \in {"READ", "WRITE"} /\ backend \in {"epoll", "kqueue"}
        BY DEF Bits, LoopInv, TypeInv
    <2>2. \E e \in active : Dispatch(e)
        <3>1. ~Return
            BY <2>1 DEF Return
        <3>2. \A fd \in Fds : ~Open(fd) /\ ~Close(fd) /\ ~eloopAddEventHalf(fd)
            BY DEF Open, Close, eloopAddEventHalf
        <3>3. \A fd \in Fds, mask \in Masks \ {{}} :
                  ~eloopDeleteEvent(fd, mask) /\ \A f \in Callbacks : ~eloopAddEvent(fd, mask, f)
            BY DEF eloopDeleteEvent, eloopAddEvent
        <3>4. ~eloopPoll
            BY DEF eloopPoll
        <3> QED  BY <3>1, <3>2, <3>3, <3>4 DEF Next
    <2>3. PICK e \in active : Dispatch(e)
        BY <2>2
    <2>4. event' = e /\ running = "loop"
        BY <2>1, <2>3 DEF Dispatch
    <2>5. e.fd \notin dispatched
        BY <2>1, <2>4 DEF LoopInv, EventsInv
    <2> QED  BY <2>3, <2>4, <2>5 DEF LoopInv, EventsInv
<1> QED  BY <1>1, LoopInvariance, PTL DEF Spec, CallsAreCurrent

=============================================================================
