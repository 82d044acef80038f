---------------------------- MODULE LoopBackends ----------------------------
(***************************************************************************)
(* The event loop of eloop.c over either of its back ends, epoll_loop.c and *)
(* kevent_loop.c, with a program that uses all of it: both masks, any       *)
(* callbacks, deletion of one mask or both, with or without a close.        *)
(* EventLoop, under DictServer, is what the dictionary server uses of it.   *)
(*                                                                         *)
(* The program opens and closes connections, registers and deletes them,    *)
(* before the loop starts and then in its callbacks.  It deletes what it    *)
(* has registered before it closes it, and a callback closes only its own   *)
(* descriptor, as server.c does.                                            *)
(***************************************************************************)
EXTENDS Integers, FiniteSets

CONSTANTS
    Count,          \* eloop.count
    NoFile,         \* descriptors are 0 .. NoFile - 1
    Callbacks,      \* the functions that are registered
    Connections     \* bound: how many connections are opened

ASSUME LoopAssumption == Count \in Nat /\ NoFile \in Nat /\ Connections \in Nat

VARIABLES
    backend,        \* which of the two was compiled in
    idle,           \* eloop.idle[fd].mask
    cb,             \* eloop.idle[fd].read and .write
    elmax,          \* eloop.max
    watched,        \* the kernel's side: the masks it watches for
    conn,           \* the connection a descriptor stands for, 0 when it is closed
    opened,         \* how many there have been
    active,         \* eloop.active, from the event that comes next on
    event,          \* the event that is being dispatched
    dispatched,     \* history: the descriptors of the batch's events so far, this one's too
    running,        \* the callback that runs, "setup" before the loop, "loop" in it
    leftover        \* history: descriptors that may be watched for more than is wanted

tableVars == <<idle, cb, elmax, watched, leftover>>
connVars == <<conn, opened>>
batchVars == <<active, event, dispatched>>
backendVars == <<backend, tableVars, connVars, batchVars, running>>

Bits == {"READ", "WRITE"}
Masks == SUBSET Bits
Fds == 0 .. NoFile - 1
Slots == 0 .. Count - 1
NoEvent == [fd |-> -1, mask |-> {}, conn |-> 0]

Init ==
    /\ backend \in {"epoll", "kqueue"}
    /\ idle = [fd \in Slots |-> {}] /\ elmax = -1
    /\ cb \in [Slots -> [Bits -> Callbacks]]      \* malloc does not clear them
    /\ watched = [fd \in Fds |-> {}] /\ leftover = {}
    /\ conn = [fd \in Fds |-> 0] /\ opened = 0
    /\ active = {} /\ event = NoEvent /\ dispatched = {} /\ running = "setup"

-----------------------------------------------------------------------------
(* The calls the program makes. *)

InProgram == running # "loop"

\* The lowest free descriptor is taken.
Open(fd) ==
    /\ InProgram /\ opened < Connections
    /\ conn[fd] = 0 /\ \A low \in 0 .. fd - 1 : conn[low] # 0
    /\ opened' = opened + 1 /\ conn' = [conn EXCEPT ![fd] = opened']
    /\ UNCHANGED <<backend, tableVars, batchVars, running>>

Close(fd) ==
    /\ InProgram /\ conn[fd] # 0
    /\ fd \in Slots => idle[fd] = {}
    /\ running = "setup" \/ fd = event.fd
    /\ conn' = [conn EXCEPT ![fd] = 0]
    /\ watched' = [watched EXCEPT ![fd] = {}] /\ leftover' = leftover \ {fd}
    /\ UNCHANGED <<backend, idle, cb, elmax, opened, batchVars, running>>

\* Mutant: the mask that is wanted already is left out.
eloopStateAddMutant(fd, mask) ==
    IF backend = "epoll"
    THEN /\ idle[fd] = {} <=> watched[fd] = {}
         /\ watched' = [watched EXCEPT ![fd] = mask]
    ELSE watched' = [watched EXCEPT ![fd] = @ \union mask]

\* epoll_ctl is told to add the descriptor or to change it, by the loop's own table,
\* and refuses what does not fit; kqueue has a filter for each bit.
eloopStateAdd(fd, mask) ==
    IF backend = "epoll"
    THEN /\ idle[fd] = {} <=> watched[fd] = {}
         /\ watched' = [watched EXCEPT ![fd] = idle[fd] \union mask]
    ELSE watched' = [watched EXCEPT ![fd] = @ \union mask]

eloopAddEvent(fd, mask, f) ==
    /\ InProgram /\ conn[fd] # 0 /\ fd < Count
    /\ eloopStateAdd(fd, mask)
    /\ leftover' = IF backend = "epoll" THEN leftover \ {fd} ELSE leftover
    /\ idle' = [idle EXCEPT ![fd] = @ \union mask]
    /\ cb' = [cb EXCEPT ![fd] = [b \in Bits |-> IF b \in mask THEN f ELSE @[b]]]
    /\ elmax' = IF fd > elmax THEN fd ELSE elmax
    /\ UNCHANGED <<backend, connVars, batchVars, running>>

\* The filter for reading is added, the one for writing refused: EVT_ERR, and the
\* first filter stays.
eloopAddEventHalf(fd) ==
    /\ InProgram /\ conn[fd] # 0 /\ fd < Count
    /\ backend = "kqueue"
    /\ watched' = [watched EXCEPT ![fd] = @ \union {"READ"}]
    /\ leftover' = leftover \union {fd}
    /\ UNCHANGED <<backend, idle, cb, elmax, connVars, batchVars, running>>

\* With epoll the descriptor is added, with the mask it had, which is refused as long
\* as it is watched; kqueue deletes a filter for each bit.
eloopStateDelete(fd, mask) ==
    IF backend = "epoll"
    THEN watched' = IF watched[fd] = {} THEN [watched EXCEPT ![fd] = idle[fd]] ELSE watched
    ELSE watched' = [watched EXCEPT ![fd] = @ \ mask]

\* max, once the slot fd has the mask left: the scan goes down to a slot in use.
eloopDeleteMax(fd, left) ==
    IF fd = elmax /\ left = {}
    THEN \E i \in -1 .. fd - 1 :
            /\ i # -1 => idle[i] # {}
            /\ \A j \in i + 1 .. fd - 1 : idle[j] = {}
            /\ elmax' = i
    ELSE elmax' = elmax

eloopDeleteEvent(fd, mask) ==
    /\ InProgram /\ fd < Count /\ idle[fd] # {}
    /\ eloopStateDelete(fd, mask)
    /\ leftover' = IF backend = "epoll" THEN leftover \union {fd} ELSE leftover
    /\ idle' = [idle EXCEPT ![fd] = @ \ mask]
    /\ eloopDeleteMax(fd, idle[fd] \ mask)
    /\ UNCHANGED <<backend, cb, connVars, batchVars, running>>

-----------------------------------------------------------------------------
(* The loop. *)

Event(fd, mask) == [fd |-> fd, mask |-> mask, conn |-> conn[fd]]

\* Mutant: epoll, too, reports each bit by itself.
ReportedMutant(evs) ==
    \A e \in evs : \E b \in watched[e.fd] : e = Event(e.fd, {b})

\* What the kernel may report: one event for each descriptor, where an error or a hang
\* up counts as both bits; or one for each filter.
Reported(evs) ==
    IF backend = "epoll"
    THEN /\ \A e \in evs : /\ watched[e.fd] # {} /\ e.conn = conn[e.fd] /\ e.mask # {}
                           /\ e.mask \subseteq watched[e.fd] \/ e.mask = Bits
         /\ \A e, f \in evs : e.fd = f.fd => e = f
    ELSE \A e \in evs : \E b \in watched[e.fd] : e = Event(e.fd, {b})

eloopPoll ==
    /\ running = "loop" /\ active = {} /\ elmax # -1
    /\ \E evs \in SUBSET {Event(fd, mask) : fd \in Fds, mask \in Masks} :
          /\ evs # {} /\ Cardinality(evs) <= Count
          /\ Reported(evs) /\ active' = evs
    /\ dispatched' = {}
    /\ UNCHANGED <<backend, tableVars, connVars, event, running>>

Fires(bit, e) == bit \in idle[e.fd] \intersect e.mask

\* The next event: its read callback, else its write callback, else nothing.
Dispatch(e) ==
    /\ running = "loop" /\ e \in active
    /\ active' = active \ {e} /\ dispatched' = dispatched \union {e.fd}
    /\ running' = IF Fires("READ", e) THEN "READ"
                  ELSE IF Fires("WRITE", e) THEN "WRITE" ELSE "loop"
    /\ event' = IF running' = "loop" THEN NoEvent ELSE e
    /\ UNCHANGED <<backend, tableVars, connVars>>

\* A callback returns.  After the read callback the slot is looked at again; the
\* write callback runs unless it is the function that has just run.
Return ==
    /\ running # "loop"
    /\ running' = IF running = "READ" /\ Fires("WRITE", event)
                        /\ cb[event.fd]["READ"] # cb[event.fd]["WRITE"]
                  THEN "WRITE" ELSE "loop"
    /\ event' = IF running' = "loop" THEN NoEvent ELSE event
    /\ UNCHANGED <<backend, tableVars, connVars, active, dispatched>>

Next ==
    \/ \E fd \in Fds :
          \/ Open(fd) \/ Close(fd) \/ eloopAddEventHalf(fd)
          \/ \E mask \in Masks \ {{}} :
                \/ eloopDeleteEvent(fd, mask)
                \/ \E f \in Callbacks : eloopAddEvent(fd, mask, f)
    \/ eloopPoll \/ Return
    \/ \E e \in active : Dispatch(e)

Spec == Init /\ [][Next]_backendVars

-----------------------------------------------------------------------------
\* What is wanted is watched.  What is watched is open, and wanted but for what
\* was left over: by a deletion without a close, which epoll ignores, or by half a
\* failed addition to a kqueue.  max is the highest slot in use.
TableIsSound ==
    /\ \A fd \in Fds :
          /\ fd \in Slots => idle[fd] \subseteq watched[fd]
          /\ watched[fd] # {} => conn[fd] # 0 /\ fd \in Slots
          /\ fd \in Slots /\ fd \notin leftover => watched[fd] = idle[fd]
    /\ \A fd \in Slots : idle[fd] # {} => fd <= elmax
    /\ elmax # -1 => elmax \in Slots /\ idle[elmax] # {}

\* A callback is called for the connection that was ready.  The exceptions: a write
\* callback, after the read callback has put another connection in its place, and an
\* event of kqueue's whose descriptor has had an event in the same batch before it.
CallsAreCurrent ==
    [][\A b \in Bits : running' = b /\ running # b =>
          \/ event'.conn = conn[event'.fd]
          \/ b = "WRITE" /\ running = "READ"
          \/ backend = "kqueue" /\ running = "loop" /\ event'.fd \in dispatched]_backendVars

=============================================================================
