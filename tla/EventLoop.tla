------------------------------ MODULE EventLoop ------------------------------
(***************************************************************************)
(* The event loop of eloop.c over the Linux back end epoll_loop.c: a table  *)
(* of wanted events per descriptor, the highest descriptor in use, the      *)
(* interest set the kernel keeps for the epoll descriptor, and the batch of *)
(* events the last epoll_wait returned.  The module is passive: its         *)
(* operators are the calls, and a module that EXTENDS it is the program     *)
(* that makes them.                                                         *)
(*                                                                         *)
(* A mask is the set of its bits: EVT_ADD (0) is {}, EVT_READ (1) is        *)
(* {"READ"}, EVT_WRITE (2) is {"WRITE"}.                                    *)
(***************************************************************************)
EXTENDS Integers, FiniteSets

CONSTANTS
    Count,      \* eloop.count: the slots eloopCreate allocates
    NoFile      \* RLIMIT_NOFILE: descriptors are 0 .. NoFile - 1

ASSUME SizesAssumption == Count \in Nat \ {0} /\ NoFile \in Nat \ {0}

VARIABLES
    idle,       \* eloop.idle[fd].mask, for the slots of the table
    elmax,      \* eloop.max
    interest,   \* the kernel's epoll interest set: fd -> mask, {} when absent
    active      \* eloop.active: reported events not yet dispatched

loopVars == <<idle, elmax, interest, active>>

Masks == SUBSET {"READ", "WRITE"}
Slots == 0 .. Count - 1
Descriptors == 0 .. NoFile - 1

NoSlots == [fd \in Slots |-> {}]
NoInterest == [fd \in Descriptors |-> {}]

(***************************************************************************)
(* epoll_ctl refuses EPOLL_CTL_ADD for a descriptor it watches and          *)
(* EPOLL_CTL_MOD for one it does not; eloopStateAdd chooses between the two *)
(* by the loop's own table.                                                 *)
(***************************************************************************)
eloopStateAddOk(fd) == (idle[fd] = {}) <=> (interest[fd] = {})

\* Mutant: the bound of the table off by one.
eloopAddEventOkMutant(fd) == fd < Count - 1 /\ eloopStateAddOk(fd)

eloopAddEventOk(fd) == fd < Count /\ eloopStateAddOk(fd)

\* Mutant: max kept as a number of slots, not as a descriptor.
eloopAddEventMutant(fd, mask) ==
    /\ eloopAddEventOk(fd)
    /\ idle' = [idle EXCEPT ![fd] = @ \union mask]
    /\ interest' = [interest EXCEPT ![fd] = idle[fd] \union mask]
    /\ elmax' = IF fd > elmax THEN fd + 1 ELSE elmax

\* The call that returns EVT_OK.
eloopAddEvent(fd, mask) ==
    /\ eloopAddEventOk(fd)
    /\ idle' = [idle EXCEPT ![fd] = @ \union mask]
    /\ interest' = [interest EXCEPT ![fd] = idle[fd] \union mask]
    /\ elmax' = IF fd > elmax THEN fd ELSE elmax

(***************************************************************************)
(* The kernel's set after eloopStateDelete.  The new mask is or-ed with the *)
(* old one and EPOLL_CTL_ADD is issued for it, which the kernel refuses for *)
(* a descriptor it still watches: nothing is removed.                       *)
(***************************************************************************)
eloopStateDelete(fd, mask) ==
    IF interest[fd] = {} THEN [interest EXCEPT ![fd] = idle[fd]] ELSE interest

\* close(2) takes the descriptor out of every interest set it is in.
KernelClose(set, fd) == [set EXCEPT ![fd] = {}]

\* The downward scan for the next used slot below fd stops at i (-1: none).
ScanStopsAt(fd, i) ==
    /\ i \in -1 .. fd - 1
    /\ i # -1 => idle'[i] # {}
    /\ \A j \in i + 1 .. fd - 1 : idle'[j] = {}

\* Mutant: the slot below the deleted one is taken to be used.
eloopDeleteMaxNoScan(fd) ==
    elmax' = IF fd = elmax /\ idle'[fd] = {} THEN fd - 1 ELSE elmax

\* Mutant: deleting the highest descriptor empties the loop.
eloopDeleteMaxEmpties(fd) ==
    elmax' = IF fd = elmax /\ idle'[fd] = {} THEN -1 ELSE elmax

eloopDeleteMax(fd) ==
    IF fd = elmax /\ idle'[fd] = {}
    THEN \E i \in -1 .. fd - 1 : ScanStopsAt(fd, i) /\ elmax' = i
    ELSE elmax' = elmax

\* Mutant: the slot's mask is intersected with the mask, not with its complement.
eloopDeleteEventAndCloseMutant(fd, mask) ==
    IF fd >= Count \/ idle[fd] = {}
    THEN /\ interest' = KernelClose(interest, fd)
         /\ UNCHANGED <<idle, elmax>>
    ELSE /\ idle' = [idle EXCEPT ![fd] = @ \intersect mask]
         /\ interest' = KernelClose(eloopStateDelete(fd, mask), fd)
         /\ eloopDeleteMax(fd)

\* eloopDeleteEvent followed by the close(fd) of its only caller.
eloopDeleteEventAndClose(fd, mask) ==
    IF fd >= Count \/ idle[fd] = {}
    THEN /\ interest' = KernelClose(interest, fd)
         /\ UNCHANGED <<idle, elmax>>
    ELSE /\ idle' = [idle EXCEPT ![fd] = @ \ mask]
         /\ interest' = KernelClose(eloopStateDelete(fd, mask), fd)
         /\ eloopDeleteMax(fd)

(***************************************************************************)
(* eloopProcessEvents up to its loop: nothing when no slot is used; else    *)
(* epoll_wait, with room for every slot, returns what is ready among the    *)
(* watched descriptors and blocks while that is nothing.                    *)
(***************************************************************************)
eloopPoll(ready) ==
    /\ elmax # -1
    /\ active = {}
    /\ active' = {e \in ready : interest[e.fd] # {}}
    /\ active' # {}

\* A reported event whose read callback eloopProcessEvents runs.
eloopFires(e) == e \in active /\ "READ" \in idle[e.fd] \intersect e.mask

\* The loop of a process that has just been created, or is not running.
eloopCreate ==
    /\ idle' = NoSlots
    /\ interest' = NoInterest
    /\ elmax' = -1
    /\ active' = {}

=============================================================================
