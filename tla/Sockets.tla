------------------------------- MODULE Sockets -------------------------------
(***************************************************************************)
(* How inet.c opens sockets, and how server.c raises the limit on them      *)
(* before it does: which calls are made, in which order, and what is left   *)
(* open when one of them fails.                                             *)
(***************************************************************************)
EXTENDS Integers, SequencesExt

CONSTANTS
    Highest,    \* the limit that is asked for first: 10024
    Decrement   \* how much less is asked for next: 12

ASSUME LimitAssumption == Highest \in Nat /\ Decrement \in Nat \ {0}

\* A call a function makes once socket(2), or accept(2), has succeeded, and what the
\* function gives back when it fails.
Call(name, givenBack) == [name |-> name, givenBack |-> givenBack]

\* inetCleanupAfterFailure
Both == {"socket", "addresses"}
Socket == {"socket"}

NonBlocking(flags, givenBack) ==
    IF flags = "nonblock" THEN <<Call("nonblock", givenBack)>> ELSE <<>>

\* Mutant: the socket is not closed when it cannot be bound.
inetCreateServerMutant(flags) ==
    <<Call("reuseaddr", Both), Call("bind", {"addresses"}), Call("listen", Both)>>
        \o NonBlocking(flags, Both)

inetCreateServer(flags) ==
    <<Call("reuseaddr", Both), Call("bind", Both), Call("listen", Both)>>
        \o NonBlocking(flags, Both)

inetConnect(flags) ==
    <<Call("connect", Both), Call("reuseaddr", Both)>> \o NonBlocking(flags, {})

inetCreateUnixServerSocket ==
    <<Call("unlink", Socket), Call("bind", Socket), Call("listen", Socket),
      Call("reuseaddr", Socket)>>

CallsOf == [fn \in {"inetCreateServerBlocking", "inetCreateServerNonBlocking", "inetConnect",
                    "inetConnectNonBlocking", "inetCreateUnixServerSocket",
                    "inetCreateUnixClientSocket", "inetAcceptBlocking", "inetAcceptNonBlocking"} |->
    CASE fn = "inetCreateServerBlocking" -> inetCreateServer("block")
      [] fn = "inetCreateServerNonBlocking" -> inetCreateServer("nonblock")
      [] fn = "inetConnect" -> inetConnect("block")
      [] fn = "inetConnectNonBlocking" -> inetConnect("nonblock")
      [] fn = "inetCreateUnixServerSocket" -> inetCreateUnixServerSocket
      [] fn = "inetCreateUnixClientSocket" -> <<Call("connect", Socket)>>
      [] fn = "inetAcceptBlocking" -> <<>>
      [] fn = "inetAcceptNonBlocking" -> NonBlocking("nonblock", Socket)]

\* What the functions that call getaddrinfo hold besides a socket.
Addresses(fn) ==
    IF fn \in {"inetCreateServerBlocking", "inetCreateServerNonBlocking",
               "inetConnect", "inetConnectNonBlocking"}
    THEN {"addresses"} ELSE {}

\* Whether fn gives a socket, and what is held when it has returned.  For each address
\* fails is the first of its calls to fail, "none" when all succeed.  An address for
\* which there is no socket is passed over; the first other one decides.
Opened(fn, fails) ==
    LET tried == SelectInSeq(fails, LAMBDA f : f # "socket") IN
    IF tried = 0 THEN [ok |-> FALSE, held |-> {}]
    ELSE LET failing == SelectInSeq(CallsOf[fn], LAMBDA c : c.name = fails[tried]) IN
         IF failing = 0 THEN [ok |-> TRUE, held |-> Socket]
         ELSE [ok |-> FALSE,
               held |-> (Socket \union Addresses(fn)) \ CallsOf[fn][failing].givenBack]

-----------------------------------------------------------------------------
\* Mutant: the limit is lowered once more than needed.
serverSetFileDescriptorLimitMutant(current, hard) ==
    LET try[t \in -Decrement .. Highest] ==
            IF t <= current \/ t <= hard THEN t - Decrement ELSE try[t - Decrement]
    IN [maxclients |-> try[Highest], limit |-> current]

\* setrlimit is refused above the hard limit, which no one but root may raise (hard is
\* then the kernel's own).  The loop's table gets maxclients slots.
serverSetFileDescriptorLimit(current, hard) ==
    LET try[t \in -Decrement .. Highest] ==
            IF t <= current \/ t <= hard THEN t ELSE try[t - Decrement]
        target == try[Highest]
    IN [maxclients |-> target, limit |-> IF target > current THEN target ELSE current]

=============================================================================
