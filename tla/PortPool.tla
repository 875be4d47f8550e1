------------------------------ MODULE PortPool ------------------------------
(***************************************************************************)
(* The pool of passive ports of a Server (ftp/server.go: choosePassivePort *)
(* and releasePassivePort) and its users: every call of                    *)
(* newPassiveDataTransfer (ftp/transfer.go) chooses a port, listens on it  *)
(* and leaves a listen goroutine behind that releases the port at its end. *)
(*                                                                         *)
(* The pool is a permutation "ports" of the range whose first              *)
(* "numEmptyPorts" entries are free, with its inverted index "idxPorts".   *)
(* Both functions run under Server.mu from end to end, so each is one      *)
(* step; the system calls between them are steps of their own.             *)
(***************************************************************************)
EXTENDS Integers, FiniteSets

CONSTANTS MinPassivePort,   \* Server.MinPassivePort
          MaxPassivePort,   \* Server.MaxPassivePort
          Transfers,        \* calls of newPassiveDataTransfer that overlap
          ForeignPorts,     \* ports that other processes bind and unbind
          MaxRetries        \* the bound of newPassiveDataTransfer's loop: 5

ASSUME PortPoolAssumption ==
    /\ MinPassivePort \in Int
    /\ MaxPassivePort \in Nat
    /\ ForeignPorts \subseteq Nat
    /\ MaxRetries \in Nat

\* The range choosePassivePort works with, after its two clamps.
LoOffByOne == MinPassivePort - 1    \* faulty
Lo == IF MinPassivePort < 0 THEN 0 ELSE MinPassivePort
Hi == IF MaxPassivePort > 65535 THEN 65535 ELSE MaxPassivePort
PortRange == Lo .. Hi
Idx   == 0 .. (Hi - Lo)

Nil == << >>                \* a slice that was not made yet

VARIABLES
    ports,          \* Server.ports, 0-based
    idxPorts,       \* Server.idxPorts, 0-based
    numEmptyPorts,  \* Server.numEmptyPorts
    pc,             \* where each transfer is
    port,           \* the variable "port" of each transfer
    tries,          \* the loop counter "i" of each transfer
    err,            \* the error its last call returned, or "nil"
    foreign         \* ports some other process is bound to now

poolVars == << ports, idxPorts, numEmptyPorts >>
callVars == << pc, port, tries, err >>
vars     == << poolVars, callVars, foreign >>

-----------------------------------------------------------------------------
Errors == {"nil", "disabled", "notFound", "listen"}
States == {"idle", "choose", "chosen", "listening", "closed", "panic"}

\* The states in which a transfer has a port it must give back.
Holding(t)   == pc[t] \in {"chosen", "listening", "closed"}
Listening(t) == pc[t] = "listening"

Bound == foreign \union {port[t] : t \in {u \in Transfers : Listening(u)}}

Init ==
    /\ ports = Nil /\ idxPorts = Nil /\ numEmptyPorts = 0
    /\ pc    = [t \in Transfers |-> "idle"]
    /\ port  = [t \in Transfers |-> 0]
    /\ tries = [t \in Transfers |-> 0]
    /\ err   = [t \in Transfers |-> "nil"]
    /\ foreign = {}

Goto(t, s) == pc' = [pc EXCEPT ![t] = s]
Return(t, e) == Goto(t, "idle") /\ err' = [err EXCEPT ![t] = e]

-----------------------------------------------------------------------------
(* newPassiveDataTransfer *)

\* PASV or EPSV enters newPassiveDataTransfer.
Call(t) ==
    /\ pc[t] = "idle"
    /\ Goto(t, "choose")
    /\ tries' = [tries EXCEPT ![t] = 0]
    /\ err'   = [err EXCEPT ![t] = "nil"]
    /\ UNCHANGED << poolVars, port, foreign >>

\* choosePassivePort makes the slices the first time it is called.
Made      == ports # Nil
Ports0    == IF Made THEN ports    ELSE [i \in Idx |-> i + Lo]
IdxPorts0 == IF Made THEN idxPorts ELSE [i \in Idx |-> i]
NumEmpty0 == IF Made THEN numEmptyPorts ELSE Hi - Lo + 1

\* The index after the ports at i and last were swapped.
ReindexOne(i, last) == [IdxPorts0 EXCEPT ![Ports0[i] - Lo] = last]  \* faulty: half done

Reindex(i, last) ==
    [IdxPorts0 EXCEPT ![Ports0[i] - Lo] = last, ![Ports0[last] - Lo] = i]

\* Faulty variant of Take: the port stays in the free part.
TakeWithoutCount(i) ==
    ports' = Ports0 /\ idxPorts' = IdxPorts0 /\ numEmptyPorts' = NumEmpty0

\* Take the port at index i: swap it with the last free one.
Take(i) ==
    LET last == NumEmpty0 - 1
    IN  /\ numEmptyPorts' = last
        /\ ports' = [Ports0 EXCEPT ![i] = Ports0[last], ![last] = Ports0[i]]
        /\ idxPorts' = Reindex(i, last)

ChooseFails == \/ MinPassivePort > MaxPassivePort
               \/ MaxPassivePort # 0 /\ NumEmpty0 = 0

choosePassivePort(t) ==
    /\ pc[t] = "choose"
    /\ \/ /\ ChooseFails
          /\ Return(t, IF MinPassivePort > MaxPassivePort THEN "disabled" ELSE "notFound")
          /\ UNCHANGED << poolVars, port >>
       \/ /\ ~ChooseFails
          /\ MaxPassivePort = 0
          /\ port' = [port EXCEPT ![t] = 0]
          /\ Goto(t, "chosen")
          /\ UNCHANGED << poolVars, err >>
       \/ /\ ~ChooseFails
          /\ MaxPassivePort # 0
          /\ \E i \in 0 .. (NumEmpty0 - 1) :
                /\ Take(i)
                /\ port' = [port EXCEPT ![t] = Ports0[i]]
          /\ Goto(t, "chosen")
          /\ UNCHANGED err
    /\ UNCHANGED << tries, foreign >>

\* net.Listen succeeds: port 0 asks the system for any port.
Listen(t) ==
    /\ pc[t] = "chosen"
    /\ port[t] = 0 \/ port[t] \notin Bound
    /\ Goto(t, "listening")
    /\ UNCHANGED << poolVars, port, tries, err, foreign >>

\* The loop ends when i >= 5.
LastTryLate(t) == tries[t] > MaxRetries     \* faulty: one try too many
LastTry(t)     == tries[t] >= MaxRetries

\* net.Listen fails, on a port that is bound or for any other reason (no more
\* descriptors, no right to this port): try another port, and forget the one
\* that was chosen.
ListenFails(t) ==
    /\ pc[t] = "chosen"
    /\ IF LastTry(t)
         THEN Return(t, "listen") /\ UNCHANGED tries
         ELSE /\ Goto(t, "choose")
              /\ tries' = [tries EXCEPT ![t] = @ + 1]
              /\ UNCHANGED err
    /\ UNCHANGED << poolVars, port, foreign >>

-----------------------------------------------------------------------------
(* The end of the listen goroutine: its deferred calls, in their order *)

CloseListener(t) ==
    /\ pc[t] = "listening"
    /\ Goto(t, "closed")
    /\ UNCHANGED << poolVars, port, tries, err, foreign >>

\* Faulty variant of GiveBack: the count grows, the port stays where it was.
GiveBackCountOnly(p) ==
    /\ p \in PortRange
    /\ numEmptyPorts' = numEmptyPorts + 1
    /\ UNCHANGED << ports, idxPorts >>

\* The free part of the pool, which only the first numEmptyPorts entries are.
Free == IF Made THEN {ports[i] : i \in 0 .. (numEmptyPorts - 1)} ELSE PortRange

\* Put back port p, which is the slice index p - MinPassivePort here: no clamp.
GiveBack(p) ==
    LET i1 == idxPorts[p - MinPassivePort]
        i2 == numEmptyPorts
        j1 == p - MinPassivePort
        j2 == ports[i2] - MinPassivePort
    IN  /\ idxPorts' = [idxPorts EXCEPT ![j1] = idxPorts[j2], ![j2] = idxPorts[j1]]
        /\ ports' = [ports EXCEPT ![i1] = ports[i2], ![i2] = ports[i1]]
        /\ numEmptyPorts' = numEmptyPorts + 1

\* The slice accesses of releasePassivePort stay within the slices.
InBounds(p) ==
    /\ p \in MinPassivePort .. MaxPassivePort
    /\ p - MinPassivePort \in DOMAIN idxPorts
    /\ numEmptyPorts \in DOMAIN ports
    /\ ports[numEmptyPorts] - MinPassivePort \in DOMAIN idxPorts

\* Faulty variant: the deferred calls are swapped, so that the port is free
\* while its listener is still open.
releaseBeforeClose(t) ==
    /\ pc[t] = "listening"
    /\ port[t] # 0 /\ port[t] \notin Free
    /\ GiveBack(port[t])
    /\ UNCHANGED << callVars, foreign >>

releasePassivePort(t) ==
    /\ pc[t] = "closed"
    /\ \/ /\ port[t] = 0
          /\ Goto(t, "idle")
          /\ UNCHANGED poolVars
       \/ /\ port[t] # 0
          /\ InBounds(port[t])
          /\ Goto(t, "idle")
          /\ GiveBack(port[t])
       \/ /\ port[t] # 0
          /\ ~InBounds(port[t])
          /\ Goto(t, "panic")
          /\ UNCHANGED poolVars
    /\ UNCHANGED << port, tries, err, foreign >>

-----------------------------------------------------------------------------
(* Other processes of the host *)

ForeignBind(p) ==
    /\ p \notin Bound
    /\ foreign' = foreign \union {p}
    /\ UNCHANGED << poolVars, callVars >>

ForeignUnbind(p) ==
    /\ p \in foreign
    /\ foreign' = foreign \ {p}
    /\ UNCHANGED << poolVars, callVars >>

-----------------------------------------------------------------------------
Next ==
    \/ \E t \in Transfers :
          \/ Call(t) \/ choosePassivePort(t)
          \/ Listen(t) \/ ListenFails(t)
          \/ CloseListener(t) \/ releasePassivePort(t)
    \/ \E p \in ForeignPorts : ForeignBind(p) \/ ForeignUnbind(p)

Spec == Init /\ [][Next]_vars

-----------------------------------------------------------------------------
(* Properties *)

\* A configuration that pools passive ports.
Proper == 0 < MinPassivePort /\ MinPassivePort <= MaxPassivePort /\ MinPassivePort <= 65535

TypeOK ==
    /\ \/ ports = Nil /\ idxPorts = Nil /\ numEmptyPorts = 0
       \/ /\ ports \in [Idx -> PortRange]
          /\ idxPorts \in [Idx -> Idx]
          /\ numEmptyPorts \in 0 .. (Hi - Lo + 1)
    /\ pc \in [Transfers -> States]
    /\ port \in [Transfers -> PortRange \union {0}]
    /\ tries \in [Transfers -> 0 .. MaxRetries]
    /\ err \in [Transfers -> Errors]
    /\ foreign \subseteq ForeignPorts

\* idxPorts is the inverted index of ports ("inverted index for ports",
\* server.go:82): whatever the order of choices and releases.
InvertedIndex ==
    Made => /\ \A i \in Idx : idxPorts[ports[i] - Lo] = i
            /\ \A p \in PortRange : ports[idxPorts[p - Lo]] = p

\* Two data transfers never share a port, and no port that a transfer still
\* has can be chosen again.
PortsExclusive ==
    /\ \A t, u \in Transfers : Holding(t) /\ Holding(u) /\ t # u => port[t] # port[u]
    /\ \A t \in Transfers : Holding(t) => port[t] \notin Free

\* A listen goroutine closes its listener before it releases the port, so
\* net.Listen never meets another listener of this server on its port: it is part
\* of PortsExclusive, stated for itself.
NoSelfClash ==
    \A t, u \in Transfers :
        pc[t] = "chosen" /\ Listening(u) => port[t] # port[u]

\* Every slice access of the pool is within bounds, as is every port given
\* back: releasePassivePort never panics.
NoPanic == \A t \in Transfers : pc[t] # "panic"

\* The port is free, or some transfer has it and will give it back.
Kept(p) == p \in Free \/ \E t \in Transfers : Holding(t) /\ port[t] = p

\* The pool loses a port in one way only, whatever the order of choices and
\* releases: newPassiveDataTransfer goes on without it when net.Listen fails.
LostByListen ==
    [][\A p \in PortRange :
          Kept(p) /\ ~Kept(p)' =>
              \E t \in Transfers :
                  pc[t] = "chosen" /\ port[t] = p /\ pc'[t] # "listening"]_vars

\* "all ports that the ftp server can use are all in used. so
\* newPassiveDataTransfer will return errEmptyPortNotFound" (transfer_test.go:96):
\* the error means that every port of the range is bound, or about to be.
NotFoundMeansFull ==
    [][\A t \in Transfers :
          err[t] # "notFound" /\ err'[t] = "notFound"
            => \A p \in PortRange :
                  p \in Bound \/ \E u \in Transfers : Holding(u) /\ port[u] = p]_vars

Abstract == INSTANCE PortSet WITH
    AllPorts <- PortRange,
    NoPort   <- 0,
    free     <- Free,
    owned    <- [t \in Transfers |-> IF Holding(t) THEN port[t] ELSE 0]

\* The permutation and its index implement a set of free ports.
ImplementsPortSet == Abstract!Spec

=============================================================================
