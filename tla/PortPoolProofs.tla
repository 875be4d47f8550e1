--------------------------- MODULE PortPoolProofs ---------------------------
(***************************************************************************)
(* Proofs about PortPool for every proper configuration, every number of   *)
(* overlapping transfers and every behaviour of the other processes.       *)
(***************************************************************************)
EXTENDS PortPool, TLAPS

-----------------------------------------------------------------------------
(* The permutation and its inverse *)

\* P is a permutation of the port range and X its inverted index.
Inverse(P, X) ==
    /\ P \in [Idx -> PortRange]
    /\ X \in [Idx -> Idx]
    /\ \A i \in Idx : X[P[i] - Lo] = i
    /\ \A p \in PortRange : P[X[p - Lo]] = p

\* Swapping two entries of the permutation and of its index keeps them
\* inverse: the one fact choosePassivePort and releasePassivePort rest on.
LEMMA SwapLemma ==
    ASSUME Proper, NEW P, NEW X, Inverse(P, X), NEW i \in Idx, NEW j \in Idx
    PROVE  Inverse([P EXCEPT ![i] = P[j], ![j] = P[i]],
                   [X EXCEPT ![P[i] - Lo] = j, ![P[j] - Lo] = i])
<1> DEFINE Q == [P EXCEPT ![i] = P[j], ![j] = P[i]]
           Y == [X EXCEPT ![P[i] - Lo] = j, ![P[j] - Lo] = i]
<1>1. Lo \in Nat /\ Hi \in Nat /\ Lo <= Hi
  BY PortPoolAssumption DEF Lo, Hi, Proper
<1>2. /\ P \in [Idx -> PortRange] /\ X \in [Idx -> Idx]
      /\ \A k \in Idx : P[k] \in PortRange /\ P[k] - Lo \in Idx /\ X[P[k] - Lo] = k
      /\ \A p \in PortRange : p - Lo \in Idx /\ X[p - Lo] \in Idx /\ P[X[p - Lo]] = p
  <2>1. \A p \in PortRange : p - Lo \in Idx
    BY <1>1 DEF Idx, PortRange
  <2>2. P \in [Idx -> PortRange] /\ X \in [Idx -> Idx]
    BY DEF Inverse
  <2>3. /\ \A k \in Idx : X[P[k] - Lo] = k
        /\ \A p \in PortRange : P[X[p - Lo]] = p
    BY DEF Inverse
  <2> HIDE DEF Q, Y
  <2> QED BY <2>1, <2>2, <2>3
<1>3. Q \in [Idx -> PortRange] /\ Y \in [Idx -> Idx]
  BY <1>2
<1>4. ASSUME NEW k \in Idx PROVE Y[Q[k] - Lo] = k
  <2>1. CASE k = j
    BY <1>1, <1>2, <2>1 DEF PortRange
  <2>2. CASE k # j /\ k = i
    BY <1>1, <1>2, <2>2 DEF PortRange
  <2>3. CASE k # j /\ k # i
    <3>1. Q[k] = P[k]
      BY <1>2, <2>3
    <3>2. P[k] - Lo # P[i] - Lo /\ P[k] - Lo # P[j] - Lo
      BY <1>2, <2>3
    <3> QED BY <1>2, <3>1, <3>2
  <2> QED BY <2>1, <2>2, <2>3
<1>5. ASSUME NEW p \in PortRange PROVE Q[Y[p - Lo]] = p
  <2>1. CASE p = P[j]
    BY <1>1, <1>2, <2>1 DEF PortRange
  <2>2. CASE p # P[j] /\ p = P[i]
    BY <1>1, <1>2, <2>2 DEF PortRange
  <2>3. CASE p # P[j] /\ p # P[i]
    <3>1. p - Lo # P[i] - Lo /\ p - Lo # P[j] - Lo
      BY <1>1, <1>2, <2>3 DEF PortRange
    <3>2. Y[p - Lo] = X[p - Lo]
      BY <1>2, <3>1
    <3>3. X[p - Lo] # i /\ X[p - Lo] # j
      BY <1>2, <2>3
    <3> QED BY <1>2, <3>2, <3>3
  <2> QED BY <2>1, <2>2, <2>3
<1> QED BY <1>3, <1>4, <1>5 DEF Inverse

-----------------------------------------------------------------------------
(* The inductive invariant *)

\* A transfer's port lies in the used part of the permutation.
UsedPart ==
    \A t \in Transfers : Holding(t) =>
        /\ Made
        /\ port[t] \in PortRange
        /\ idxPorts[port[t] - Lo] >= numEmptyPorts

Distinct ==
    \A t, u \in Transfers : Holding(t) /\ Holding(u) /\ t # u => port[t] # port[u]

Pool == Made => Inverse(ports, idxPorts)

IInv == TypeOK /\ Pool /\ UsedPart /\ Distinct /\ NoPanic

LEMMA RangeFacts ==
    ASSUME Proper
    PROVE  /\ Lo = MinPassivePort /\ Lo \in Nat /\ Hi \in Nat /\ 0 < Lo /\ Lo <= Hi
           /\ Hi <= MaxPassivePort
           /\ Lo \in PortRange
           /\ \A p \in PortRange : p - Lo \in Idx /\ p # 0 /\ p \in Int
           /\ \A i \in Idx : i + Lo \in PortRange /\ (i + Lo) - Lo = i
BY PortPoolAssumption DEF Lo, Hi, Proper, PortRange, Idx

\* The slices choosePassivePort works on, made before or just now.
LEMMA Slices ==
    ASSUME Proper, IInv
    PROVE  /\ Inverse(Ports0, IdxPorts0)
           /\ NumEmpty0 \in 0 .. (Hi - Lo + 1)
           /\ \A t \in Transfers : Holding(t) => IdxPorts0[port[t] - Lo] >= NumEmpty0
<1>1. CASE Made
  BY <1>1 DEF IInv, TypeOK, Pool, UsedPart, Made, Ports0, IdxPorts0, NumEmpty0
<1>2. CASE ~Made
  <2>1. Inverse([i \in Idx |-> i + Lo], [i \in Idx |-> i])
    <3>1. \A p \in PortRange : (p - Lo) + Lo = p
      BY RangeFacts
    <3> QED BY RangeFacts, <3>1 DEF Inverse
  <2>2. \A t \in Transfers : ~Holding(t)
    BY <1>2 DEF IInv, UsedPart
  <2> QED BY RangeFacts, <1>2, <2>1, <2>2 DEF Ports0, IdxPorts0, NumEmpty0
<1> QED BY <1>1, <1>2

LEMMA Initial ==
    ASSUME Proper, Init
    PROVE  IInv
BY PortPoolAssumption DEF Init, IInv, TypeOK, Pool, UsedPart, Distinct, NoPanic,
   Made, Holding, States, Errors, Nil

\* A step that leaves the pool alone and makes no transfer hold another port.
LEMMA PoolUntouched ==
    ASSUME IInv, UNCHANGED poolVars, TypeOK',
           \A t \in Transfers : Holding(t)' => Holding(t) /\ port'[t] = port[t],
           \A t \in Transfers : pc'[t] # "panic"
    PROVE  IInv'
BY DEF IInv, poolVars, Pool, UsedPart, Distinct, NoPanic, Made

LEMMA Chosen ==
    ASSUME Proper, IInv, NEW t \in Transfers, choosePassivePort(t)
    PROVE  IInv'
<1> USE RangeFacts
<1>1. CASE ChooseFails
  <2>1. UNCHANGED poolVars /\ port' = port /\ tries' = tries /\ foreign' = foreign
        /\ pc' = [pc EXCEPT ![t] = "idle"]
        /\ \E e \in {"disabled", "notFound"} : err' = [err EXCEPT ![t] = e]
    BY <1>1 DEF choosePassivePort, Return, Goto
  <2>2. TypeOK'
    BY <2>1 DEF IInv, TypeOK, poolVars, States, Errors
  <2> QED BY <2>1, <2>2, PoolUntouched DEF Holding, IInv, TypeOK, NoPanic
<1>2. CASE ~ChooseFails
  <2>1. PICK i \in 0 .. (NumEmpty0 - 1) :
            Take(i) /\ port' = [port EXCEPT ![t] = Ports0[i]]
    BY <1>2, PortPoolAssumption DEF choosePassivePort, Proper
  <2>2. pc[t] = "choose" /\ pc' = [pc EXCEPT ![t] = "chosen"]
        /\ UNCHANGED << tries, err, foreign >>
    BY <1>2, PortPoolAssumption DEF choosePassivePort, Proper, Goto
  <2> DEFINE last == NumEmpty0 - 1
  <2>3. /\ Inverse(Ports0, IdxPorts0)
        /\ NumEmpty0 \in 0 .. (Hi - Lo + 1)
        /\ \A u \in Transfers : Holding(u) => IdxPorts0[port[u] - Lo] >= NumEmpty0
    BY Slices
  <2>4. i \in Idx /\ last \in Idx /\ i <= last /\ last + 1 = NumEmpty0
    BY <2>3 DEF Idx
  <2>5. /\ numEmptyPorts' = last
        /\ ports' = [Ports0 EXCEPT ![i] = Ports0[last], ![last] = Ports0[i]]
        /\ idxPorts' = [IdxPorts0 EXCEPT ![Ports0[i] - Lo] = last, ![Ports0[last] - Lo] = i]
    BY <2>1 DEF Take, Reindex
  <2>6. Inverse(ports', idxPorts')
    BY <2>3, <2>4, <2>5, SwapLemma
  <2>7. TypeOK' /\ Made' /\ Pool'
    <3>1. Made' BY <2>6 DEF Made, Inverse, Nil
    <3>2. /\ ports' \in [Idx -> PortRange] /\ idxPorts' \in [Idx -> Idx]
          /\ Ports0[i] \in PortRange
      BY <2>3, <2>4, <2>6 DEF Inverse
    <3>3. numEmptyPorts' \in 0 .. (Hi - Lo + 1)
      BY <2>4, <2>5 DEF Idx
    <3>4. port' \in [Transfers -> PortRange \union {0}] /\ pc' \in [Transfers -> States]
      BY <2>1, <2>2, <3>2 DEF IInv, TypeOK, States
    <3> QED BY <2>2, <2>6, <3>1, <3>2, <3>3, <3>4 DEF IInv, TypeOK, Pool
  <2>8. /\ Ports0[i] \in PortRange /\ Ports0[last] \in PortRange
        /\ IdxPorts0[Ports0[i] - Lo] = i /\ IdxPorts0[Ports0[last] - Lo] = last
    BY <2>3, <2>4 DEF Inverse
  <2>9. ASSUME NEW u \in Transfers, Holding(u)
        PROVE  /\ u # t /\ port[u] \in PortRange
               /\ port[u] # Ports0[i] /\ port[u] # Ports0[last]
               /\ idxPorts'[port[u] - Lo] = IdxPorts0[port[u] - Lo]
               /\ IdxPorts0[port[u] - Lo] > last
               /\ port'[u] = port[u]
    <3>1. u # t /\ port[u] \in PortRange
      BY <2>2, <2>9 DEF Holding, IInv, UsedPart
    <3>2. IdxPorts0[port[u] - Lo] >= NumEmpty0 /\ IdxPorts0[port[u] - Lo] \in Idx
      BY <2>3, <2>9, <3>1 DEF Inverse
    <3>3. IdxPorts0[port[u] - Lo] > last
      BY <2>4, <3>2 DEF Idx
    <3>4. port[u] # Ports0[i] /\ port[u] # Ports0[last]
      BY <2>4, <2>8, <3>3 DEF Idx
    <3>5. port[u] - Lo # Ports0[i] - Lo /\ port[u] - Lo # Ports0[last] - Lo
      BY <2>8, <3>1, <3>4
    <3>6. idxPorts'[port[u] - Lo] = IdxPorts0[port[u] - Lo]
      BY <2>3, <2>5, <3>1, <3>5 DEF Inverse
    <3> QED BY <2>1, <3>1, <3>3, <3>4, <3>6 DEF IInv, TypeOK
  <2>10. port'[t] = Ports0[i] /\ idxPorts'[port'[t] - Lo] = last
    <3>1. port'[t] = Ports0[i]
      BY <2>1 DEF IInv, TypeOK
    <3>2. Ports0[last] = Ports0[i] => i = last
      BY <2>8
    <3> QED BY <2>3, <2>4, <2>5, <2>8, <3>1, <3>2 DEF Inverse
  <2>11. \A u \in Transfers : Holding(u)' => u = t \/ Holding(u)
    BY <2>2 DEF Holding, IInv, TypeOK
  <2>12. UsedPart'
    <3>1. ASSUME NEW u \in Transfers, Holding(u)'
          PROVE  port'[u] \in PortRange /\ idxPorts'[port'[u] - Lo] >= numEmptyPorts'
      <4>1. CASE u = t
        BY <2>4, <2>5, <2>8, <2>10, <4>1 DEF Idx
      <4>2. CASE u # t
        <5>1. Holding(u) BY <2>11, <3>1, <4>2
        <5>2. IdxPorts0[port[u] - Lo] \in Idx BY <2>3, <2>9, <5>1 DEF Inverse
        <5>3. IdxPorts0[port[u] - Lo] > last /\ port'[u] = port[u] /\ port[u] \in PortRange
              /\ idxPorts'[port[u] - Lo] = IdxPorts0[port[u] - Lo]
          BY <2>9, <5>1
        <5>4. IdxPorts0[port[u] - Lo] >= last
          BY <2>4, <5>2, <5>3 DEF Idx
        <5> QED BY <2>5, <5>3, <5>4
      <4> QED BY <4>1, <4>2
    <3> QED BY <2>7, <3>1 DEF UsedPart
  <2>13. Distinct'
    BY <2>9, <2>10, <2>11 DEF Distinct, IInv
  <2>14. NoPanic'
    BY <2>2 DEF NoPanic, IInv, TypeOK
  <2> QED BY <2>7, <2>12, <2>13, <2>14 DEF IInv
<1> QED BY <1>1, <1>2

LEMMA Released ==
    ASSUME Proper, IInv, NEW t \in Transfers, releasePassivePort(t)
    PROVE  IInv'
<1> USE RangeFacts
<1> DEFINE p == port[t]
           n == numEmptyPorts
<1>1. pc[t] = "closed" /\ Holding(t) /\ Made /\ Inverse(ports, idxPorts)
      /\ p \in PortRange /\ idxPorts[p - Lo] >= n /\ n \in 0 .. (Hi - Lo + 1)
  BY DEF releasePassivePort, Holding, IInv, TypeOK, UsedPart, Pool, Made
<1> DEFINE i == idxPorts[p - Lo]
<1>2. i \in Idx /\ n \in Idx /\ ports[i] = p /\ ports[n] \in PortRange
      /\ idxPorts[ports[n] - Lo] = n
  <2>1. i \in Idx /\ ports[i] = p BY <1>1 DEF Inverse
  <2>2. n \in Idx BY <1>1, <2>1 DEF Idx
  <2> QED BY <1>1, <2>1, <2>2 DEF Inverse
<1>3. InBounds(p) /\ p # 0
  <2>1. DOMAIN ports = Idx /\ DOMAIN idxPorts = Idx
    BY <1>1 DEF Inverse
  <2>2. p \in MinPassivePort .. MaxPassivePort
    BY <1>1, PortPoolAssumption DEF PortRange
  <2>3. p - MinPassivePort \in Idx /\ ports[n] - MinPassivePort \in Idx
    BY <1>1, <1>2
  <2> QED BY <1>1, <1>2, <2>1, <2>2, <2>3 DEF InBounds
<1>4. GiveBack(p) /\ pc' = [pc EXCEPT ![t] = "idle"]
      /\ UNCHANGED << port, tries, err, foreign >>
  BY <1>3 DEF releasePassivePort, Goto
<1>5. /\ ports' = [ports EXCEPT ![i] = ports[n], ![n] = ports[i]]
      /\ idxPorts' = [idxPorts EXCEPT ![ports[i] - Lo] = n, ![ports[n] - Lo] = i]
      /\ numEmptyPorts' = n + 1
  BY <1>2, <1>4 DEF GiveBack
<1>6. Inverse(ports', idxPorts')
  BY <1>1, <1>2, <1>5, SwapLemma
<1>7. TypeOK' /\ Made' /\ Pool'
  <2>1. Made' BY <1>6 DEF Made, Inverse, Nil
  <2>2. ports' \in [Idx -> PortRange] /\ idxPorts' \in [Idx -> Idx]
    BY <1>6 DEF Inverse
  <2>3. numEmptyPorts' \in 0 .. (Hi - Lo + 1)
    BY <1>2, <1>5 DEF Idx
  <2>4. pc' \in [Transfers -> States]
    BY <1>4 DEF IInv, TypeOK, States
  <2> QED BY <1>4, <1>6, <2>1, <2>2, <2>3, <2>4 DEF IInv, TypeOK, Pool
<1>8. ASSUME NEW u \in Transfers, Holding(u)'
      PROVE  Holding(u) /\ u # t /\ port'[u] \in PortRange /\ port'[u] # p
             /\ idxPorts'[port'[u] - Lo] >= numEmptyPorts'
  <2>1. Holding(u) /\ u # t
    BY <1>4, <1>8 DEF Holding, IInv, TypeOK
  <2>2. port'[u] = port[u] /\ port[u] \in PortRange /\ port[u] # p
        /\ idxPorts[port[u] - Lo] >= n
    BY <1>1, <1>4, <2>1 DEF IInv, UsedPart, Distinct
  <2> DEFINE k == idxPorts[port[u] - Lo]
  <2>3. k \in Idx /\ ports[k] = port[u]
    BY <1>1, <2>2 DEF Inverse
  <2>4. k # i
    BY <1>2, <2>2, <2>3
  <2>5. CASE k = n
    <3>1. port[u] = ports[n] BY <2>3, <2>5
    <3>2. idxPorts'[port[u] - Lo] = i
      BY <1>1, <1>2, <1>5, <2>2, <3>1 DEF Inverse
    <3>3. i >= n + 1 BY <1>1, <1>2, <2>4, <2>5 DEF Idx
    <3> QED BY <1>5, <2>1, <2>2, <3>2, <3>3
  <2>6. CASE k # n
    <3>1. port[u] # ports[n] BY <1>2, <2>6
    <3>2. port[u] - Lo # p - Lo /\ port[u] - Lo # ports[n] - Lo
      BY <1>1, <1>2, <2>2, <3>1
    <3>3. idxPorts'[port[u] - Lo] = k
      BY <1>1, <1>2, <1>5, <2>2, <3>2 DEF Inverse
    <3>4. k >= n + 1
      <4>1. k \in Int /\ n \in Int BY <1>2, <2>3 DEF Idx
      <4>2. k >= n BY <2>2
      <4> HIDE DEF k, n
      <4> QED BY <2>6, <4>1, <4>2
    <3> QED BY <1>5, <2>1, <2>2, <3>3, <3>4
  <2> QED BY <2>5, <2>6
<1>9. UsedPart' /\ Distinct' /\ NoPanic'
  <2>1. UsedPart' BY <1>7, <1>8 DEF UsedPart
  <2>2. Distinct' BY <1>4, <1>8 DEF Distinct, IInv
  <2>3. NoPanic' BY <1>4 DEF NoPanic, IInv, TypeOK
  <2> QED BY <2>1, <2>2, <2>3
<1> QED BY <1>7, <1>9 DEF IInv

LEMMA Inductive ==
    ASSUME Proper, IInv, [Next]_vars
    PROVE  IInv'
<1> USE RangeFacts
<1>1. ASSUME NEW t \in Transfers, Call(t) PROVE IInv'
  <2>1. TypeOK'
    BY <1>1, PortPoolAssumption DEF Call, Goto, IInv, TypeOK, poolVars, States, Errors
  <2> QED BY <1>1, <2>1, PoolUntouched DEF Call, Goto, Holding, IInv, TypeOK, NoPanic
<1>2. ASSUME NEW t \in Transfers, choosePassivePort(t) PROVE IInv'
  BY <1>2, Chosen
<1>3. ASSUME NEW t \in Transfers, Listen(t) PROVE IInv'
  <2>1. TypeOK'
    BY <1>3 DEF Listen, Goto, IInv, TypeOK, poolVars, States
  <2> QED BY <1>3, <2>1, PoolUntouched DEF Listen, Goto, Holding, IInv, TypeOK, NoPanic
<1>4. ASSUME NEW t \in Transfers, ListenFails(t) PROVE IInv'
  <2>1. UNCHANGED << poolVars, port, foreign >>
        /\ (pc' = [pc EXCEPT ![t] = "idle"] \/ pc' = [pc EXCEPT ![t] = "choose"])
        /\ (err' = err \/ err' = [err EXCEPT ![t] = "listen"])
    BY <1>4 DEF ListenFails, Return, Goto
  <2>2. tries' \in [Transfers -> 0 .. MaxRetries]
    BY <1>4, PortPoolAssumption DEF ListenFails, LastTry, IInv, TypeOK
  <2>3. TypeOK'
    BY <2>1, <2>2 DEF IInv, TypeOK, poolVars, States, Errors
  <2> QED BY <2>1, <2>3, PoolUntouched DEF Holding, IInv, TypeOK, NoPanic
<1>5. ASSUME NEW t \in Transfers, CloseListener(t) PROVE IInv'
  <2>1. TypeOK'
    BY <1>5 DEF CloseListener, Goto, IInv, TypeOK, poolVars, States
  <2> QED BY <1>5, <2>1, PoolUntouched DEF CloseListener, Goto, Holding, IInv, TypeOK, NoPanic
<1>6. ASSUME NEW t \in Transfers, releasePassivePort(t) PROVE IInv'
  BY <1>6, Released
<1>7. ASSUME NEW p \in ForeignPorts, ForeignBind(p) \/ ForeignUnbind(p) PROVE IInv'
  <2>1. UNCHANGED << poolVars, callVars >> /\ foreign' \subseteq ForeignPorts
    BY <1>7 DEF ForeignBind, ForeignUnbind, IInv, TypeOK
  <2>2. TypeOK'
    BY <2>1 DEF IInv, TypeOK, poolVars, callVars
  <2> QED BY <2>1, <2>2, PoolUntouched DEF Holding, callVars, IInv, NoPanic
<1>8. CASE UNCHANGED vars
  <2>1. TypeOK'
    BY <1>8 DEF vars, poolVars, callVars, IInv, TypeOK
  <2> QED BY <1>8, <2>1, PoolUntouched DEF vars, callVars, Holding, IInv, NoPanic
<1> QED BY <1>1, <1>2, <1>3, <1>4, <1>5, <1>6, <1>7, <1>8 DEF Next

LEMMA Invariance ==
    ASSUME Proper
    PROVE  Spec => []IInv
<1>1. Init => IInv
  BY Initial
<1>2. IInv /\ [Next]_vars => IInv'
  BY Inductive
<1> QED BY <1>1, <1>2, PTL DEF Spec

-----------------------------------------------------------------------------
(* Theorems *)

\* In every proper configuration the pool's state keeps its types: the count
\* of free ports stays between zero and the size of the range, and the loop of
\* newPassiveDataTransfer never exceeds its bound.
THEOREM TypeCorrect ==
    ASSUME Proper
    PROVE  Spec => []TypeOK
<1>1. IInv => TypeOK BY DEF IInv
<1> QED BY <1>1, Invariance, PTL

\* idxPorts stays the inverted index of ports, whatever the calls of
\* choosePassivePort and releasePassivePort.
THEOREM IndexCorrect ==
    ASSUME Proper
    PROVE  Spec => []InvertedIndex
<1>1. IInv => InvertedIndex BY DEF IInv, Pool, Inverse, InvertedIndex
<1> QED BY <1>1, Invariance, PTL

\* No two data transfers have the same port, and no port in use can be chosen.
THEOREM Exclusive ==
    ASSUME Proper
    PROVE  Spec => []PortsExclusive
<1>1. ASSUME IInv PROVE PortsExclusive
  <2>1. ASSUME NEW t \in Transfers, Holding(t) PROVE port[t] \notin Free
    <3>1. Made /\ port[t] \in PortRange /\ idxPorts[port[t] - Lo] >= numEmptyPorts
      BY <1>1, <2>1 DEF IInv, UsedPart
    <3>2. Inverse(ports, idxPorts) /\ numEmptyPorts \in 0 .. (Hi - Lo + 1)
      BY <1>1, <3>1 DEF IInv, Pool, TypeOK, Made
    <3>3. ASSUME NEW i \in 0 .. (numEmptyPorts - 1), ports[i] = port[t] PROVE FALSE
      <4>1. i \in Idx BY <3>2, RangeFacts DEF Idx
      <4>2. idxPorts[port[t] - Lo] = i BY <3>2, <3>3, <4>1 DEF Inverse
      <4> QED BY <3>1, <3>2, <4>2, RangeFacts
    <3> QED BY <3>1, <3>3 DEF Free
  <2> QED BY <1>1, <2>1 DEF PortsExclusive, IInv, Distinct
<1> QED BY <1>1, Invariance, PTL

\* net.Listen never meets another listener of the same server on its port.
THEOREM SelfClashFree ==
    ASSUME Proper
    PROVE  Spec => []NoSelfClash
<1>1. IInv => NoSelfClash BY DEF IInv, Distinct, NoSelfClash, Holding, Listening
<1> QED BY <1>1, Invariance, PTL

\* releasePassivePort never indexes out of its slices.
THEOREM PanicFree ==
    ASSUME Proper
    PROVE  Spec => []NoPanic
<1>1. IInv => NoPanic BY DEF IInv
<1> QED BY <1>1, Invariance, PTL

-----------------------------------------------------------------------------
(* The pool implements PortSet *)

Owned == [t \in Transfers |-> IF Holding(t) THEN port[t] ELSE 0]

\* A port is free when its index lies before the count.
ByIndex == Free = {p \in PortRange : IdxPorts0[p - Lo] < NumEmpty0}

LEMMA FreeByIndex ==
    Proper /\ IInv => ByIndex
<1> SUFFICES ASSUME Proper, IInv PROVE ByIndex
  OBVIOUS
<1>1. CASE Made
  <2>1. Inverse(ports, idxPorts) /\ numEmptyPorts \in 0 .. (Hi - Lo + 1)
    BY <1>1 DEF IInv, Pool, TypeOK, Made
  <2>2. ASSUME NEW i \in 0 .. (numEmptyPorts - 1)
        PROVE  ports[i] \in PortRange /\ idxPorts[ports[i] - Lo] < numEmptyPorts
    <3>1. i \in Idx /\ i < numEmptyPorts BY <2>1, RangeFacts DEF Idx
    <3> QED BY <2>1, <3>1 DEF Inverse
  <2>3. ASSUME NEW p \in PortRange, idxPorts[p - Lo] < numEmptyPorts
        PROVE  \E i \in 0 .. (numEmptyPorts - 1) : p = ports[i]
    <3>1. idxPorts[p - Lo] \in Idx /\ ports[idxPorts[p - Lo]] = p
      BY <2>1, RangeFacts DEF Inverse
    <3>2. idxPorts[p - Lo] \in 0 .. (numEmptyPorts - 1)
      BY <2>1, <2>3, <3>1, RangeFacts DEF Idx
    <3> QED BY <3>1, <3>2
  <2> QED BY <1>1, <2>2, <2>3 DEF ByIndex, Free, IdxPorts0, NumEmpty0
<1>2. CASE ~Made
  <2>1. \A p \in PortRange : IdxPorts0[p - Lo] < NumEmpty0
    BY <1>2, RangeFacts DEF IdxPorts0, NumEmpty0, Idx
  <2> QED BY <1>2, <2>1 DEF ByIndex, Free
<1> QED BY <1>1, <1>2

\* A call that chooses a port takes one of the free ones and leaves the rest.
LEMMA ChosenFree ==
    ASSUME Proper, IInv, IInv', NEW t \in Transfers, choosePassivePort(t), ~ChooseFails
    PROVE  \E p \in Free : /\ Free' = Free \ {p}
                           /\ port' = [port EXCEPT ![t] = p]
<1> USE RangeFacts
<1>1. PICK i \in 0 .. (NumEmpty0 - 1) :
          Take(i) /\ port' = [port EXCEPT ![t] = Ports0[i]]
  BY PortPoolAssumption DEF choosePassivePort, Proper
<1> DEFINE last == NumEmpty0 - 1
           p == Ports0[i]
           q == Ports0[last]
<1>2. Inverse(Ports0, IdxPorts0) /\ NumEmpty0 \in 0 .. (Hi - Lo + 1)
  BY Slices
<1>3. i \in Idx /\ last \in Idx /\ i <= last
  BY <1>2 DEF Idx
<1>4. numEmptyPorts' = last
      /\ idxPorts' = [IdxPorts0 EXCEPT ![p - Lo] = last, ![q - Lo] = i]
      /\ ports' = [Ports0 EXCEPT ![i] = Ports0[last], ![last] = Ports0[i]]
  BY <1>1 DEF Take, Reindex
<1>5. p \in PortRange /\ q \in PortRange /\ IdxPorts0[p - Lo] = i /\ IdxPorts0[q - Lo] = last
  BY <1>2, <1>3 DEF Inverse
<1>6. Made'
  BY <1>2, <1>3, <1>4 DEF Inverse, Made, Nil
<1>7. Free = {r \in PortRange : IdxPorts0[r - Lo] < NumEmpty0}
  BY FreeByIndex DEF ByIndex
<1>8. Free' = {r \in PortRange : idxPorts'[r - Lo] < last}
  <2>0. ByIndex'
    BY FreeByIndex, PTL
  <2>1. Free' = {r \in PortRange : IdxPorts0'[r - Lo] < NumEmpty0'}
    BY <2>0 DEF ByIndex
  <2> QED BY <1>4, <1>6, <2>1 DEF IdxPorts0, NumEmpty0
<1>9. p \in Free
  <2>1. i < NumEmpty0 BY <1>2
  <2> QED BY <1>5, <1>7, <2>1
<1>10. ASSUME NEW r \in PortRange
       PROVE  idxPorts'[r - Lo] < last <=> IdxPorts0[r - Lo] < NumEmpty0 /\ r # p
  <2>0. r - Lo \in Idx /\ IdxPorts0[r - Lo] \in Idx /\ last \in Int /\ i \in Int
        /\ p - Lo \in Idx /\ q - Lo \in Idx /\ NumEmpty0 = last + 1
    <3>1. r - Lo \in Idx /\ p - Lo \in Idx /\ q - Lo \in Idx
      BY <1>5
    <3>2. IdxPorts0[r - Lo] \in Idx BY <1>2, <3>1 DEF Inverse
    <3>3. last \in Int /\ i \in Int /\ NumEmpty0 = last + 1 BY <1>2, <1>3 DEF Idx
    <3> QED BY <3>1, <3>2, <3>3
  <2>1. CASE r = p
    <3>1. idxPorts'[r - Lo] = last
      <4>1. p = q => i = last BY <1>5
      <4>2. p # q => p - Lo # q - Lo BY <1>5
      <4> QED BY <1>2, <1>4, <2>0, <2>1, <4>1, <4>2 DEF Inverse
    <3> QED BY <2>0, <2>1, <3>1
  <2>2. CASE r # p /\ r = q
    <3>1. idxPorts'[r - Lo] = i
      BY <1>2, <1>4, <2>0, <2>2 DEF Inverse
    <3>2. i # last BY <1>3, <2>2
    <3> QED BY <1>3, <1>5, <2>0, <2>2, <3>1, <3>2
  <2>3. CASE r # p /\ r # q
    <3>1. r - Lo # p - Lo /\ r - Lo # q - Lo
      BY <1>5, <2>3
    <3>2. idxPorts'[r - Lo] = IdxPorts0[r - Lo]
      BY <1>2, <1>4, <2>0, <3>1 DEF Inverse
    <3>3. IdxPorts0[r - Lo] # last
      BY <1>2, <2>3 DEF Inverse
    <3>4. IdxPorts0[r - Lo] \in Int BY <2>0 DEF Idx
    <3> QED BY <2>0, <2>3, <3>2, <3>3, <3>4
  <2> QED BY <2>1, <2>2, <2>3
<1>11. Free' = Free \ {p}
  BY <1>7, <1>8, <1>10
<1> QED BY <1>1, <1>9, <1>11

\* releasePassivePort adds its port, and no other, to the free ones.
LEMMA ReleasedFree ==
    ASSUME Proper, IInv, IInv', NEW t \in Transfers, releasePassivePort(t)
    PROVE  Free' = Free \union {port[t]}
<1> USE RangeFacts
<1> DEFINE p == port[t]
           n == numEmptyPorts
           i == idxPorts[p - Lo]
           q == ports[n]
<1>1. pc[t] = "closed" /\ Made /\ Inverse(ports, idxPorts)
      /\ p \in PortRange /\ i >= n /\ n \in 0 .. (Hi - Lo + 1)
  BY DEF releasePassivePort, Holding, IInv, TypeOK, UsedPart, Pool, Made
<1>2. i \in Idx /\ n \in Idx /\ ports[i] = p /\ q \in PortRange /\ idxPorts[q - Lo] = n
  <2>1. i \in Idx /\ ports[i] = p BY <1>1 DEF Inverse
  <2>2. n \in Idx BY <1>1, <2>1 DEF Idx
  <2> QED BY <1>1, <2>1, <2>2 DEF Inverse
<1>3. pc'[t] # "panic" /\ p # 0
  BY <1>1 DEF IInv, NoPanic
<1>4. GiveBack(p)
  BY <1>3 DEF releasePassivePort, Goto, IInv, TypeOK
<1>5. idxPorts' = [idxPorts EXCEPT ![p - Lo] = n, ![q - Lo] = i]
      /\ numEmptyPorts' = n + 1
      /\ ports' = [ports EXCEPT ![i] = ports[n], ![n] = ports[i]]
  BY <1>2, <1>4 DEF GiveBack
<1>6. Made'
  BY <1>1, <1>2, <1>5 DEF Inverse, Made, Nil
<1>7. /\ Free = {r \in PortRange : idxPorts[r - Lo] < n}
      /\ Free' = {r \in PortRange : idxPorts'[r - Lo] < n + 1}
  <2>1. ByIndex /\ ByIndex'
    BY FreeByIndex, PTL
  <2> QED BY <1>1, <1>5, <1>6, <2>1 DEF ByIndex, IdxPorts0, NumEmpty0
<1>8. ASSUME NEW r \in PortRange
      PROVE  idxPorts'[r - Lo] < n + 1 <=> idxPorts[r - Lo] < n \/ r = p
  <2>0. /\ r - Lo \in Idx /\ p - Lo \in Idx /\ q - Lo \in Idx
        /\ i \in Int /\ n \in Int /\ idxPorts[r - Lo] \in Int
        /\ idxPorts \in [Idx -> Idx]
    <3>1. r - Lo \in Idx /\ p - Lo \in Idx /\ q - Lo \in Idx BY <1>1, <1>2
    <3>2. idxPorts \in [Idx -> Idx] BY <1>1 DEF Inverse
    <3>3. \A k \in Idx : k \in Int BY DEF Idx
    <3> QED BY <1>2, <3>1, <3>2, <3>3
  <2>1. CASE r = q
    <3>1. idxPorts'[r - Lo] = i BY <1>5, <2>0, <2>1
    <3>2. idxPorts[r - Lo] = n BY <1>2, <2>1
    <3>3. r = p <=> i = n BY <1>2, <2>1
    <3> QED BY <1>1, <2>0, <3>1, <3>2, <3>3
  <2>2. CASE r # q /\ r = p
    <3>1. p - Lo # q - Lo BY <1>1, <1>2, <2>2
    <3>2. idxPorts'[r - Lo] = n BY <1>5, <2>0, <2>2, <3>1
    <3> QED BY <2>0, <2>2, <3>2
  <2>3. CASE r # q /\ r # p
    <3>1. r - Lo # p - Lo /\ r - Lo # q - Lo BY <1>1, <1>2, <2>3
    <3>2. idxPorts'[r - Lo] = idxPorts[r - Lo] BY <1>5, <2>0, <3>1
    <3>3. idxPorts[r - Lo] # n BY <1>1, <2>3 DEF Inverse
    <3> QED BY <2>0, <2>3, <3>2, <3>3
  <2> QED BY <2>1, <2>2, <2>3
<1> QED BY <1>1, <1>7, <1>8

\* Every step of the pool is a step of PortSet or leaves it unchanged.
LEMMA StepKinds ==
    ASSUME Proper, IInv, IInv', [Next]_vars
    PROVE  \/ \E t \in Transfers : Abstract!Acquire(t) \/ Abstract!Release(t)
           \/ \E t \in Transfers : ListenFails(t) /\ Abstract!Lose(t)
           \/ UNCHANGED << Free, Owned >>
<1> USE RangeFacts
<1>0. /\ pc \in [Transfers -> States] /\ port \in [Transfers -> PortRange \union {0}]
      /\ \A t \in Transfers : Holding(t) => port[t] \in PortRange
  BY DEF IInv, TypeOK, UsedPart
<1>1. ASSUME UNCHANGED poolVars PROVE UNCHANGED Free
  BY <1>1 DEF poolVars, Free, Made
<1>2. ASSUME NEW t \in Transfers, Call(t) PROVE UNCHANGED << Free, Owned >>
  BY <1>0, <1>1, <1>2 DEF Call, Goto, Owned, Holding
<1>3. ASSUME NEW t \in Transfers, choosePassivePort(t), ChooseFails
      PROVE  UNCHANGED << Free, Owned >>
  BY <1>0, <1>1, <1>3 DEF choosePassivePort, Return, Goto, Owned, Holding
<1>4. ASSUME NEW t \in Transfers, choosePassivePort(t), ~ChooseFails
      PROVE  Abstract!Acquire(t)
  <2>1. PICK p \in Free : Free' = Free \ {p} /\ port' = [port EXCEPT ![t] = p]
    BY <1>4, ChosenFree
  <2>2. pc[t] = "choose" /\ pc' = [pc EXCEPT ![t] = "chosen"]
    BY <1>4, PortPoolAssumption DEF choosePassivePort, Proper, Goto
  <2>3. Owned[t] = 0 /\ Owned' = [Owned EXCEPT ![t] = p]
    BY <1>0, <2>1, <2>2 DEF Owned, Holding
  <2> QED BY <2>1, <2>3 DEF Abstract!Acquire, Owned
<1>5. ASSUME NEW t \in Transfers, Listen(t) \/ CloseListener(t)
      PROVE  UNCHANGED << Free, Owned >>
  BY <1>0, <1>1, <1>5 DEF Listen, CloseListener, Goto, Owned, Holding
<1>6. ASSUME NEW t \in Transfers, ListenFails(t) PROVE Abstract!Lose(t)
  <2>1. UNCHANGED << poolVars, port >> /\ pc[t] = "chosen"
        /\ (pc' = [pc EXCEPT ![t] = "idle"] \/ pc' = [pc EXCEPT ![t] = "choose"])
    BY <1>6 DEF ListenFails, Return, Goto
  <2>2. Owned[t] # 0 /\ Owned' = [Owned EXCEPT ![t] = 0]
    BY <1>0, <2>1 DEF Owned, Holding
  <2> QED BY <1>1, <2>1, <2>2 DEF Abstract!Lose, Owned
<1>7. ASSUME NEW t \in Transfers, releasePassivePort(t) PROVE Abstract!Release(t)
  <2>1. Free' = Free \union {port[t]}
    BY <1>7, ReleasedFree
  <2>2. pc[t] = "closed" /\ port' = port
        /\ (pc' = [pc EXCEPT ![t] = "idle"] \/ pc' = [pc EXCEPT ![t] = "panic"])
    BY <1>7 DEF releasePassivePort, Goto
  <2>3. Owned[t] = port[t] /\ port[t] # 0 /\ Owned' = [Owned EXCEPT ![t] = 0]
    BY <1>0, <2>2 DEF Owned, Holding
  <2> QED BY <2>1, <2>3 DEF Abstract!Release, Owned
<1>8. ASSUME NEW p \in ForeignPorts, ForeignBind(p) \/ ForeignUnbind(p)
      PROVE  UNCHANGED << Free, Owned >>
  BY <1>1, <1>8 DEF ForeignBind, ForeignUnbind, callVars, Owned, Holding
<1>9. CASE UNCHANGED vars
  BY <1>1, <1>9 DEF vars, callVars, Owned, Holding
<1> QED BY <1>2, <1>3, <1>4, <1>5, <1>6, <1>7, <1>8, <1>9 DEF Next

\* The permutation with its index implements the set of free ports: a choice
\* takes a free port, a release gives it back, a failed net.Listen loses it.
THEOREM Refinement ==
    ASSUME Proper
    PROVE  Spec => ImplementsPortSet
<1>1. Init => Abstract!Init
  BY DEF Init, Abstract!Init, Free, Made, Holding
<1>2. IInv /\ IInv' /\ [Next]_vars => [Abstract!Next]_<< Free, Owned >>
  BY StepKinds DEF Abstract!Next
<1> QED BY <1>1, <1>2, Invariance, PTL DEF Spec, ImplementsPortSet, Abstract!Spec, Owned

-----------------------------------------------------------------------------
(* What the pool loses *)

LEMMA LostStep ==
    ASSUME Proper, IInv, IInv', [Next]_vars, NEW p \in PortRange, Kept(p), ~Kept(p)'
    PROVE  \E t \in Transfers : pc[t] = "chosen" /\ port[t] = p /\ pc'[t] # "listening"
<1>1. p # 0
  BY RangeFacts
<1>2. Owned' = [t \in Transfers |-> IF Holding(t)' THEN port'[t] ELSE 0]
  BY DEF Owned
<1>3. /\ p \in Free \/ \E t \in Transfers : Owned[t] = p
      /\ p \notin Free' /\ \A t \in Transfers : Owned'[t] # p
  BY <1>1, <1>2 DEF Kept, Owned
<1>4. ASSUME NEW t \in Transfers, ListenFails(t)
      PROVE  pc[t] = "chosen" /\ port[t] = p /\ pc'[t] # "listening"
  <2>1. Free' = Free /\ \A u \in Transfers \ {t} : Owned'[u] = Owned[u]
    BY <1>4 DEF ListenFails, Return, Goto, poolVars, Free, Made, Owned, Holding, IInv, TypeOK
  <2>2. Owned[t] = p
    BY <1>3, <2>1
  <2>3. pc[t] = "chosen" /\ pc'[t] \in {"idle", "choose"}
    BY <1>4 DEF ListenFails, Return, Goto, IInv, TypeOK
  <2> QED BY <1>1, <2>2, <2>3 DEF Owned
<1>5. ASSUME NEW t \in Transfers, Abstract!Acquire(t) \/ Abstract!Release(t)
      PROVE  FALSE
  <2>1. DOMAIN Owned = Transfers /\ Owned = [u \in Transfers |-> Owned[u]]
    BY DEF Owned
  <2>2. CASE Abstract!Acquire(t)
    <3>1. Owned[t] = 0
      BY <2>2 DEF Abstract!Acquire, Owned
    <3>2. PICK q \in Free : Free' = Free \ {q} /\ Owned' = [Owned EXCEPT ![t] = q]
      BY <2>2 DEF Abstract!Acquire, Owned
    <3> QED BY <1>1, <1>3, <2>1, <3>1, <3>2
  <2>3. CASE Abstract!Release(t)
    <3>1. Free' = Free \union {Owned[t]} /\ Owned' = [Owned EXCEPT ![t] = 0]
      BY <2>3 DEF Abstract!Release, Owned
    <3> QED BY <1>3, <2>1, <3>1
  <2> QED BY <1>5, <2>2, <2>3
<1>6. ~ UNCHANGED << Free, Owned >>
  BY <1>3
<1>7. \/ \E t \in Transfers : ListenFails(t)
      \/ \E t \in Transfers : Abstract!Acquire(t) \/ Abstract!Release(t)
  BY <1>6, StepKinds
<1> QED BY <1>4, <1>5, <1>7

\* Whatever the sequence of choices and releases, a port that was free or in use
\* stops being so only when net.Listen fails on it.
THEOREM NothingLost ==
    ASSUME Proper
    PROVE  Spec => LostByListen
<1>1. IInv /\ IInv' /\ [Next]_vars =>
        [\A p \in PortRange :
            Kept(p) /\ ~Kept(p)' =>
                \E t \in Transfers :
                    pc[t] = "chosen" /\ port[t] = p /\ pc'[t] # "listening"]_vars
  BY LostStep
<1> QED BY <1>1, Invariance, PTL DEF Spec, LostByListen
=============================================================================
