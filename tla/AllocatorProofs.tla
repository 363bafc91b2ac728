-------------------------- MODULE AllocatorProofs --------------------------
(***************************************************************************)
(* Proofs about Allocator, for every number of ports, channels and         *)
(* iterations, every speedup and flit length, with and without parallel    *)
(* requests.                                                               *)
(*                                                                         *)
(* A petition stays valid until it is attended, because a grant takes the  *)
(* flit of a channel that has no petition at another output: the flit at   *)
(* its head asks for one output only (PetitionsValid is inductive once no  *)
(* petition outlives its iteration, Positions).  The crossbar ports of an  *)
(* input are those its channels use and those its petitions may come to    *)
(* use (Budget): a grant turns one into the other, and a petition is filed *)
(* only while a port is free.  So the inputs keep to the speedup if they   *)
(* make one request per iteration; with parallel requests the check of     *)
(* inputArbiter::checkPort, which does not count the petitions filed       *)
(* already, lets an input have up to twice the speedup less one.           *)
(***************************************************************************)
EXTENDS Allocator, FiniteSetTheorems, WellFoundedInduction, TLAPS

-----------------------------------------------------------------------------
(* Every set of natural numbers has a least one.                           *)
LEMMA NatMinimum ==
  ASSUME NEW S \in SUBSET Nat, S # {}
  PROVE  \E m \in S : \A n \in S : m <= n
<1> DEFINE less == {p \in Nat \X Nat : p[1] < p[2]}
<1>0. OpToRel(<, Nat) = less
  BY DEF OpToRel
<1>1. \A n, m \in Nat : <<n, m>> \in less <=> n < m
  OBVIOUS
<1> HIDE DEF less
<1>2. PICK m \in S : \A n \in S : ~(<<n, m>> \in less)
  BY <1>0, NatLessThanWellFounded, WFMin
<1>3. \A n \in S : n \in Nat /\ m \in Nat /\ ~(n < m)
  BY <1>1, <1>2
<1>4. \A n \in S : m <= n
  BY <1>3
<1> QED BY <1>4


(* The channels of an input that send, the outputs it has a petition at.   *)
Sending(i) == {v \in Channels : sending[i][v] > 0}
Pending(i) == {o \in OutPorts : petitions[o][i] # None}

Positions ==
    /\ phase = "input" => port \in InPorts
    /\ phase = "output" => port \in OutPorts
    /\ phase \in {"between", "end"} => port = 1 /\ petitions = NoPetitions

(* An input that has not had its turn has no petitions; the one that has   *)
(* it has at most one for each request it made.                            *)
Requested ==
    phase = "input" =>
        \A i \in InPorts :
            /\ i > port => Pending(i) = {}
            /\ i = port => Cardinality(Pending(i)) <= request - 1

Budget ==
    \A i \in InPorts :
        Cardinality(Sending(i)) + Cardinality(Pending(i)) <= Speedup - 1 + MaxRequests

(* Every port is in its list once; in the lists of the output arbiters,    *)
(* the injection ports are behind the transit ports.                       *)
Permutation(list, n) ==
    /\ list \in [1..n -> 1..n]
    /\ \A j, k \in 1..n : list[j] = list[k] => j = k
    /\ \A p \in 1..n : \E k \in 1..n : list[k] = p

Ordered ==
    /\ \A i \in InPorts : Permutation(inList[i], VCs)
    /\ \A o \in OutPorts :
        /\ Permutation(outList[o], Inputs)
        /\ \A k \in InPorts :
             outList[o][k] <= InjectionPorts <=> k > Inputs - InjectionPorts

IInv ==
    /\ TypeOK
    /\ Positions
    /\ PetitionsValid
    /\ Requested
    /\ Budget
    /\ Ordered

-----------------------------------------------------------------------------
LEMMA Sizes ==
  /\ Inputs \in Nat \ {0} /\ VCs \in Nat \ {0} /\ Outputs \in Nat \ {0}
  /\ InjectionPorts \in Nat /\ InjectionPorts < Inputs
  /\ Iterations \in Nat \ {0} /\ Speedup \in Nat \ {0}
  /\ MaxRequests \in Nat \ {0}
  /\ FlitSize \in Nat \ {0} /\ XbarLength \in 1..FlitSize
  /\ ~ParallelRequests => MaxRequests = 1
<1>1. MaxRequests = Speedup \/ MaxRequests = 1
  BY DEF MaxRequests
<1>2. ~ParallelRequests => MaxRequests = 1
  BY DEF MaxRequests
<1> QED BY <1>1, <1>2, SizeAssumption DEF SizeAssumption

(* The sets that are counted are finite, in every state.                   *)
LEMMA Finite ==
  \A i : /\ IsFiniteSet(Sending(i)) /\ Cardinality(Sending(i)) \in Nat
         /\ IsFiniteSet(Pending(i)) /\ Cardinality(Pending(i)) \in Nat
         /\ IsFiniteSet(Sending(i)') /\ Cardinality(Sending(i)') \in Nat
         /\ IsFiniteSet(Pending(i)') /\ Cardinality(Pending(i)') \in Nat
<1>1. IsFiniteSet(1..VCs) /\ IsFiniteSet(1..Outputs)
  BY Sizes, FS_Interval
<1>2. \A i : /\ Sending(i) \in SUBSET (1..VCs) /\ Pending(i) \in SUBSET (1..Outputs)
             /\ Sending(i)' \in SUBSET (1..VCs) /\ Pending(i)' \in SUBSET (1..Outputs)
  BY DEF Sending, Channels, Pending, OutPorts
<1> QED BY <1>1, <1>2, FS_Subset, FS_CardinalityType

(* A table with one entry changed.                                         *)
LEMMA EntryChanged ==
  ASSUME NEW S, NEW T, NEW R, NEW f \in [S -> [T -> R]],
         NEW a \in S, NEW b \in T, NEW c \in R,
         NEW g, g = [f EXCEPT ![a][b] = c]
  PROVE  /\ g \in [S -> [T -> R]]
         /\ g[a][b] = c
         /\ \A x \in S : \A y \in T : x # a \/ y # b => g[x][y] = f[x][y]
OBVIOUS

(* Moving a port back keeps the list a permutation, and the places behind  *)
(* the last one and before the port.                                       *)
LEMMA MoveBackProperties ==
  ASSUME NEW n \in Nat, NEW list, Permutation(list, n),
         NEW last \in 1..n, NEW at \in 1..last
  PROVE  /\ Permutation(MoveBack(list, list[at], last), n)
         /\ \A j \in 1..n :
              MoveBack(list, list[at], last)[j]
                = IF j < at \/ j > last THEN list[j]
                  ELSE IF j < last THEN list[j + 1] ELSE list[at]
<1> DEFINE k == CHOOSE k \in 1..last : list[k] = list[at]
           new == MoveBack(list, list[at], last)
<1>1. k \in 1..last /\ list[k] = list[at]
  OBVIOUS
<1>2. k = at
  BY <1>1 DEF Permutation
<1> HIDE DEF k
<1>3. DOMAIN list = 1..n
  BY DEF Permutation
<1>4. new = [j \in 1..n |-> IF j < at \/ j > last THEN list[j]
                            ELSE IF j < last THEN list[j + 1] ELSE list[at]]
  BY <1>2, <1>3, Zenon DEF MoveBack, k
<1> HIDE DEF new
<1>5. \A j \in 1..n : new[j] = IF j < at \/ j > last THEN list[j]
                               ELSE IF j < last THEN list[j + 1] ELSE list[at]
  BY <1>4
<1>6. list \in [1..n -> 1..n]
  BY DEF Permutation
<1>7. \A j, m \in 1..n : list[j] = list[m] => j = m
  BY DEF Permutation
<1>8. new \in [1..n -> 1..n]
  BY <1>4, <1>6
<1>9. ASSUME NEW j \in 1..n, NEW m \in 1..n, new[j] = new[m] PROVE j = m
  <2> DEFINE from(x) == IF x < at \/ x > last THEN x ELSE IF x < last THEN x + 1 ELSE at
  <2>1. \A x \in 1..n : from(x) \in 1..n /\ new[x] = list[from(x)]
    BY <1>5
  <2>2. from(j) = from(m)
    <3> HIDE DEF from
    <3> QED BY <1>7, <1>9, <2>1
  <2> QED BY <2>2
<1>10. ASSUME NEW p \in 1..n PROVE \E j \in 1..n : new[j] = p
  <2>1. PICK m \in 1..n : list[m] = p
    BY DEF Permutation
  <2>2. CASE m < at \/ m > last
    BY <1>5, <2>1, <2>2
  <2>3. CASE m = at
    <3>1. new[last] = list[at] /\ last \in 1..n
      BY <1>5
    <3> QED BY <2>1, <2>3, <3>1
  <2>4. CASE m > at /\ m <= last
    <3>1. m - 1 \in 1..n /\ new[m - 1] = list[m - 1 + 1]
      BY <1>5, <2>4
    <3>2. m - 1 + 1 = m
      OBVIOUS
    <3> QED BY <2>1, <3>1, <3>2
  <2> QED BY <2>2, <2>3, <2>4
<1>11. Permutation(new, n)
  BY <1>8, <1>9, <1>10 DEF Permutation
<1> QED BY <1>5, <1>11 DEF new

-----------------------------------------------------------------------------
LEMMA InvInit == Init => IInv
<1> SUFFICES ASSUME Init PROVE IInv
  OBVIOUS
<1> USE Sizes DEF InPorts, OutPorts, Channels, None
<1>1. TypeOK
  <2>1. outList \in [OutPorts -> [InPorts -> InPorts]]
    BY DEF Init
  <2>2. inList \in [InPorts -> [Channels -> Channels]]
    BY DEF Init
  <2>3. petitions \in [OutPorts -> [InPorts -> Channels \cup {None}]]
    BY DEF Init, NoPetitions
  <2>4. /\ phase \in {"between", "input", "output", "end"}
        /\ iteration \in 1..Iterations /\ port \in InPorts \cup OutPorts
        /\ request \in 1..MaxRequests
        /\ reservedInPort \subseteq Channels /\ reservedOutPort \subseteq OutPorts
    BY DEF Init
  <2>5. /\ wants \in [InPorts -> [Channels -> OutPorts \cup {None}]]
        /\ credit \in [InPorts -> [Channels -> BOOLEAN]]
        /\ sending \in [InPorts -> [Channels -> 0..FlitSize]]
        /\ busy \in [OutPorts -> 0..FlitSize]
    BY DEF Init
  <2> QED BY <2>1, <2>2, <2>3, <2>4, <2>5 DEF TypeOK
<1>2. Positions /\ Requested
  BY DEF Init, Positions, Requested
<1>3. PetitionsValid
  BY DEF Init, PetitionsValid, NoPetitions
<1>4. Budget
  <2> SUFFICES ASSUME NEW i \in InPorts
               PROVE  Cardinality(Sending(i)) + Cardinality(Pending(i))
                        <= Speedup - 1 + MaxRequests
    BY DEF Budget
  <2>1. Sending(i) = {} /\ Pending(i) = {}
    BY DEF Init, Sending, Pending, NoPetitions
  <2> QED BY <2>1, FS_EmptySet
<1>5. Ordered
  <2>1. \A i \in InPorts : Permutation(inList[i], VCs)
    BY DEF Init, Permutation
  <2>2. ASSUME NEW o \in OutPorts
        PROVE  /\ Permutation(outList[o], Inputs)
               /\ \A k \in InPorts :
                    outList[o][k] <= InjectionPorts <=> k > Inputs - InjectionPorts
    <3>1. \A k \in 1..Inputs :
            outList[o][k] = IF k + InjectionPorts > Inputs
                            THEN k + InjectionPorts - Inputs ELSE k + InjectionPorts
      BY DEF Init
    <3>2. outList[o] \in [1..Inputs -> 1..Inputs]
      BY <1>1 DEF TypeOK
    <3>3. ASSUME NEW p \in 1..Inputs PROVE \E k \in 1..Inputs : outList[o][k] = p
      <4>1. CASE p > InjectionPorts
        <5>1. p - InjectionPorts \in 1..Inputs /\ outList[o][p - InjectionPorts] = p
          BY <3>1, <4>1
        <5> QED BY <5>1
      <4>2. CASE p <= InjectionPorts
        <5>1. /\ p + Inputs - InjectionPorts \in 1..Inputs
              /\ outList[o][p + Inputs - InjectionPorts] = p
          BY <3>1, <4>2
        <5> QED BY <5>1
      <4> QED BY <4>1, <4>2
    <3>4. \A j, k \in 1..Inputs : outList[o][j] = outList[o][k] => j = k
      BY <3>1
    <3>5. Permutation(outList[o], Inputs)
      BY <3>2, <3>3, <3>4 DEF Permutation
    <3>6. \A k \in 1..Inputs :
            outList[o][k] <= InjectionPorts <=> k > Inputs - InjectionPorts
      BY <3>1
    <3> QED BY <3>5, <3>6
  <2> QED BY <2>1, <2>2 DEF Ordered
<1> QED BY <1>1, <1>2, <1>3, <1>4, <1>5 DEF IInv

-----------------------------------------------------------------------------
(* Where an input arbiter's call leads.                                    *)
LEMMA AfterRequestWhere ==
  ASSUME TypeOK, Positions, phase = "input", AfterRequest
  PROVE  /\ phase' \in {"input", "output"} /\ iteration' = iteration
         /\ port' \in InPorts \cup OutPorts /\ request' \in 1..MaxRequests
         /\ \/ phase' = "input" /\ port' = port /\ request' = request + 1
            \/ phase' = "input" /\ port' = port + 1 /\ port' \in InPorts /\ request' = 1
            \/ phase' = "output" /\ port' = 1
<1> USE Sizes DEF InPorts, OutPorts
<1>1. request \in 1..MaxRequests /\ port \in 1..Inputs
  BY DEF TypeOK, Positions
<1> QED BY <1>1 DEF AfterRequest

(* Where an output arbiter's call leads.                                   *)
LEMMA AfterGrantWhere ==
  ASSUME TypeOK, Positions, phase = "output", NEW filed, AfterGrant(filed)
  PROVE  /\ phase' \in {"input", "output", "end"} /\ iteration' \in 1..Iterations
         /\ \/ phase' = "output" /\ port' \in OutPorts /\ petitions' = filed
            \/ phase' = "input" /\ port' = 1 /\ petitions' = NoPetitions
            \/ phase' = "end" /\ port' = 1 /\ petitions' = NoPetitions
<1> USE Sizes DEF InPorts, OutPorts
<1>1. port \in 1..Outputs /\ iteration \in 1..Iterations
  BY DEF TypeOK, Positions
<1> QED BY <1>1 DEF AfterGrant

(* What a call of an input arbiter does to the petitions: those of other   *)
(* inputs stay, and its own are those it had, but for at most one.         *)
LEMMA PetitionsAfterRequest ==
  ASSUME TypeOK, Positions, Requested, Budget, phase = "input", AfterRequest,
         NEW here \in InPorts, here = port,
         \A o \in OutPorts : \A i \in InPorts \ {here} : petitions'[o][i] = petitions[o][i],
         NEW new \in OutPorts, Pending(here)' \subseteq Pending(here) \cup {new},
         ~InputFree(here) => Pending(here)' \subseteq Pending(here),
         sending' = sending
  PROVE  Requested' /\ Budget'
<1> USE Sizes DEF InPorts, OutPorts
<1>1. request \in 1..MaxRequests /\ here = port /\ here \in 1..Inputs
  BY DEF TypeOK, Positions
<1>2. \A i \in InPorts \ {here} : Pending(i)' = Pending(i)
  BY DEF Pending
<1>3. Cardinality(Pending(here)) \in Nat /\ IsFiniteSet(Pending(here))
  BY Finite
<1>4. /\ Cardinality(Pending(here)') \in Nat /\ IsFiniteSet(Pending(here)')
      /\ Cardinality(Sending(here)) \in Nat
  BY Finite
<1>5. /\ IsFiniteSet(Pending(here) \cup {new})
      /\ Cardinality(Pending(here) \cup {new}) \in Nat
      /\ Cardinality(Pending(here) \cup {new}) <= Cardinality(Pending(here)) + 1
  <2>1. /\ IsFiniteSet(Pending(here) \cup {new})
        /\ \/ Cardinality(Pending(here) \cup {new}) = Cardinality(Pending(here))
           \/ Cardinality(Pending(here) \cup {new}) = Cardinality(Pending(here)) + 1
    BY <1>3, FS_AddElement
  <2> QED BY <1>3, <2>1
<1>6. Cardinality(Pending(here)') <= Cardinality(Pending(here)) + 1
  BY <1>3, <1>4, <1>5, FS_Subset
<1>7. Cardinality(Pending(here)) <= request - 1
  BY DEF Requested
<1>8. Cardinality(Pending(here)') <= request
  BY <1>1, <1>3, <1>4, <1>6, <1>7
<1>9. Requested'
  <2>1. CASE phase' = "input" /\ port' = port /\ request' = request + 1
    BY <1>1, <1>2, <1>4, <1>8, <2>1 DEF Requested
  <2>2. CASE phase' = "input" /\ port' = port + 1 /\ port' \in InPorts /\ request' = 1
    <3>1. \A i \in InPorts : i > port => Pending(i)' = {}
      BY <1>1, <1>2 DEF Requested
    <3>2. \A i \in InPorts : i >= port' => Pending(i)' = {}
      BY <1>1, <2>2, <3>1
    <3> QED BY <1>1, <2>2, <3>2, FS_EmptySet DEF Requested
  <2>3. CASE phase' = "output"
    BY <2>3 DEF Requested
  <2> QED BY <2>1, <2>2, <2>3, AfterRequestWhere
<1>10. Budget'
  <2> SUFFICES ASSUME NEW i \in InPorts
               PROVE  Cardinality(Sending(i)') + Cardinality(Pending(i)')
                        <= Speedup - 1 + MaxRequests
    BY DEF Budget
  <2>1. Sending(i)' = Sending(i)
    BY DEF Sending
  <2>2. Cardinality(Sending(i)) + Cardinality(Pending(i)) <= Speedup - 1 + MaxRequests
    BY DEF Budget
  <2>3. CASE i # here
    BY <1>2, <2>1, <2>2, <2>3
  <2>4. CASE i = here /\ ~InputFree(here)
    <3>1. Cardinality(Pending(here)') <= Cardinality(Pending(here))
      BY <1>3, <2>4, FS_Subset
    <3> QED BY <1>3, <1>4, <2>1, <2>2, <2>4, <3>1
  <2>5. CASE i = here /\ InputFree(here)
    <3>1. Cardinality(Sending(here)) < Speedup
      BY <2>5 DEF InputFree, Sending
    <3> QED BY <1>1, <1>4, <1>8, <2>1, <2>5, <3>1
  <2> QED BY <2>3, <2>4, <2>5
<1> QED BY <1>9, <1>10

-----------------------------------------------------------------------------
LEMMA NoRequestInv == IInv /\ NoRequest => IInv'
<1> SUFFICES ASSUME IInv, NoRequest PROVE IInv'
  OBVIOUS
<1> USE Sizes DEF InPorts, OutPorts, Channels, None
<1>1. /\ TypeOK /\ Positions /\ PetitionsValid /\ Requested /\ Budget /\ Ordered
      /\ phase = "input" /\ AfterRequest /\ port \in InPorts
      /\ wants' = wants /\ credit' = credit /\ sending' = sending /\ busy' = busy
      /\ inList' = inList /\ outList' = outList
  BY DEF IInv, NoRequest, Positions, flits, timers, lists
<1> DEFINE cleared(o) == InputFree(port) /\ o \in Cleared(port, VCs)
<1>2. petitions' = [o \in OutPorts |-> [petitions[o] EXCEPT ![port] =
                      IF cleared(o) THEN None ELSE @]]
  BY DEF NoRequest
<1> HIDE DEF cleared
<1>3. petitions \in [OutPorts -> [InPorts -> Channels \cup {None}]]
  BY <1>1 DEF TypeOK
<1>4. \A o \in OutPorts : \A i \in InPorts :
        petitions'[o][i] = IF i = port /\ cleared(o) THEN None ELSE petitions[o][i]
  BY <1>2, <1>3
<1>5. TypeOK'
  <2>1. petitions' \in [OutPorts -> [InPorts -> Channels \cup {None}]]
    BY <1>2, <1>3
  <2>2. reservedInPort' \subseteq Channels /\ reservedOutPort' \subseteq OutPorts
    BY <1>1 DEF NoRequest, Reserve, TypeOK
  <2> QED BY <1>1, <2>1, <2>2, AfterRequestWhere DEF TypeOK
<1>6. Positions'
  BY <1>1, AfterRequestWhere DEF Positions
<1>7. PetitionsValid'
  BY <1>1, <1>4 DEF PetitionsValid
<1>8. Requested' /\ Budget'
  <2>1. PICK here \in InPorts : here = port
    BY <1>1
  <2>2. \A o \in OutPorts : \A i \in InPorts \ {here} : petitions'[o][i] = petitions[o][i]
    BY <1>4, <2>1
  <2>3. Pending(here)' \subseteq Pending(here)
    BY <1>4, <2>1 DEF Pending
  <2>4. 1 \in OutPorts
    OBVIOUS
  <2> QED BY <1>1, <2>1, <2>2, <2>3, <2>4, PetitionsAfterRequest
<1>9. Ordered'
  BY <1>1 DEF Ordered
<1> QED BY <1>5, <1>6, <1>7, <1>8, <1>9 DEF IInv

LEMMA RequestInv == IInv /\ Request => IInv'
<1> SUFFICES ASSUME IInv, Request PROVE IInv'
  OBVIOUS
<1> USE Sizes DEF InPorts, OutPorts, Channels, None
<1>1. /\ TypeOK /\ Positions /\ PetitionsValid /\ Requested /\ Budget /\ Ordered
      /\ phase = "input" /\ AfterRequest /\ port \in InPorts /\ InputFree(port)
      /\ wants' = wants /\ credit' = credit /\ sending' = sending /\ busy' = busy
      /\ outList' = outList
  BY DEF IInv, Request, Positions, flits, timers
<1> DEFINE k == CHOOSE k \in Stops(port) : \A l \in Stops(port) : k <= l
           v == inList[port][k]
           o == wants[port][v]
           filed == o \notin reservedOutPort
           cleared(p) == p \in Cleared(port, k - 1)
<1>2. k \in Stops(port)
  <2>1. Stops(port) # {}
    BY DEF Request
  <2>2. Stops(port) \in SUBSET Nat
    BY DEF Stops
  <2>3. \E m \in Stops(port) : \A n \in Stops(port) : m <= n
    BY <2>1, <2>2, NatMinimum
  <2> QED BY <2>3
<1>3. /\ petitions' = [p \in OutPorts |-> [petitions[p] EXCEPT ![port] =
                         IF p = o /\ filed THEN v ELSE IF cleared(p) THEN None ELSE @]]
      /\ IF filed THEN Reserve(reservedInPort \cup {v}, reservedOutPort \cup {o})
                  ELSE Reserve(reservedInPort, reservedOutPort)
      /\ inList' = [inList EXCEPT ![port] = MoveBack(@, v, VCs)]
  BY Zenon DEF Request
<1>4. k \in Channels /\ CanTry(port, v) /\ PetitionCondition(port, v)
  BY <1>2 DEF Stops
<1> HIDE DEF k, cleared
<1>5. v \in Channels /\ o \in OutPorts /\ sending[port][v] = 0 /\ credit[port][v]
  <2>1. v \in Channels
    BY <1>1, <1>4 DEF TypeOK
  <2> HIDE DEF v
  <2>2. credit[port][v]
    BY <1>4 DEF PetitionCondition
  <2>3. wants[port][v] \in OutPorts \cup {None}
    <3>1. wants \in [InPorts -> [Channels -> OutPorts \cup {None}]]
      BY <1>1 DEF TypeOK
    <3>2. wants[port] \in [Channels -> OutPorts \cup {None}]
      BY <1>1, <3>1
    <3> QED BY <2>1, <3>2
  <2>4. wants[port][v] # None /\ sending[port][v] = 0
    BY <1>4 DEF CanTry
  <2> QED BY <2>1, <2>2, <2>3, <2>4
<1>6. petitions \in [OutPorts -> [InPorts -> Channels \cup {None}]]
  BY <1>1 DEF TypeOK
<1> HIDE DEF v, o, filed
<1>7. \A p \in OutPorts : \A i \in InPorts :
        petitions'[p][i] = IF i = port THEN IF p = o /\ filed THEN v
                                            ELSE IF cleared(p) THEN None ELSE petitions[p][i]
                           ELSE petitions[p][i]
  BY <1>3, <1>6
<1>8. Permutation(inList'[port], VCs) /\ \A i \in InPorts : i # port => inList'[i] = inList[i]
  <2>1. inList'[port] = MoveBack(inList[port], inList[port][k], VCs)
    BY <1>1, <1>3 DEF TypeOK, v
  <2>2. Permutation(inList[port], VCs)
    BY <1>1 DEF Ordered
  <2>3. Permutation(inList'[port], VCs)
    BY <1>4, <2>1, <2>2, MoveBackProperties
  <2>4. \A i \in InPorts : i # port => inList'[i] = inList[i]
    BY <1>1, <1>3 DEF TypeOK
  <2> QED BY <2>3, <2>4
<1>9. TypeOK'
  <2>1. petitions' \in [OutPorts -> [InPorts -> Channels \cup {None}]]
    <3>1. ASSUME NEW p \in OutPorts, NEW i \in InPorts
          PROVE  petitions'[p][i] \in Channels \cup {None}
      <4>1. petitions'[p][i] \in {v, None, petitions[p][i]}
        BY <1>7
      <4> QED BY <1>5, <1>6, <4>1
    <3>2. /\ DOMAIN petitions' = OutPorts
          /\ \A p \in OutPorts :
               petitions'[p] = [petitions[p] EXCEPT ![port] = petitions'[p][port]]
      BY <1>1, <1>3, <1>6
    <3>3. \A p \in OutPorts : petitions'[p] \in [InPorts -> Channels \cup {None}]
      BY <1>1, <1>6, <3>1, <3>2
    <3>4. petitions' = [p \in OutPorts |-> petitions'[p]]
      BY <1>3
    <3> QED BY <3>3, <3>4
  <2>2. reservedInPort' \subseteq Channels /\ reservedOutPort' \subseteq OutPorts
    <3>1. reservedInPort \subseteq Channels /\ reservedOutPort \subseteq OutPorts
      BY <1>1 DEF TypeOK
    <3>2. CASE filed
      BY <1>3, <1>5, <3>1, <3>2 DEF Reserve
    <3>3. CASE ~filed
      BY <1>3, <3>1, <3>3 DEF Reserve
    <3> QED BY <3>2, <3>3
  <2>3. inList' \in [InPorts -> [Channels -> Channels]]
    <3>1. inList'[port] \in [Channels -> Channels]
      BY <1>8 DEF Permutation
    <3>2. inList' = [inList EXCEPT ![port] = inList'[port]]
      BY <1>1, <1>3 DEF TypeOK
    <3> QED BY <1>1, <3>1, <3>2 DEF TypeOK
  <2> QED BY <1>1, <2>1, <2>2, <2>3, AfterRequestWhere DEF TypeOK
<1>10. Positions'
  BY <1>1, AfterRequestWhere DEF Positions
<1>11. PetitionsValid'
  <2> SUFFICES ASSUME NEW p \in OutPorts, NEW i \in InPorts, petitions'[p][i] # None
               PROVE  /\ wants[i][petitions'[p][i]] = p
                      /\ sending[i][petitions'[p][i]] = 0
                      /\ credit[i][petitions'[p][i]]
    BY <1>1 DEF PetitionsValid
  <2>1. CASE i = port /\ p = o /\ filed
    <3>1. petitions'[p][i] = v
      BY <1>7, <2>1
    <3> QED BY <1>5, <2>1, <3>1 DEF o
  <2>2. CASE ~(i = port /\ p = o /\ filed)
    <3>1. petitions'[p][i] = petitions[p][i]
      BY <1>7, <2>2
    <3> QED BY <1>1, <3>1 DEF PetitionsValid
  <2> QED BY <2>1, <2>2
<1>12. Requested' /\ Budget'
  <2>1. PICK here \in InPorts : here = port
    BY <1>1
  <2>2. \A p \in OutPorts : \A i \in InPorts \ {here} : petitions'[p][i] = petitions[p][i]
    BY <1>7, <2>1
  <2>3. Pending(here)' \subseteq Pending(here) \cup {o}
    BY <1>7, <2>1 DEF Pending
  <2> QED BY <1>1, <1>5, <2>1, <2>2, <2>3, PetitionsAfterRequest
<1>13. Ordered'
  BY <1>1, <1>8 DEF Ordered
<1> QED BY <1>9, <1>10, <1>11, <1>12, <1>13 DEF IInv

LEMMA AfterGrantInv ==
  ASSUME IInv, phase = "output", NEW filed, AfterGrant(filed), request' = request
  PROVE  Positions' /\ Requested'
<1> USE Sizes DEF InPorts, OutPorts
<1>1. /\ TypeOK /\ Positions
      /\ \/ phase' = "output" /\ port' \in OutPorts
         \/ phase' = "input" /\ port' = 1 /\ petitions' = NoPetitions
         \/ phase' = "end" /\ port' = 1 /\ petitions' = NoPetitions
  BY AfterGrantWhere DEF IInv
<1>2. Positions'
  BY <1>1 DEF Positions
<1>3. Requested'
  <2>1. CASE phase' = "input" /\ petitions' = NoPetitions
    <3>1. \A i \in InPorts : Pending(i)' = {}
      BY <2>1 DEF Pending, NoPetitions
    <3>2. request \in 1..MaxRequests
      BY <1>1 DEF TypeOK
    <3> QED BY <3>1, <3>2, FS_EmptySet DEF Requested
  <2>2. CASE phase' # "input"
    BY <2>2 DEF Requested
  <2> QED BY <1>1, <2>1, <2>2
<1> QED BY <1>2, <1>3

LEMMA NoGrantInv == IInv /\ NoGrant => IInv'
<1> SUFFICES ASSUME IInv, NoGrant PROVE IInv'
  OBVIOUS
<1> USE Sizes DEF InPorts, OutPorts, Channels, None
<1>1. /\ TypeOK /\ Positions /\ PetitionsValid /\ Budget /\ Ordered
      /\ phase = "output" /\ AfterGrant(petitions) /\ request' = request
      /\ wants' = wants /\ credit' = credit /\ sending' = sending /\ busy' = busy
      /\ inList' = inList /\ outList' = outList
      /\ reservedInPort' = reservedInPort /\ reservedOutPort' = reservedOutPort
  BY DEF IInv, NoGrant, flits, timers, lists
<1>2. petitions' = petitions \/ petitions' = NoPetitions
  BY <1>1, AfterGrantWhere
<1>3. TypeOK'
  <2>1. petitions' \in [OutPorts -> [InPorts -> Channels \cup {None}]]
    <3>1. NoPetitions \in [OutPorts -> [InPorts -> Channels \cup {None}]]
      BY DEF NoPetitions
    <3>2. petitions \in [OutPorts -> [InPorts -> Channels \cup {None}]]
      BY <1>1 DEF TypeOK
    <3> QED BY <1>2, <3>1, <3>2
  <2>2. /\ phase' \in {"between", "input", "output", "end"} /\ iteration' \in 1..Iterations
        /\ port' \in InPorts \cup OutPorts
    BY <1>1, AfterGrantWhere
  <2> QED BY <1>1, <2>1, <2>2 DEF TypeOK
<1>4. PetitionsValid'
  BY <1>1, <1>2 DEF PetitionsValid, NoPetitions
<1>5. Budget'
  <2> SUFFICES ASSUME NEW i \in InPorts
               PROVE  Cardinality(Sending(i)') + Cardinality(Pending(i)')
                        <= Speedup - 1 + MaxRequests
    BY DEF Budget
  <2>1. Sending(i)' = Sending(i) /\ Pending(i)' \subseteq Pending(i)
    BY <1>1, <1>2 DEF Sending, Pending, NoPetitions
  <2>2. Cardinality(Pending(i)') <= Cardinality(Pending(i))
    BY <2>1, Finite, FS_Subset
  <2>3. Cardinality(Sending(i)) + Cardinality(Pending(i)) <= Speedup - 1 + MaxRequests
    BY <1>1 DEF Budget
  <2> QED BY <2>1, <2>2, <2>3, Finite
<1>6. Ordered'
  BY <1>1 DEF Ordered
<1> QED BY <1>1, <1>3, <1>4, <1>5, <1>6, AfterGrantInv DEF IInv

LEMMA GrantInv == IInv /\ Grant => IInv'
<1> SUFFICES ASSUME IInv, Grant PROVE IInv'
  OBVIOUS
<1>1. /\ TypeOK /\ Positions /\ PetitionsValid /\ Budget /\ Ordered
      /\ phase = "output" /\ port \in OutPorts /\ request' = request
      /\ inList' = inList
      /\ reservedInPort' = reservedInPort /\ reservedOutPort' = reservedOutPort
  BY DEF IInv, Grant, Positions
<1>2. PICK k \in InPorts :
        /\ petitions[port][outList[port][k]] # None
        /\ outList' = [outList EXCEPT ![port] = ReorderOutputs(@, outList[port][k])]
        /\ wants' = [wants EXCEPT
             ![outList[port][k]][petitions[port][outList[port][k]]] = None]
        /\ credit' = [credit EXCEPT
             ![outList[port][k]][petitions[port][outList[port][k]]] = TRUE]
        /\ \E length \in XbarLength..FlitSize :
             sending' = [sending EXCEPT
               ![outList[port][k]][petitions[port][outList[port][k]]] = length]
        /\ busy' = [busy EXCEPT ![port] = XbarLength]
        /\ AfterGrant([petitions EXCEPT ![port][outList[port][k]] = None])
  BY Zenon DEF Grant
<1>types. /\ wants \in [InPorts -> [Channels -> OutPorts \cup {None}]]
          /\ credit \in [InPorts -> [Channels -> BOOLEAN]]
          /\ sending \in [InPorts -> [Channels -> 0..FlitSize]]
          /\ petitions \in [OutPorts -> [InPorts -> Channels \cup {None}]]
  BY <1>1 DEF TypeOK
<1> DEFINE i == outList[port][k]
           v == petitions[port][i]
           filed == [petitions EXCEPT ![port][i] = None]
<1>3. i \in InPorts /\ \A o \in OutPorts : outList[o] \in [InPorts -> InPorts]
  BY <1>1 DEF TypeOK
<1>4. v \in Channels /\ wants[i][v] = port /\ sending[i][v] = 0
  <2>1. petitions \in [OutPorts -> [InPorts -> Channels \cup {None}]]
    BY <1>1 DEF TypeOK
  <2> HIDE DEF i
  <2>2. petitions[port] \in [InPorts -> Channels \cup {None}]
    BY <1>1, <2>1
  <2>3. v \in Channels
    BY <1>2, <1>3, <2>2 DEF i
  <2> QED BY <1>1, <1>2, <1>3, <2>3 DEF PetitionsValid, i
<1>5. PICK length \in XbarLength..FlitSize : sending' = [sending EXCEPT ![i][v] = length]
  BY <1>2
<1>length. length \in 0..FlitSize /\ length > 0
  BY Sizes
<1>values. None \in OutPorts \cup {None} /\ None \in Channels \cup {None} /\ TRUE \in BOOLEAN
  OBVIOUS
<1>6. /\ outList' = [outList EXCEPT ![port] = ReorderOutputs(@, i)]
      /\ wants' = [wants EXCEPT ![i][v] = None]
      /\ credit' = [credit EXCEPT ![i][v] = TRUE]
      /\ busy' = [busy EXCEPT ![port] = XbarLength]
      /\ AfterGrant(filed)
  BY <1>2
<1>7. petitions' = filed \/ petitions' = NoPetitions
  BY <1>1, <1>6, AfterGrantWhere
<1>8. /\ phase' \in {"between", "input", "output", "end"} /\ iteration' \in 1..Iterations
      /\ port' \in InPorts \cup OutPorts
  BY <1>1, <1>6, AfterGrantWhere, Sizes DEF InPorts
<1>9. Positions' /\ Requested'
  BY <1>1, <1>6, AfterGrantInv
<1> HIDE DEF i, v
<1>10. \A o \in OutPorts : \A j \in InPorts :
         /\ petitions'[o][j] \in {None, petitions[o][j]}
         /\ o = port /\ j = i => petitions'[o][j] = None
  <2>1. \A o \in OutPorts : \A j \in InPorts :
          /\ filed[o][j] \in {None, petitions[o][j]}
          /\ o = port /\ j = i => filed[o][j] = None
    BY <1>1, <1>3, <1>types, <1>values, EntryChanged
  <2>2. \A o \in OutPorts : \A j \in InPorts : NoPetitions[o][j] = None
    BY DEF NoPetitions
  <2> HIDE DEF filed
  <2> QED BY <1>7, <2>1, <2>2
<1>11. /\ \A j \in InPorts : \A u \in Channels : j # i \/ u # v =>
            /\ wants'[j][u] = wants[j][u] /\ sending'[j][u] = sending[j][u]
            /\ credit[j][u] => credit'[j][u]
       /\ wants'[i][v] = None /\ sending'[i][v] = length
  <2>1. /\ \A j \in InPorts : \A u \in Channels :
             j # i \/ u # v => wants'[j][u] = wants[j][u]
        /\ wants'[i][v] = None
    BY <1>3, <1>4, <1>6, <1>types, <1>values, EntryChanged
  <2>2. \A j \in InPorts : \A u \in Channels : credit[j][u] => credit'[j][u]
    BY <1>3, <1>4, <1>6, <1>types
  <2>3. /\ \A j \in InPorts : \A u \in Channels :
             j # i \/ u # v => sending'[j][u] = sending[j][u]
        /\ sending'[i][v] = length
    BY <1>3, <1>4, <1>5, <1>length, <1>types, <1>values, EntryChanged
  <2> QED BY <2>1, <2>2, <2>3
<1>12. Permutation(outList'[port], Inputs)
       /\ \A j \in InPorts :
            outList'[port][j] <= InjectionPorts <=> j > Inputs - InjectionPorts
  <2> USE Sizes DEF InPorts
  <2> DEFINE last == IF i <= InjectionPorts THEN Inputs ELSE Inputs - InjectionPorts
             new == MoveBack(outList[port], outList[port][k], last)
  <2>1. outList'[port] = new
    BY <1>1, <1>6 DEF TypeOK, ReorderOutputs, i
  <2>2. /\ Permutation(outList[port], Inputs)
        /\ \A j \in 1..Inputs :
             outList[port][j] <= InjectionPorts <=> j > Inputs - InjectionPorts
    BY <1>1 DEF Ordered
  <2>3. last \in 1..Inputs /\ k \in 1..last
    BY <2>2 DEF i
  <2>4. \A j \in 1..Inputs : outList[port][j] \in 1..Inputs
    BY <2>2 DEF Permutation
  <2>5. last = IF k > Inputs - InjectionPorts THEN Inputs ELSE Inputs - InjectionPorts
    BY <2>2 DEF i
  <2> HIDE DEF last
  <2>6. /\ Permutation(new, Inputs)
        /\ \A j \in 1..Inputs :
             new[j] = IF j < k \/ j > last THEN outList[port][j]
                      ELSE IF j < last THEN outList[port][j + 1] ELSE outList[port][k]
    <3> DEFINE list == outList[port]
    <3>1. Permutation(list, Inputs) /\ Inputs \in Nat
      BY <2>2
    <3> HIDE DEF list
    <3>2. /\ Permutation(MoveBack(list, list[k], last), Inputs)
          /\ \A j \in 1..Inputs :
               MoveBack(list, list[k], last)[j]
                 = IF j < k \/ j > last THEN list[j]
                   ELSE IF j < last THEN list[j + 1] ELSE list[k]
      BY <2>3, <3>1, MoveBackProperties
    <3> QED BY <3>2 DEF list
  <2> HIDE DEF new
  <2>7. ASSUME NEW j \in 1..Inputs
        PROVE  new[j] <= InjectionPorts <=> j > Inputs - InjectionPorts
    <3>1. CASE j < k \/ j > last
      BY <2>2, <2>6, <3>1
    <3>2. CASE j >= k /\ j < last
      <4>1. new[j] = outList[port][j + 1] /\ j + 1 \in 1..Inputs
        BY <2>3, <2>6, <3>2
      <4>2. new[j] <= InjectionPorts <=> j + 1 > Inputs - InjectionPorts
        BY <2>2, <4>1
      <4> QED BY <2>3, <2>5, <3>2, <4>2
    <3>3. CASE j >= k /\ j = last
      <4>1. new[j] = outList[port][k]
        BY <2>3, <2>6, <3>3
      <4>2. new[j] <= InjectionPorts <=> k > Inputs - InjectionPorts
        BY <2>2, <4>1
      <4> QED BY <2>3, <2>5, <3>3, <4>2
    <3> QED BY <2>3, <3>1, <3>2, <3>3
  <2> QED BY <2>1, <2>6, <2>7
<1>13. TypeOK'
  <2>1. petitions' \in [OutPorts -> [InPorts -> Channels \cup {None}]]
    <3>1. filed \in [OutPorts -> [InPorts -> Channels \cup {None}]]
      BY <1>1, <1>3, <1>types, <1>values, EntryChanged
    <3>2. NoPetitions \in [OutPorts -> [InPorts -> Channels \cup {None}]]
      BY DEF NoPetitions
    <3> QED BY <1>7, <3>1, <3>2
  <2>2. /\ wants' \in [InPorts -> [Channels -> OutPorts \cup {None}]]
        /\ credit' \in [InPorts -> [Channels -> BOOLEAN]]
    <3>1. wants' \in [InPorts -> [Channels -> OutPorts \cup {None}]]
      BY <1>3, <1>4, <1>6, <1>types, <1>values, EntryChanged
    <3>2. credit' \in [InPorts -> [Channels -> BOOLEAN]]
      BY <1>3, <1>4, <1>6, <1>types, <1>values, EntryChanged
    <3> QED BY <3>1, <3>2
  <2>3. sending' \in [InPorts -> [Channels -> 0..FlitSize]]
    BY <1>3, <1>4, <1>5, <1>length, <1>types, <1>values, EntryChanged
  <2>4. busy' \in [OutPorts -> 0..FlitSize]
    <3>1. busy \in [OutPorts -> 0..FlitSize] /\ XbarLength \in 0..FlitSize
      BY <1>1, Sizes DEF TypeOK
    <3> QED BY <1>6, <3>1
  <2>5. outList' \in [OutPorts -> [InPorts -> InPorts]]
    <3>1. outList'[port] \in [InPorts -> InPorts]
      BY <1>12 DEF Permutation, InPorts
    <3>2. outList' = [outList EXCEPT ![port] = outList'[port]]
      BY <1>1, <1>6 DEF TypeOK
    <3> QED BY <1>1, <3>1, <3>2 DEF TypeOK
  <2> QED BY <1>1, <1>8, <2>1, <2>2, <2>3, <2>4, <2>5 DEF TypeOK
<1>14. PetitionsValid'
  <2> SUFFICES ASSUME NEW o \in OutPorts, NEW j \in InPorts, petitions'[o][j] # None
               PROVE  /\ wants'[j][petitions'[o][j]] = o
                      /\ sending'[j][petitions'[o][j]] = 0
                      /\ credit'[j][petitions'[o][j]]
    BY DEF PetitionsValid
  <2>1. petitions'[o][j] = petitions[o][j] /\ ~(o = port /\ j = i)
    BY <1>10
  <2>2. petitions[o][j] \in Channels
    <3>1. petitions[o] \in [InPorts -> Channels \cup {None}]
      BY <1>types
    <3> QED BY <2>1, <3>1
  <2>3. /\ wants[j][petitions[o][j]] = o /\ sending[j][petitions[o][j]] = 0
        /\ credit[j][petitions[o][j]]
    BY <1>1, <2>1 DEF PetitionsValid
  <2>4. j # i \/ petitions[o][j] # v
    BY <1>4, <2>1, <2>3
  <2> QED BY <1>11, <2>1, <2>2, <2>3, <2>4
<1>15. Budget'
  <2> SUFFICES ASSUME NEW j \in InPorts
               PROVE  Cardinality(Sending(j)') + Cardinality(Pending(j)')
                        <= Speedup - 1 + MaxRequests
    BY DEF Budget
  <2>1. Cardinality(Sending(j)) + Cardinality(Pending(j)) <= Speedup - 1 + MaxRequests
    BY <1>1 DEF Budget
  <2>2. CASE j # i
    <3>1. Sending(j)' = Sending(j) /\ Pending(j)' \subseteq Pending(j)
      BY <1>10, <1>11, <2>2 DEF Sending, Pending
    <3>2. Cardinality(Pending(j)') <= Cardinality(Pending(j))
      BY <3>1, Finite, FS_Subset
    <3> QED BY <2>1, <3>1, <3>2, Finite, Sizes
  <2>3. CASE j = i
    <3>1. Sending(j)' \subseteq Sending(j) \cup {v} /\ Pending(j)' \subseteq Pending(j) \ {port}
      BY <1>10, <1>11, <2>3 DEF Sending, Pending
    <3>2. port \in Pending(j)
      BY <1>1, <1>2, <2>3 DEF Pending, i
    <3>3. /\ IsFiniteSet(Pending(j) \ {port})
          /\ Cardinality(Pending(j) \ {port}) = Cardinality(Pending(j)) - 1
      BY <3>2, Finite, FS_RemoveElement
    <3>4. Cardinality(Pending(j)') <= Cardinality(Pending(j)) - 1
      BY <3>1, <3>3, FS_Subset
    <3>5. /\ IsFiniteSet(Sending(j) \cup {v})
          /\ \/ Cardinality(Sending(j) \cup {v}) = Cardinality(Sending(j))
             \/ Cardinality(Sending(j) \cup {v}) = Cardinality(Sending(j)) + 1
      BY Finite, FS_AddElement
    <3>6. Cardinality(Sending(j)') <= Cardinality(Sending(j) \cup {v})
      BY <3>1, <3>5, FS_Subset
    <3> QED BY <2>1, <3>4, <3>5, <3>6, Finite, Sizes
  <2> QED BY <2>2, <2>3
<1>16. Ordered'
  <2>1. \A o \in OutPorts : o # port => outList'[o] = outList[o]
    <3>1. outList \in [OutPorts -> [InPorts -> InPorts]]
      BY <1>1 DEF TypeOK
    <3> QED BY <1>6, <3>1
  <2> QED BY <1>1, <1>12, <2>1 DEF Ordered
<1> QED BY <1>9, <1>13, <1>14, <1>15, <1>16 DEF IInv

(* Between cycles nothing is filed, and what sends, sends less.            *)
LEMMA BetweenInv ==
  ASSUME IInv, TypeOK', phase \in {"between", "end"}, phase' \in {"between", "input"},
         port' = port, petitions' = petitions, request' = request,
         inList' = inList, outList' = outList,
         \A i \in InPorts : \A v \in Channels : sending'[i][v] > 0 => sending[i][v] > 0
  PROVE  IInv'
<1>1. petitions = NoPetitions /\ port = 1 /\ port \in InPorts
  BY Sizes DEF IInv, Positions, InPorts
<1>2. Positions'
  BY <1>1 DEF Positions
<1>3. PetitionsValid'
  BY <1>1 DEF PetitionsValid, NoPetitions
<1>4. \A i \in InPorts : Pending(i)' = {}
  BY <1>1 DEF Pending, NoPetitions
<1>5. Requested'
  <2>1. request \in 1..MaxRequests
    BY DEF IInv, TypeOK
  <2> QED BY <1>4, <2>1, FS_EmptySet, Sizes DEF Requested
<1>6. Budget'
  <2> SUFFICES ASSUME NEW i \in InPorts
               PROVE  Cardinality(Sending(i)') + Cardinality(Pending(i)')
                        <= Speedup - 1 + MaxRequests
    BY DEF Budget
  <2>1. Sending(i)' \subseteq Sending(i)
    BY DEF Sending
  <2>2. Cardinality(Sending(i)') <= Cardinality(Sending(i)) /\ Cardinality(Pending(i)') = 0
    BY <1>4, <2>1, Finite, FS_Subset, FS_EmptySet
  <2>3. Cardinality(Sending(i)) + Cardinality(Pending(i)) <= Speedup - 1 + MaxRequests
    BY DEF IInv, Budget
  <2> QED BY <2>2, <2>3, Finite, Sizes
<1>7. Ordered'
  BY DEF IInv, Ordered
<1> QED BY <1>2, <1>3, <1>5, <1>6, <1>7 DEF IInv

LEMMA StepInv == IInv /\ [Next]_vars => IInv'
<1> SUFFICES ASSUME IInv, [Next]_vars PROVE IInv'
  OBVIOUS
<1>types. /\ wants \in [InPorts -> [Channels -> OutPorts \cup {None}]]
          /\ credit \in [InPorts -> [Channels -> BOOLEAN]]
          /\ sending \in [InPorts -> [Channels -> 0..FlitSize]]
          /\ busy \in [OutPorts -> 0..FlitSize]
  BY DEF IInv, TypeOK
<1>1. CASE Start
  <2>1. TypeOK'
    BY <1>1 DEF IInv, TypeOK, Start, flits, timers, lists
  <2> QED BY <1>1, <2>1, BetweenInv DEF Start, timers, lists
<1>2. CASE NoRequest
  BY <1>2, NoRequestInv
<1>3. CASE Request
  BY <1>3, RequestInv
<1>4. CASE NoGrant
  BY <1>4, NoGrantInv
<1>5. CASE Grant
  BY <1>5, GrantInv
<1>6. CASE Tick
  <2>1. \A n \in 0..FlitSize : Later(n) \in 0..FlitSize /\ (Later(n) > 0 => n > 0)
    BY Sizes DEF Later
  <2>2. /\ sending' = [i \in InPorts |-> [v \in Channels |-> Later(sending[i][v])]]
        /\ busy' = [o \in OutPorts |-> Later(busy[o])]
    BY <1>6 DEF Tick
  <2>3. \A i \in InPorts : \A v \in Channels : sending'[i][v] > 0 => sending[i][v] > 0
    BY <1>types, <2>1, <2>2
  <2>4. sending' \in [InPorts -> [Channels -> 0..FlitSize]] /\ busy' \in [OutPorts -> 0..FlitSize]
    BY <1>types, <2>1, <2>2
  <2>5. TypeOK'
    BY <1>6, <2>4 DEF IInv, TypeOK, Tick, flits, lists
  <2> QED BY <1>6, <2>3, <2>5, BetweenInv DEF Tick, lists
<1>7. ASSUME NEW i \in InPorts, NEW v \in Channels, NEW o \in OutPorts, Arrive(i, v, o)
      PROVE  IInv'
  <2>1. PICK c \in BOOLEAN : credit' = [credit EXCEPT ![i][v] = c]
    BY <1>7 DEF Arrive
  <2>2. wants' \in [InPorts -> [Channels -> OutPorts \cup {None}]]
    BY <1>7, <1>types, EntryChanged DEF Arrive
  <2>3. credit' \in [InPorts -> [Channels -> BOOLEAN]]
    BY <1>types, <2>1, EntryChanged
  <2>4. TypeOK'
    BY <1>7, <2>2, <2>3 DEF IInv, TypeOK, Arrive, where, timers, lists
  <2> QED BY <1>7, <2>4, BetweenInv DEF Arrive, where, timers, lists
<1>8. ASSUME NEW i \in InPorts, NEW v \in Channels, CreditChange(i, v)
      PROVE  IInv'
  <2>1. credit' \in [InPorts -> [Channels -> BOOLEAN]]
    BY <1>8, <1>types DEF CreditChange
  <2>2. TypeOK'
    BY <1>8, <2>1 DEF IInv, TypeOK, CreditChange, where, timers, lists
  <2> QED BY <1>8, <2>2, BetweenInv DEF CreditChange, where, timers, lists
<1>9. CASE UNCHANGED vars
  <2>1. /\ phase' = phase /\ iteration' = iteration /\ port' = port /\ request' = request
        /\ wants' = wants /\ credit' = credit /\ sending' = sending /\ busy' = busy
        /\ inList' = inList /\ outList' = outList /\ petitions' = petitions
        /\ reservedInPort' = reservedInPort /\ reservedOutPort' = reservedOutPort
    BY <1>9 DEF vars, where, flits, timers, lists
  <2>2. \A i \in InPorts : Sending(i)' = Sending(i) /\ Pending(i)' = Pending(i)
    BY <2>1 DEF Sending, Pending
  <2>3. TypeOK' /\ Positions' /\ PetitionsValid' /\ Ordered'
    BY <2>1 DEF IInv, TypeOK, Positions, PetitionsValid, Ordered
  <2>4. Requested' /\ Budget'
    BY <2>1, <2>2 DEF IInv, Requested, Budget
  <2> QED BY <2>3, <2>4 DEF IInv
<1> QED BY <1>1, <1>2, <1>3, <1>4, <1>5, <1>6, <1>7, <1>8, <1>9 DEF Next, Action

LEMMA Invariance == Spec => []IInv
BY InvInit, StepInv, PTL DEF Spec

-----------------------------------------------------------------------------
(* Every variable keeps to its values.                                     *)
THEOREM TypeCorrect == Spec => []TypeOK
<1>1. IInv => TypeOK
  BY DEF IInv
<1> QED BY <1>1, Invariance, PTL

(* What xbarTraversal asserts when a petition is attended                  *)
(* (switchModule.cc:1253 and 1311) holds for every petition at any time:   *)
(* no grant to another output, and no later request, takes the flit of a   *)
(* petition, its right to be sent or its credit away.                      *)
THEOREM PetitionsCorrect == Spec => []PetitionsValid
<1>1. IInv => PetitionsValid
  BY DEF IInv
<1> QED BY <1>1, Invariance, PTL

(* "the allocator speed-up is not exceeded" (inputArbiter.cc:51), if the   *)
(* inputs make one request per iteration.                                  *)
THEOREM SpeedupCorrect == ASSUME ~ParallelRequests PROVE Spec => []SpeedupKept
<1>1. IInv => SpeedupKept
  <2> SUFFICES ASSUME IInv, NEW i \in InPorts PROVE Cardinality(Sending(i)) <= Speedup
    BY DEF SpeedupKept, Sending
  <2>1. Cardinality(Sending(i)) + Cardinality(Pending(i)) <= Speedup - 1 + MaxRequests
    BY DEF IInv, Budget
  <2> QED BY <2>1, Finite, Sizes
<1> QED BY <1>1, Invariance, PTL

(* With parallel requests, checkPort does not see the petitions that an    *)
(* input has filed before in the iteration: what it keeps to is this.      *)
SpeedupBound ==
    \A i \in InPorts : Cardinality(Sending(i)) <= Speedup - 1 + MaxRequests

(* An input never sends over more than twice its crossbar ports less one,  *)
(* whatever g_issue_parallel_reqs is.                                      *)
THEOREM SpeedupBounded == Spec => []SpeedupBound
<1>1. IInv => SpeedupBound
  <2> SUFFICES ASSUME IInv, NEW i \in InPorts
               PROVE  Cardinality(Sending(i)) <= Speedup - 1 + MaxRequests
    BY DEF SpeedupBound
  <2>1. Cardinality(Sending(i)) + Cardinality(Pending(i)) <= Speedup - 1 + MaxRequests
    BY DEF IInv, Budget
  <2> QED BY <2>1, Finite, Sizes
<1> QED BY <1>1, Invariance, PTL

(* The lists of the arbiters never lose or repeat a port, and no grant     *)
(* brings an injection port before a transit port (priorityLrsArbiter):    *)
(* transit traffic keeps its priority for ever.                            *)
THEOREM ListsCorrect == Spec => []Ordered
<1>1. IInv => Ordered
  BY DEF IInv
<1> QED BY <1>1, Invariance, PTL
=============================================================================
