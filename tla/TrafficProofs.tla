---------------------------- MODULE TrafficProofs ----------------------------
(***************************************************************************)
(* Proofs about the traffic: Nodes, for any number of nodes, channels and  *)
(* buffer sizes and every configuration, Graph500, for any number of nodes,*)
(* any placement of them, any queries and coalescing.                      *)
(*                                                                         *)
(* Nodes.  In an output buffer that the flows share, the petitions up to   *)
(* each of them are never more than the credits of the channels on which   *)
(* it would be answered (Answerable).  Credits are summed over a set, and  *)
(* the prover cannot do induction over it: of the sizes of sets for which  *)
(* a fact about sums fails, it takes the least (BySize).                   *)
(* The traffic of a burst or an all-to-all ends when the counters say so:  *)
(* what a node has sent is what has arrived and the packets of it that are *)
(* still somewhere, in an injection buffer, the network or an output buffer*)
(* (Accounted), which are counted as a set of places.  So a counter cannot *)
(* be complete before the packets are.                                     *)
(*                                                                         *)
(* Graph500.  The messages of the root are not more than its queries,      *)
(* because by Bernoulli's inequality the nodes they are for are not, and   *)
(* enough for them; a message takes as many as leaves enough, and not too  *)
(* many, for the others (Filled).  The other nodes wait for a signal, which*)
(* the root never makes.                                                   *)
(***************************************************************************)
EXTENDS Nodes, Graph500, Folds, FiniteSetTheorems, WellFoundedInduction, TLAPS

-----------------------------------------------------------------------------
(* Every set of natural numbers has a least one.                           *)
LEMMA NatMinimum ==
  ASSUME NEW S \in SUBSET Nat, S # {}
  PROVE  \E m \in S : \A n \in S : m <= n
<1> DEFINE less == {p \in Nat \X Nat : p[1] < p[2]}
<1>0. OpToRel(<, Nat) = less
  BY DEF OpToRel
<1>1. \A n, m \in Nat : <<n, m>> \in less <=> n < m
  OBVIOUS
<1> HIDE DEF less
<1>2. PICK m \in S : \A n \in S : ~(<<n, m>> \in less)
  BY <1>0, NatLessThanWellFounded, WFMin
<1>3. \A n \in S : n \in Nat /\ m \in Nat /\ ~(n < m)
  BY <1>1, <1>2
<1>4. \A n \in S : m <= n
  BY <1>3
<1> QED BY <1>4

(* Numbers from 0 to k * m - 1 are m rows of k.                            *)
LEMMA DivBelow ==
  ASSUME NEW k \in Nat \ {0}, NEW m \in Nat \ {0}, NEW n \in 0..(k * m - 1)
  PROVE  n \div k \in 0..(m - 1)
OBVIOUS

-----------------------------------------------------------------------------
NodesSpec == NodesInit /\ [][NodesNext]_nodesVars

-----------------------------------------------------------------------------
(* Sums.  MapThenSumSet takes the elements of a set in an order of its own; *)
(* Adds(it, f, S) says that it has the sums over the subsets of S.         *)
One(s) == CHOOSE x \in s : TRUE

Adds(it, f, S) ==
    \A s \in SUBSET S : it[s] = IF s = {} THEN 0 ELSE f[One(s)] + it[s \ {One(s)}]

(* What is lost at y, and in a set, when one is lost at x.                 *)
Loss(y, x) == IF y = x THEN 1 ELSE 0
LossIn(s, x) == IF x \in s THEN 1 ELSE 0

(* Subsets of a finite set, and what is left of them.                      *)
LEMMA Subsets ==
  ASSUME NEW S, IsFiniteSet(S)
  PROVE  \A s \in SUBSET S : /\ IsFiniteSet(s) /\ Cardinality(s) \in Nat
                             /\ Cardinality(s) <= Cardinality(S)
                             /\ Cardinality(s) = 0 <=> s = {}
                             /\ \A x \in s : Cardinality(s \ {x}) = Cardinality(s) - 1
<1> TAKE s \in SUBSET S
<1>1. IsFiniteSet(s) /\ Cardinality(s) <= Cardinality(S)
  BY FS_Subset
<1>2. Cardinality(s) \in Nat /\ (Cardinality(s) = 0 <=> s = {})
  BY <1>1, FS_CardinalityType, FS_EmptySet
<1>3. \A x \in s : Cardinality(s \ {x}) = Cardinality(s) - 1
  BY <1>1, FS_RemoveElement
<1> QED BY <1>1, <1>2, <1>3

(* What holds of a set when it holds of the set without One holds of all.  *)
LEMMA BySize ==
  ASSUME NEW S, IsFiniteSet(S), NEW T, {} \in T,
         \A s \in SUBSET S : s # {} /\ s \ {One(s)} \in T => s \in T
  PROVE  \A s \in SUBSET S : s \in T
<1> DEFINE bad == {n \in Nat : \E s \in SUBSET S : Cardinality(s) = n /\ s \notin T}
<1> SUFFICES ASSUME bad # {} PROVE FALSE
  BY Subsets
<1>1. PICK n \in bad : \A m \in bad : n <= m
  BY NatMinimum
<1>2. PICK s \in SUBSET S : Cardinality(s) = n /\ s \notin T
  OBVIOUS
<1>3. s # {} /\ One(s) \in s
  BY <1>2 DEF One
<1>4. s \ {One(s)} \in SUBSET S /\ s \ {One(s)} \notin T
  BY <1>2, <1>3
<1>5. Cardinality(s \ {One(s)}) = n - 1 /\ n \in Nat /\ n - 1 \in Nat
  BY <1>2, <1>3, <1>4, Subsets
<1>6. n - 1 \in bad
  BY <1>4, <1>5
<1> HIDE DEF bad
<1> QED BY <1>1, <1>5, <1>6

(* A set of sums there is: of the least size for which there is none, the  *)
(* sums up to one less give them.                                          *)
LEMMA SumsThere ==
  ASSUME NEW S, IsFiniteSet(S), NEW f \in [S -> Int]
  PROVE  \E it \in [SUBSET S -> Int] : Adds(it, f, S)
<1> DEFINE Value(it, s) == IF s = {} THEN 0 ELSE f[One(s)] + it[s \ {One(s)}]
           Good(n, it) == \A s \in SUBSET S : Cardinality(s) <= n => it[s] = Value(it, s)
           bad == {n \in Nat : ~ \E it \in [SUBSET S -> Int] : Good(n, it)}
<1>0. \A s \in SUBSET S : /\ IsFiniteSet(s) /\ Cardinality(s) \in Nat
                          /\ Cardinality(s) <= Cardinality(S)
                          /\ Cardinality(s) = 0 <=> s = {}
                          /\ \A x \in s : Cardinality(s \ {x}) = Cardinality(s) - 1
  BY Subsets
<1>1. \A s \in SUBSET S : s # {} => One(s) \in s /\ s \ {One(s)} \in SUBSET S
  BY DEF One
<1>2. \A it \in [SUBSET S -> Int], s \in SUBSET S : Value(it, s) \in Int
  BY <1>1
<1>3. bad = {}
  <2> SUFFICES ASSUME bad # {} PROVE FALSE
    OBVIOUS
  <2>1. PICK n \in bad : \A m \in bad : n <= m
    BY NatMinimum
  <2>2. n # 0
    <3> DEFINE it == [s \in SUBSET S |-> 0]
    <3>1. it \in [SUBSET S -> Int] /\ Good(0, it)
      BY <1>0
    <3> HIDE DEF it, Good
    <3>2. \E g \in [SUBSET S -> Int] : Good(0, g)
      BY <3>1
    <3> QED BY <3>2
  <2>3. n \in Nat /\ n - 1 \in Nat /\ n - 1 \notin bad
    <3>1. n \in Nat
      OBVIOUS
    <3> HIDE DEF bad
    <3>2. n - 1 \in Nat /\ n - 1 < n
      BY <2>2, <3>1
    <3> QED BY <2>1, <3>1, <3>2
  <2>4. PICK g \in [SUBSET S -> Int] : Good(n - 1, g)
    BY <2>3
  <2> DEFINE h == [s \in SUBSET S |-> IF Cardinality(s) < n THEN g[s] ELSE Value(g, s)]
  <2>5. h \in [SUBSET S -> Int]
    BY <1>2
  <2>6. ASSUME NEW s \in SUBSET S, Cardinality(s) <= n PROVE h[s] = Value(h, s)
    <3>1. h[s] = Value(g, s)
      BY <2>3, <2>4, <2>6, <1>0
    <3>2. CASE s = {}
      BY <3>1, <3>2
    <3>3. CASE s # {}
      <4>1. One(s) \in s /\ s \ {One(s)} \in SUBSET S
        BY <1>1, <3>3
      <4>2. Cardinality(s \ {One(s)}) < n
        BY <2>3, <2>6, <4>1, <1>0
      <4>3. h[s \ {One(s)}] = g[s \ {One(s)}]
        BY <4>1, <4>2
      <4> QED BY <3>1, <3>3, <4>3
    <3> QED BY <3>2, <3>3
  <2>7. Good(n, h)
    BY <2>6
  <2> HIDE DEF Good, h
  <2> QED BY <2>1, <2>5, <2>7
<1>4. PICK it \in [SUBSET S -> Int] : Good(Cardinality(S), it)
  <2>1. S \in SUBSET S
    OBVIOUS
  <2>2. Cardinality(S) \in Nat
    BY <1>0, <2>1
  <2>3. Cardinality(S) \notin bad
    BY <1>3
  <2> QED BY <2>2, <2>3
<1>5. Adds(it, f, S)
  BY <1>4, <1>0 DEF Adds
<1> QED BY <1>5

(* The credits of channels vcs, of which the queues are those of queue.    *)
LEMMA CreditSums ==
  ASSUME NEW queue, NEW vcs, IsFiniteSet(vcs),
         \A vc \in vcs : ChannelSpace - Len(queue[vc]) \in Int
  PROVE  \E it \in [SUBSET vcs -> Int] :
            /\ MapThenSumSet(LAMBDA vc : ChannelSpace - Len(queue[vc]), vcs) = it[vcs]
            /\ Adds(it, [vc \in vcs |-> ChannelSpace - Len(queue[vc])], vcs)
<1> DEFINE f == [vc \in vcs |-> ChannelSpace - Len(queue[vc])]
           Made(g) == [s \in SUBSET vcs |-> IF s = {} THEN 0
                          ELSE ChannelSpace - Len(queue[One(s)]) + g[s \ {One(s)}]]
           it == CHOOSE g : g = Made(g)
<1>1. MapThenSumSet(LAMBDA vc : ChannelSpace - Len(queue[vc]), vcs) = it[vcs]
  BY Zenon DEF MapThenSumSet, MapThenFoldSet, One
<1>2. \A s \in SUBSET vcs : s # {} => One(s) \in vcs
  BY DEF One
<1>3. \A s \in SUBSET vcs : s # {} => f[One(s)] = ChannelSpace - Len(queue[One(s)])
  BY <1>2
<1>4. f \in [vcs -> Int]
  OBVIOUS
<1> HIDE DEF f
<1>5. PICK h \in [SUBSET vcs -> Int] : Adds(h, f, vcs)
  BY <1>4, SumsThere
<1>6. \A g : Adds(g, f, vcs) <=> \A s \in SUBSET vcs : g[s] = Made(g)[s]
  BY <1>3 DEF Adds
<1>7. h = Made(h)
  BY <1>5, <1>6
<1>8. it = Made(it)
  <2> HIDE DEF Made
  <2> QED BY <1>7
<1>9. it \in [SUBSET vcs -> Int]
  <2>1. DOMAIN it = SUBSET vcs /\ it = [s \in SUBSET vcs |-> it[s]]
    <3> HIDE DEF it
    <3> QED BY <1>8
  <2> DEFINE T == {s \in SUBSET vcs : it[s] \in Int}
  <2>2. Adds(it, f, vcs)
    <3> HIDE DEF it
    <3> QED BY <1>6, <1>8
  <2> HIDE DEF it
  <2>3. {} \in T
    <3>1. {} \in SUBSET vcs
      OBVIOUS
    <3>2. it[{}] = 0
      BY <2>2, <3>1 DEF Adds
    <3> QED BY <3>1, <3>2
  <2>4. ASSUME NEW s \in SUBSET vcs, s # {}, s \ {One(s)} \in T PROVE s \in T
    <3>1. it[s] = f[One(s)] + it[s \ {One(s)}]
      BY <2>2, <2>4 DEF Adds
    <3>2. f[One(s)] \in Int
      BY <1>2, <1>4, <2>4
    <3> QED BY <2>4, <3>1, <3>2
  <2>5. \A s \in SUBSET vcs : s \in T
    <3> HIDE DEF T
    <3> QED BY <2>3, <2>4, BySize
  <2> QED BY <2>1, <2>5
<1>10. Adds(it, f, vcs)
  <2> HIDE DEF it
  <2> QED BY <1>6, <1>8
<1> HIDE DEF it
<1> QED BY <1>1, <1>9, <1>10 DEF f

(* When only x may have lost, and no more than one, the sum has lost one   *)
(* at most, and only if x is counted.                                      *)
LEMMA SumsLose ==
  ASSUME NEW S, IsFiniteSet(S), NEW f \in [S -> Int], NEW g \in [S -> Int], NEW x,
         \A y \in S : g[y] >= f[y] - Loss(y, x),
         NEW it \in [SUBSET S -> Int], Adds(it, f, S),
         NEW to \in [SUBSET S -> Int], Adds(to, g, S)
  PROVE  to[S] >= it[S] - LossIn(S, x)
<1> DEFINE T == {s \in SUBSET S : to[s] >= it[s] - LossIn(s, x)}
<1>1. {} \in T
  <2>1. {} \in SUBSET S
    OBVIOUS
  <2>2. it[{}] = 0 /\ to[{}] = 0
    BY <2>1 DEF Adds
  <2> QED BY <2>1, <2>2 DEF LossIn
<1>2. ASSUME NEW s \in SUBSET S, s # {}, s \ {One(s)} \in T PROVE s \in T
  <2> DEFINE o == One(s)
  <2>1. o \in s /\ o \in S /\ s \ {o} \in SUBSET S
    BY <1>2 DEF One
  <2>2. it[s] = f[o] + it[s \ {o}] /\ to[s] = g[o] + to[s \ {o}]
    BY <1>2 DEF Adds
  <2> HIDE DEF o
  <2>3. /\ f[o] \in Int /\ g[o] \in Int /\ it[s \ {o}] \in Int /\ to[s \ {o}] \in Int
        /\ g[o] >= f[o] - Loss(o, x)
    BY <2>1
  <2>4. to[s \ {o}] >= it[s \ {o}] - LossIn(s \ {o}, x)
    BY <1>2 DEF o
  <2>5. CASE o = x
    BY <2>1, <2>2, <2>3, <2>4, <2>5 DEF Loss, LossIn
  <2>6. CASE o # x
    BY <2>1, <2>2, <2>3, <2>4, <2>6 DEF Loss, LossIn
  <2> QED BY <2>5, <2>6
<1>3. S \in T
  <2> HIDE DEF T
  <2>1. \A s \in SUBSET S : s \in T
    BY <1>1, <1>2, BySize
  <2> QED BY <2>1
<1> QED BY <1>3

-----------------------------------------------------------------------------
(* A flit is put into the network and taken from it.                       *)
LEMMA PutIn ==
  ASSUME NEW B, IsABag(B), NEW x
  PROVE  /\ IsABag(B (+) SetToBag({x}))
         /\ DOMAIN (B (+) SetToBag({x})) = DOMAIN B \cup {x}
BY DEF IsABag, SetToBag, (+)

LEMMA TakenOut ==
  ASSUME NEW B, IsABag(B), NEW x
  PROVE  /\ IsABag(B (-) SetToBag({x}))
         /\ DOMAIN (B (-) SetToBag({x})) \subseteq DOMAIN B
BY DEF IsABag, SetToBag, (-)

-----------------------------------------------------------------------------
Vcs == 0..(Channels - 1)
NodePackets ==
    [type : IF config.reactive THEN PetitionTypes ELSE {"RESPONSE"},
     from : Generators, to : Generators]

Held(b) ==
    b.on => b.dest \in Generators /\ b.vc \in InjectionVcs(OwnType) \cup {-1}

NodesTypes ==
    /\ config \in NodeConfigs
    /\ drawn \in [Generators -> Generators \cup {-1}]
    /\ destinations \in [Generators -> [1..(NodeCount - 1) -> Generators]]
    /\ destPointer \in [Generators -> 0..(NodeCount - 1)]
    /\ burst \in [Generators -> [on : BOOLEAN, dest : Int, vc : Int]]
    /\ \A n \in Generators : Held(burst[n])
    /\ injection \in [Generators -> [Vcs -> Seq(NodePackets)]]
    /\ IsABag(network) /\ DOMAIN network \subseteq NodePackets
    /\ outBuffers \in [Generators -> [0..1 -> Seq(NodePackets)]]

(* The petitions in the output buffer of n up to the i-th packet.          *)
PetitionsUpTo(n, i) == {j \in 1..i : outBuffers[n][0][j].type = "PETITION"}

Answerable ==
    config.flows = 1 =>
        \A n \in Generators : \A i \in DOMAIN outBuffers[n][0] :
            outBuffers[n][0][i].type = "PETITION" =>
                Cardinality(PetitionsUpTo(n, i))
                    <= PortCredits(n, ArrayInjVC(outBuffers[n][0][i].from, "RESPONSE"))

(* Flows that share the output buffer of a node do not use another.        *)
OneFlow == config.flows = 1 => \A n \in Generators : outBuffers[n][1] = <<>>

NodesIInv == NodesTypes /\ OneFlow /\ Answerable

LEMMA NodesSizes ==
  /\ NodeCount \in Nat /\ NodeCount > 1 /\ Channels \in Nat \ {0} /\ ChannelSpace \in Nat
  /\ \A c \in NodeConfigs :
        /\ c.reactive \in BOOLEAN /\ c.policy \in {"RAND", "DEST"} /\ c.flows \in 0..2
        /\ c.pattern \in {"UN", "RANDOMPERMUTATION", "BURSTY_UN", "SINGLE_BURST", "ALL2ALL"}
        /\ c.reactive => c.pattern \in {"UN", "RANDOMPERMUTATION", "BURSTY_UN"} /\ Channels > 1
BY NodesAssumption DEF NodesAssumption, AllNodeConfigs

(* The channels of either type are a range of their own, and those for a   *)
(* destination are among them.                                             *)
LEMMA ChannelRanges ==
  ASSUME config \in NodeConfigs, NEW type \in PetitionTypes, config.reactive \/ type = "RESPONSE"
  PROVE  \E low, high \in Vcs : low <= high /\ InjectionVcs(type) = low..high
<1>1. CASE ~config.reactive
  BY <1>1, NodesSizes DEF InjectionVcs, Vcs
<1>2. CASE config.reactive
  <2>1. Channels \in Nat /\ Channels > 1 /\ Channels \div 2 \in 1..(Channels - 1)
    BY <1>2, NodesSizes
  <2>2. CASE type = "PETITION"
    BY <1>2, <2>1, <2>2 DEF InjectionVcs, Vcs
  <2>3. CASE type = "RESPONSE"
    BY <1>2, <2>1, <2>3 DEF InjectionVcs, Vcs
  <2> QED BY <2>2, <2>3 DEF PetitionTypes
<1> QED BY <1>1, <1>2, NodesSizes

LEMMA ChannelsApart ==
  ASSUME config \in NodeConfigs, config.reactive
  PROVE  InjectionVcs("PETITION") \cap InjectionVcs("RESPONSE") = {}
BY NodesSizes DEF InjectionVcs

LEMMA DestinationChannels ==
  ASSUME config \in NodeConfigs, NEW type \in PetitionTypes, config.reactive \/ type = "RESPONSE",
         NEW dest \in Generators
  PROVE  /\ ArrayInjVC(dest, type) \subseteq InjectionVcs(type)
         /\ InjectionVcs(type) \subseteq Vcs
         /\ IsFiniteSet(ArrayInjVC(dest, type))
<1>1. PICK low \in Vcs, high \in Vcs : low <= high /\ InjectionVcs(type) = low..high
  BY ChannelRanges
<1> DEFINE k == high - low + 1
<1>2. low \in Nat /\ high \in Nat /\ k \in Nat \ {0} /\ low..high \subseteq Vcs
  BY <1>1, NodesSizes DEF Vcs
<1>3. IsFiniteSet(low..high) /\ Cardinality(low..high) = k
  BY <1>1, <1>2, FS_Interval
<1>4. Min(low..high) = low
  <2>1. low \in low..high /\ \A y \in low..high : low <= y
    BY <1>1, <1>2
  <2>2. \A x \in low..high : (\A y \in low..high : x <= y) => x = low
    BY <1>1, <1>2
  <2> QED BY <2>1, <2>2 DEF Min
<1>5. (dest * k) \div NodeCount \in 0..(k - 1)
  <2>1. NodeCount \in Nat \ {0} /\ dest \in 0..(NodeCount - 1)
    BY NodesSizes DEF Generators
  <2>2. dest * k \in 0..(NodeCount * k - 1)
    <3>1. \A x, y \in Nat, z \in Nat \ {0} : x < y => x * z \in Nat /\ x * z < y * z
      OBVIOUS
    <3>2. dest * k \in Nat /\ dest * k < NodeCount * k /\ NodeCount * k \in Nat
      BY <1>2, <2>1, <3>1
    <3> QED BY <3>2
  <2> QED BY <1>2, <2>1, <2>2, DivBelow
<1>6. ArrayInjVC(dest, type) = IF config.policy = "RAND" THEN low..high
                               ELSE {low + (dest * k) \div NodeCount}
  BY <1>1, <1>3, <1>4 DEF ArrayInjVC
<1>7. low + (dest * k) \div NodeCount \in low..high
  BY <1>2, <1>5
<1> DEFINE v == low + (dest * k) \div NodeCount
<1>8. ArrayInjVC(dest, type) = low..high \/ ArrayInjVC(dest, type) = {v}
  BY <1>6
<1>9. v \in low..high
  BY <1>7
<1> HIDE DEF v
<1>10. IsFiniteSet({v})
  BY FS_Singleton
<1> QED BY <1>1, <1>2, <1>3, <1>8, <1>9, <1>10

(* What a node may inject by.                                              *)
LEMMA InjectedBy ==
  ASSUME config \in NodeConfigs, NEW type \in PetitionTypes, config.reactive \/ type = "RESPONSE",
         NEW dest \in Generators, NEW n, NEW vc \in InjectionVC(n, dest, type)
  PROVE  /\ vc \in InjectionVcs(type) \cup {-1}
         /\ config.policy = "DEST" => vc \in ArrayInjVC(dest, type)
BY DestinationChannels DEF InjectionVC

(* The credits for a destination lose no more than is injected.            *)
LEMMA CreditsLater ==
  ASSUME NodesTypes, NodesTypes', config' = config, NEW n \in Generators, NEW dest \in Generators,
         NEW vcs, vcs = ArrayInjVC(dest, "RESPONSE"),
         NEW x, \A vc \in InjectionVcs("RESPONSE") :
                    Len(injection'[n][vc]) <= Len(injection[n][vc]) + Loss(vc, x)
  PROVE  /\ ArrayInjVC(dest, "RESPONSE")' = vcs
         /\ PortCredits(n, vcs) \in Int /\ PortCredits(n, vcs)' \in Int
         /\ PortCredits(n, vcs)' >= PortCredits(n, vcs) - LossIn(vcs, x)
<1>1. vcs \subseteq InjectionVcs("RESPONSE") /\ vcs \subseteq Vcs /\ IsFiniteSet(vcs)
  BY DestinationChannels DEF NodesTypes, PetitionTypes
<1>2. ArrayInjVC(dest, "RESPONSE")' = vcs
  BY DEF ArrayInjVC, InjectionVcs
<1>3. \A vc \in vcs : /\ Len(injection[n][vc]) \in Nat /\ Len(injection'[n][vc]) \in Nat
                      /\ Len(injection'[n][vc]) <= Len(injection[n][vc]) + Loss(vc, x)
  <2> SUFFICES ASSUME NEW vc \in vcs
               PROVE  Len(injection[n][vc]) \in Nat /\ Len(injection'[n][vc]) \in Nat
    BY <1>1
  <2>1. injection[n][vc] \in Seq(NodePackets) /\ injection'[n][vc] \in Seq(NodePackets')
    BY <1>1 DEF NodesTypes
  <2> QED BY <2>1
<1> DEFINE f == [vc \in vcs |-> ChannelSpace - Len(injection[n][vc])]
           g == [vc \in vcs |-> ChannelSpace - Len(injection'[n][vc])]
<1>4. f \in [vcs -> Int] /\ g \in [vcs -> Int]
  BY <1>3, NodesSizes
<1>5. \A y \in vcs : g[y] >= f[y] - Loss(y, x)
  <2> SUFFICES ASSUME NEW y \in vcs PROVE g[y] >= f[y] - Loss(y, x)
    OBVIOUS
  <2>1. /\ g[y] = ChannelSpace - Len(injection'[n][y])
        /\ f[y] = ChannelSpace - Len(injection[n][y])
    OBVIOUS
  <2> HIDE DEF f, g
  <2>2. /\ Len(injection[n][y]) \in Nat /\ Len(injection'[n][y]) \in Nat
        /\ Len(injection'[n][y]) <= Len(injection[n][y]) + Loss(y, x)
    BY <1>3
  <2>3. ChannelSpace \in Nat
    BY NodesSizes
  <2>4. Loss(y, x) \in Int
    BY DEF Loss
  <2>5. \A a, b, l, c \in Int : b <= a + l => c - b >= (c - a) - l
    OBVIOUS
  <2> QED BY <2>1, <2>2, <2>3, <2>4, <2>5
<1>6. PortCredits(n, vcs) = MapThenSumSet(LAMBDA vc : ChannelSpace - Len(injection[n][vc]), vcs)
  BY Zenon DEF PortCredits, Space
<1>7. PortCredits(n, vcs)' = MapThenSumSet(LAMBDA vc : ChannelSpace - Len(injection'[n][vc]), vcs)
  BY Zenon DEF PortCredits, Space, MapThenSumSet, MapThenFoldSet
<1>8. PICK it \in [SUBSET vcs -> Int] : PortCredits(n, vcs) = it[vcs] /\ Adds(it, f, vcs)
  <2> DEFINE queue == injection[n]
  <2>1. \A vc \in vcs : ChannelSpace - Len(queue[vc]) \in Int
    BY <1>3, NodesSizes
  <2> HIDE DEF queue
  <2>2. \E sums \in [SUBSET vcs -> Int] :
            /\ MapThenSumSet(LAMBDA vc : ChannelSpace - Len(queue[vc]), vcs) = sums[vcs]
            /\ Adds(sums, [vc \in vcs |-> ChannelSpace - Len(queue[vc])], vcs)
    BY <1>1, <2>1, CreditSums
  <2> QED BY <1>6, <2>2 DEF queue
<1>9. PICK to \in [SUBSET vcs -> Int] : PortCredits(n, vcs)' = to[vcs] /\ Adds(to, g, vcs)
  <2> DEFINE queue == injection'[n]
  <2>1. \A vc \in vcs : ChannelSpace - Len(queue[vc]) \in Int
    BY <1>3, NodesSizes
  <2> HIDE DEF queue
  <2>2. \E sums \in [SUBSET vcs -> Int] :
            /\ MapThenSumSet(LAMBDA vc : ChannelSpace - Len(queue[vc]), vcs) = sums[vcs]
            /\ Adds(sums, [vc \in vcs |-> ChannelSpace - Len(queue[vc])], vcs)
    BY <1>1, <2>1, CreditSums
  <2> QED BY <1>7, <2>2 DEF queue
<1> HIDE DEF f, g
<1>10. to[vcs] >= it[vcs] - LossIn(vcs, x)
  BY <1>1, <1>4, <1>5, <1>8, <1>9, SumsLose
<1>11. vcs \in SUBSET vcs
  OBVIOUS
<1> QED BY <1>2, <1>8, <1>9, <1>10, <1>11

(* The petitions up to a place.                                            *)
LEMMA UpToFinite ==
  ASSUME NEW i \in Nat, NEW T \in SUBSET (1..i)
  PROVE  IsFiniteSet(T) /\ Cardinality(T) \in Nat
<1>1. IsFiniteSet(1..i)
  BY FS_Interval
<1>2. IsFiniteSet(T)
  BY <1>1, FS_Subset
<1> QED BY <1>2, FS_CardinalityType

(* As long as nothing is accepted or served, and no response injected.     *)
LEMMA NothingAnswered ==
  ASSUME NodesIInv, NodesTypes', config' = config, outBuffers' = outBuffers,
         \A n \in Generators : \A vc \in InjectionVcs("RESPONSE") :
             config.reactive => Len(injection'[n][vc]) <= Len(injection[n][vc])
  PROVE  Answerable'
<1> SUFFICES ASSUME config.flows = 1, NEW n \in Generators, NEW i \in DOMAIN outBuffers[n][0],
                    outBuffers[n][0][i].type = "PETITION"
             PROVE  Cardinality(PetitionsUpTo(n, i))
                      <= PortCredits(n, ArrayInjVC(outBuffers[n][0][i].from, "RESPONSE"))'
  BY DEF Answerable, PetitionsUpTo
<1>1. outBuffers[n][0] \in Seq(NodePackets)
  BY DEF NodesIInv, NodesTypes
<1>2. i \in Nat /\ outBuffers[n][0][i] \in NodePackets
  BY <1>1
<1>3. config.reactive /\ outBuffers[n][0][i].from \in Generators
  BY <1>2 DEF NodePackets
<1>. PICK dest : dest = outBuffers[n][0][i].from
  OBVIOUS
<1>. PICK vcs : vcs = ArrayInjVC(dest, "RESPONSE")
  OBVIOUS
<1>4. \A vc \in InjectionVcs("RESPONSE") :
         Len(injection'[n][vc]) <= Len(injection[n][vc]) + Loss(vc, -1)
  <2> SUFFICES ASSUME NEW vc \in InjectionVcs("RESPONSE")
               PROVE  Len(injection'[n][vc]) <= Len(injection[n][vc]) + Loss(vc, -1)
    OBVIOUS
  <2>1. vc \in Vcs /\ vc # -1
    BY <1>3, DestinationChannels, NodesSizes DEF PetitionTypes, NodesIInv, NodesTypes, Vcs
  <2>2. Len(injection[n][vc]) \in Nat
    BY <2>1 DEF NodesIInv, NodesTypes
  <2> QED BY <1>3, <2>1, <2>2 DEF Loss
<1>5. -1 \notin vcs
  <2>1. vcs \subseteq Vcs
    BY <1>3, DestinationChannels DEF PetitionTypes, NodesIInv, NodesTypes
  <2> QED BY <2>1, NodesSizes DEF Vcs
<1>6. /\ ArrayInjVC(dest, "RESPONSE")' = vcs
      /\ PortCredits(n, vcs) \in Int /\ PortCredits(n, vcs)' \in Int
      /\ PortCredits(n, vcs)' >= PortCredits(n, vcs)
  <2>1. PortCredits(n, vcs)' >= PortCredits(n, vcs) - LossIn(vcs, -1)
        /\ ArrayInjVC(dest, "RESPONSE")' = vcs
        /\ PortCredits(n, vcs) \in Int /\ PortCredits(n, vcs)' \in Int
    BY <1>3, <1>4, CreditsLater DEF NodesIInv
  <2> QED BY <1>5, <2>1 DEF LossIn
<1>7. Cardinality(PetitionsUpTo(n, i)) <= PortCredits(n, vcs)
  BY DEF NodesIInv, Answerable
<1>8. Cardinality(PetitionsUpTo(n, i)) \in Nat
  BY <1>2, UpToFinite DEF PetitionsUpTo
<1>9. PortCredits(n, ArrayInjVC(outBuffers[n][0][i].from, "RESPONSE"))' = PortCredits(n, vcs)'
  BY <1>6
<1> QED BY <1>6, <1>7, <1>8, <1>9

-----------------------------------------------------------------------------
LEMMA OwnTypes ==
  ASSUME NodesTypes
  PROVE  /\ OwnType \in PetitionTypes
         /\ config.reactive \/ OwnType = "RESPONSE"
         /\ config.reactive => OwnType = "PETITION"
         /\ \A n, dest \in Generators : Packet(OwnType, n, dest) \in NodePackets
         /\ config.reactive =>
                \A n, dest \in Generators : Packet("RESPONSE", n, dest) \in NodePackets
BY DEF OwnType, PetitionTypes, Packet, NodePackets

(* A packet is put into an injection buffer.                               *)
LEMMA Appended ==
  ASSUME NodesTypes, NEW n \in Generators, NEW vc \in Vcs, NEW packet \in NodePackets,
         injection' = [injection EXCEPT ![n][vc] = Append(@, packet)]
  PROVE  /\ injection' \in [Generators -> [Vcs -> Seq(NodePackets)]]
         /\ \A m \in Generators : \A w \in Vcs :
                Len(injection'[m][w]) = Len(injection[m][w])
                                            + (IF m = n THEN Loss(w, vc) ELSE 0)
<1>1. injection \in [Generators -> [Vcs -> Seq(NodePackets)]]
  BY DEF NodesTypes
<1>2. injection[n][vc] \in Seq(NodePackets)
  BY <1>1
<1>3. Append(injection[n][vc], packet) \in Seq(NodePackets)
      /\ Len(Append(injection[n][vc], packet)) = Len(injection[n][vc]) + 1
  BY <1>2
<1>4. injection' \in [Generators -> [Vcs -> Seq(NodePackets)]]
  BY <1>1, <1>3
<1>5. ASSUME NEW m \in Generators, NEW w \in Vcs
      PROVE  Len(injection'[m][w]) = Len(injection[m][w]) + (IF m = n THEN Loss(w, vc) ELSE 0)
  <2>1. Len(injection[m][w]) \in Nat
    BY <1>1
  <2>2. injection'[m][w] = IF m = n /\ w = vc THEN Append(injection[n][vc], packet)
                                              ELSE injection[m][w]
    BY <1>1
  <2>3. CASE m = n /\ w = vc
    BY <1>3, <2>1, <2>2, <2>3 DEF Loss
  <2>4. CASE ~(m = n /\ w = vc)
    <3>1. (IF m = n THEN Loss(w, vc) ELSE 0) = 0
      BY <2>4 DEF Loss
    <3> QED BY <2>1, <2>2, <2>4, <3>1
  <2> QED BY <2>3, <2>4
<1> QED BY <1>4, <1>5

(* Nothing is, or no petition's place is taken.                            *)
NoResponse ==
    \A n \in Generators : \A vc \in InjectionVcs("RESPONSE") :
        config.reactive => Len(injection'[n][vc]) <= Len(injection[n][vc])

LEMMA LengthsNat ==
  ASSUME NodesTypes, NEW n \in Generators, NEW vc \in Vcs
  PROVE  Len(injection[n][vc]) \in Nat
BY DEF NodesTypes

LEMMA ResponseVcs == ASSUME NodesTypes PROVE InjectionVcs("RESPONSE") \subseteq Vcs
<1>1. 0 \in Generators
  BY NodesSizes DEF Generators
<1> QED BY <1>1, DestinationChannels DEF NodesTypes, PetitionTypes

LEMMA NothingInjected ==
  ASSUME NodesTypes, injection' = injection PROVE NoResponse
BY LengthsNat, ResponseVcs DEF NoResponse

LEMMA OwnInjected ==
  ASSUME NodesTypes, NEW n \in Generators, NEW dest \in Generators,
         NEW vc \in InjectionVcs(OwnType) \cup {-1}, HasRoom(n, vc), Inject(n, dest, vc)
  PROVE  injection' \in [Generators -> [Vcs -> Seq(NodePackets)]] /\ NoResponse
<1>1. vc \in InjectionVcs(OwnType)
  BY DEF HasRoom
<1>2. InjectionVcs(OwnType) \subseteq Vcs
  <2>1. OwnType \in PetitionTypes /\ (config.reactive \/ OwnType = "RESPONSE")
    BY OwnTypes
  <2> QED BY <2>1, DestinationChannels DEF NodesTypes
<1>3. vc \in Vcs /\ Packet(OwnType, n, dest) \in NodePackets
  BY <1>1, <1>2, OwnTypes
<1>4. injection' = [injection EXCEPT ![n][vc] = Append(@, Packet(OwnType, n, dest))]
  BY DEF Inject
<1>5. ASSUME NEW m \in Generators, NEW w \in InjectionVcs("RESPONSE"), config.reactive
      PROVE  Len(injection'[m][w]) <= Len(injection[m][w])
  <2>1. w \in Vcs /\ w # vc
    BY <1>1, <1>5, OwnTypes, ResponseVcs, ChannelsApart DEF NodesTypes
  <2>2. Len(injection'[m][w]) = Len(injection[m][w]) + 0
    BY <1>3, <1>4, <2>1, Appended DEF Loss
  <2> QED BY <2>1, <2>2, LengthsNat
<1> QED BY <1>3, <1>4, <1>5, Appended DEF NoResponse

(* What is left of the invariant when nothing is accepted, served or       *)
(* answered.                                                               *)
LEMMA QuietKept ==
  ASSUME NodesIInv, config' = config, outBuffers' = outBuffers, NoResponse,
         drawn' \in [Generators -> Generators \cup {-1}],
         destinations' = destinations, destPointer' \in [Generators -> 0..(NodeCount - 1)],
         burst' \in [Generators -> [on : BOOLEAN, dest : Int, vc : Int]],
         \A n \in Generators : Held(burst'[n]),
         injection' \in [Generators -> [Vcs -> Seq(NodePackets)]],
         IsABag(network'), DOMAIN network' \subseteq NodePackets
  PROVE  NodesIInv'
<1>1. NodePackets' = NodePackets /\ InjectionVcs(OwnType)' = InjectionVcs(OwnType)
  BY DEF NodePackets, InjectionVcs, OwnType
<1>2. NodesTypes'
  BY <1>1 DEF NodesIInv, NodesTypes, Held
<1>3. Answerable'
  BY <1>2, NothingAnswered DEF NoResponse
<1>4. OneFlow'
  BY DEF NodesIInv, OneFlow
<1> QED BY <1>2, <1>3, <1>4 DEF NodesIInv

LEMMA DrawKept ==
  ASSUME NodesIInv, NEW n \in Generators, DrawDestination(n) PROVE NodesIInv'
<1>1. NoResponse
  BY NothingInjected DEF DrawDestination, NodesIInv
<1>2. drawn' \in [Generators -> Generators \cup {-1}]
  BY DEF DrawDestination, NodesIInv, NodesTypes, Available
<1> QED BY <1>1, <1>2, QuietKept DEF DrawDestination, NodesIInv, NodesTypes

LEMMA GenerateKept ==
  ASSUME NodesIInv, NEW n \in Generators, Generate(n) PROVE NodesIInv'
<1>0. PICK dest \in SetDestination(n) : \E vc \in InjectionVC(n, dest, OwnType) :
         HasRoom(n, vc) /\ Inject(n, dest, vc)
  BY DEF Generate
<1>1. PICK vc \in InjectionVC(n, dest, OwnType) : HasRoom(n, vc) /\ Inject(n, dest, vc)
  BY <1>0
<1>2. dest \in Generators
  <2>1. AllDrawn /\ config.pattern \in {"UN", "RANDOMPERMUTATION", "SINGLE_BURST"}
    BY DEF Generate, MayGenerate, Running
  <2>2. CASE config.pattern = "RANDOMPERMUTATION"
    BY <1>0, <2>1, <2>2 DEF SetDestination, AllDrawn, NodesIInv, NodesTypes
  <2>3. CASE config.pattern \in {"UN", "SINGLE_BURST"}
    BY <1>0, <2>3 DEF SetDestination, OtherNodes
  <2> QED BY <2>1, <2>2, <2>3
<1>3. NodesTypes
  BY DEF NodesIInv
<1>4. vc \in InjectionVcs(OwnType) \cup {-1}
  BY <1>1, <1>2, <1>3, OwnTypes, InjectedBy DEF NodesTypes
<1>5. injection' \in [Generators -> [Vcs -> Seq(NodePackets)]] /\ NoResponse
  BY <1>1, <1>2, <1>3, <1>4, OwnInjected
<1> QED BY <1>3, <1>5, QuietKept DEF Generate, patternVars, NodesTypes

LEMMA AllToAllKept ==
  ASSUME NodesIInv, NEW n \in Generators, GenerateAllToAll(n) PROVE NodesIInv'
<1>0. NodesTypes /\ config.pattern = "ALL2ALL" /\ ~config.reactive
  BY NodesSizes DEF GenerateAllToAll, NodesIInv, NodesTypes
<1> DEFINE phase == (NodeCount - 1) * phaseCount[n]
           begins == flitsTx[n] = phase /\ flitsRx[n] = phase
           taken == IF begins THEN 0 ELSE destPointer[n]
           dest == destinations[n][taken + 1]
<1>1. taken \in 0..(NodeCount - 1)
  <2>1. destPointer[n] \in 0..(NodeCount - 1) /\ 0 \in 0..(NodeCount - 1)
    BY <1>0, NodesSizes DEF NodesTypes
  <2>2. taken = 0 \/ taken = destPointer[n]
    OBVIOUS
  <2> QED BY <2>1, <2>2
<1>2. /\ UNCHANGED <<config, drawn, destinations, burst, network, outBuffers>>
      /\ IF taken = NodeCount - 1 THEN AbortNodes /\ UNCHANGED destPointer
         ELSE /\ destPointer' = [destPointer EXCEPT ![n] = taken + 1]
              /\ \E vc \in InjectionVC(n, dest, OwnType) :
                    injection' = IF HasRoom(n, vc)
                            THEN [injection EXCEPT ![n][vc] = Append(@, Packet(OwnType, n, dest))]
                            ELSE injection
  BY Zenon DEF GenerateAllToAll
<1> HIDE DEF taken
<1>3. NoResponse
  BY <1>0 DEF NoResponse
<1>4. CASE taken = NodeCount - 1
  BY <1>0, <1>2, <1>3, <1>4, QuietKept DEF AbortNodes, NodesTypes
<1>5. CASE taken # NodeCount - 1
  <2>1. taken + 1 \in 1..(NodeCount - 1)
    BY <1>1, <1>5, NodesSizes
  <2>2. destPointer' \in [Generators -> 0..(NodeCount - 1)]
    <3>1. destPointer' = [destPointer EXCEPT ![n] = taken + 1]
      BY <1>2, <1>5
    <3>2. taken + 1 \in 0..(NodeCount - 1)
      BY <2>1, NodesSizes
    <3> QED BY <1>0, <3>1, <3>2 DEF NodesTypes
  <2>3. dest \in Generators
    <3>1. destinations[n] \in [1..(NodeCount - 1) -> Generators]
      BY <1>0 DEF NodesTypes
    <3> QED BY <2>1, <3>1
  <2> HIDE DEF dest
  <2>4. PICK vc \in InjectionVC(n, dest, OwnType) :
           injection' = IF HasRoom(n, vc)
                        THEN [injection EXCEPT ![n][vc] = Append(@, Packet(OwnType, n, dest))]
                        ELSE injection
    BY <1>2, <1>5 DEF dest
  <2>5. vc \in Vcs \cup {-1}
    <3>1. vc \in InjectionVcs(OwnType) \cup {-1}
      BY <1>0, <2>3, <2>4, OwnTypes, InjectedBy DEF NodesTypes
    <3>2. InjectionVcs(OwnType) = InjectionVcs("RESPONSE")
      BY <1>0 DEF InjectionVcs
    <3> QED BY <1>0, <3>1, <3>2, ResponseVcs
  <2>6. injection' \in [Generators -> [Vcs -> Seq(NodePackets)]]
    <3>1. CASE HasRoom(n, vc)
      <4>1. vc \in Vcs /\ Packet(OwnType, n, dest) \in NodePackets
        BY <1>0, <2>3, <2>5, <3>1, OwnTypes DEF HasRoom
      <4> QED BY <1>0, <2>4, <3>1, <4>1, Appended
    <3>2. CASE ~HasRoom(n, vc)
      BY <1>0, <2>4, <3>2 DEF NodesTypes
    <3> QED BY <3>1, <3>2
  <2> QED BY <1>0, <1>2, <1>3, <2>2, <2>6, QuietKept DEF NodesTypes
<1> QED BY <1>4, <1>5

LEMMA BurstyKept ==
  ASSUME NodesIInv, NEW n \in Generators, GenerateBursty(n) PROVE NodesIInv'
<1>0. NodesTypes
  BY DEF NodesIInv
<1>1. /\ UNCHANGED <<config, drawn, destinations, destPointer, network, outBuffers>>
      /\ \/ BeginBurst(n)
         \/ burst[n].on /\ HasRoom(n, burst[n].vc) /\ GoesOn(n)
         \/ EndBurst(n)
  BY DEF GenerateBursty
<1> SUFFICES /\ burst' \in [Generators -> [on : BOOLEAN, dest : Int, vc : Int]]
             /\ \A m \in Generators : Held(burst'[m])
             /\ injection' \in [Generators -> [Vcs -> Seq(NodePackets)]] /\ NoResponse
  BY <1>0, <1>1, QuietKept DEF NodesTypes
<1>2. CASE BeginBurst(n)
  <2>0. PICK dest \in OtherNodes(n) : \E vc \in InjectionVC(n, dest, OwnType) :
          /\ burst' = [burst EXCEPT ![n] = [on |-> TRUE, dest |-> dest, vc |-> vc]]
          /\ IF HasRoom(n, vc) THEN Inject(n, dest, vc) ELSE InjectsNothing
    BY <1>2 DEF BeginBurst
  <2>1. PICK vc \in InjectionVC(n, dest, OwnType) :
          /\ burst' = [burst EXCEPT ![n] = [on |-> TRUE, dest |-> dest, vc |-> vc]]
          /\ IF HasRoom(n, vc) THEN Inject(n, dest, vc) ELSE InjectsNothing
    BY <2>0
  <2>2. dest \in Generators
    BY <2>0 DEF OtherNodes
  <2>3. vc \in InjectionVcs(OwnType) \cup {-1}
    BY <1>0, <2>1, <2>2, OwnTypes, InjectedBy DEF NodesTypes
  <2>4. dest \in Int /\ vc \in Int
    <3>1. InjectionVcs(OwnType) \subseteq Vcs
      BY <1>0, <2>2, OwnTypes, DestinationChannels DEF NodesTypes
    <3> QED BY <2>2, <2>3, <3>1 DEF Generators, Vcs
  <2>5. /\ burst' \in [Generators -> [on : BOOLEAN, dest : Int, vc : Int]]
        /\ \A m \in Generators : Held(burst'[m])
    BY <1>0, <2>1, <2>2, <2>3, <2>4 DEF NodesTypes, Held
  <2>6. CASE HasRoom(n, vc)
    BY <1>0, <2>1, <2>2, <2>3, <2>5, <2>6, OwnInjected
  <2>7. CASE ~HasRoom(n, vc)
    BY <1>0, <2>1, <2>5, <2>7, NothingInjected DEF InjectsNothing, NodesTypes
  <2> QED BY <2>6, <2>7
<1>3. CASE burst[n].on /\ HasRoom(n, burst[n].vc) /\ GoesOn(n)
  <2>1. burst[n].dest \in Generators /\ burst[n].vc \in InjectionVcs(OwnType) \cup {-1}
    BY <1>0, <1>3 DEF NodesTypes, Held
  <2>2. injection' \in [Generators -> [Vcs -> Seq(NodePackets)]] /\ NoResponse
    BY <1>0, <1>3, <2>1, OwnInjected DEF GoesOn
  <2> QED BY <1>0, <1>3, <2>2 DEF GoesOn, NodesTypes
<1>4. CASE EndBurst(n)
  <2>1. NoResponse
    BY <1>0, <1>4, NothingInjected DEF EndBurst, InjectsNothing
  <2>2. /\ burst' \in [Generators -> [on : BOOLEAN, dest : Int, vc : Int]]
        /\ \A m \in Generators : Held(burst'[m])
    BY <1>0, <1>4 DEF EndBurst, NodesTypes, Held
  <2> QED BY <1>0, <1>4, <2>1, <2>2 DEF EndBurst, InjectsNothing, NodesTypes
<1> QED BY <1>1, <1>2, <1>3, <1>4

LEMMA DepartKept ==
  ASSUME NodesIInv, NEW n \in Generators, NEW vc \in Vcs, Depart(n, vc) PROVE NodesIInv'
<1>0. NodesTypes
  BY DEF NodesIInv
<1>1. injection[n][vc] \in Seq(NodePackets) /\ injection[n][vc] # <<>>
  BY <1>0 DEF NodesTypes, Depart
<1>2. /\ Head(injection[n][vc]) \in NodePackets
      /\ Tail(injection[n][vc]) \in Seq(NodePackets)
      /\ Len(Tail(injection[n][vc])) = Len(injection[n][vc]) - 1
  BY <1>1
<1>3. injection' = [injection EXCEPT ![n][vc] = Tail(@)]
  BY DEF Depart
<1>4. injection' \in [Generators -> [Vcs -> Seq(NodePackets)]]
  BY <1>0, <1>2, <1>3 DEF NodesTypes
<1>5. NoResponse
  <2> SUFFICES ASSUME NEW m \in Generators, NEW w \in Vcs
               PROVE  Len(injection'[m][w]) <= Len(injection[m][w])
    BY <1>0, ResponseVcs DEF NoResponse
  <2>1. Len(injection[m][w]) \in Nat
    BY <1>0, LengthsNat
  <2>2. injection'[m][w] = IF m = n /\ w = vc THEN Tail(injection[n][vc]) ELSE injection[m][w]
    BY <1>0, <1>3 DEF NodesTypes
  <2> QED BY <1>2, <2>1, <2>2
<1>6. IsABag(network') /\ DOMAIN network' \subseteq NodePackets
  <2>1. network' = network (+) SetToBag({Head(injection[n][vc])})
    BY DEF Depart
  <2>2. IsABag(network) /\ DOMAIN network \subseteq NodePackets
    BY <1>0 DEF NodesTypes
  <2> DEFINE packet == Head(injection[n][vc])
  <2>3. packet \in NodePackets
    BY <1>2
  <2>4. network' = network (+) SetToBag({packet})
    BY <2>1
  <2> HIDE DEF packet
  <2>5. IsABag(network') /\ DOMAIN network' = DOMAIN network \cup {packet}
    BY <2>2, <2>4, PutIn
  <2> QED BY <2>2, <2>3, <2>5
<1> QED BY <1>0, <1>4, <1>5, <1>6, QuietKept DEF Depart, patternVars, NodesTypes

(* A packet is consumed: if it is a petition, one response at most is put  *)
(* into a channel for its source.                                          *)
LEMMA Consumed ==
  ASSUME NodesTypes, NEW n \in Generators, NEW p \in NodePackets, Consume(n, p)
  PROVE  /\ UNCHANGED <<config, patternVars>>
         /\ injection' \in [Generators -> [Vcs -> Seq(NodePackets)]]
         /\ \E x \in InjectionVcs("RESPONSE") \cup {-1} :
                /\ p.type = "PETITION" \/ x = -1
                /\ \A m \in Generators : \A w \in InjectionVcs("RESPONSE") :
                      Len(injection'[m][w])
                          <= Len(injection[m][w]) + (IF m = n THEN Loss(w, x) ELSE 0)
<1> DEFINE Limit(x) ==
        \A m \in Generators : \A w \in InjectionVcs("RESPONSE") :
            Len(injection'[m][w]) <= Len(injection[m][w]) + (IF m = n THEN Loss(w, x) ELSE 0)
<1>1. UNCHANGED <<config, patternVars>>
  BY DEF Consume
<1>2. InjectionVcs("RESPONSE") \subseteq Vcs /\ -1 \notin Vcs
  BY ResponseVcs, NodesSizes DEF Vcs
<1>3. injection' = injection =>
        /\ injection' \in [Generators -> [Vcs -> Seq(NodePackets)]]
        /\ Limit(-1)
  <2> SUFFICES ASSUME injection' = injection
               PROVE  injection' \in [Generators -> [Vcs -> Seq(NodePackets)]] /\ Limit(-1)
    OBVIOUS
  <2>1. injection' \in [Generators -> [Vcs -> Seq(NodePackets)]]
    BY DEF NodesTypes
  <2>2. ASSUME NEW m \in Generators, NEW w \in InjectionVcs("RESPONSE")
        PROVE  Len(injection'[m][w]) <= Len(injection[m][w]) + (IF m = n THEN Loss(w, -1) ELSE 0)
    <3>1. Len(injection[m][w]) \in Nat /\ w # -1
      BY <1>2, LengthsNat
    <3>2. (IF m = n THEN Loss(w, -1) ELSE 0) = 0
      BY <3>1 DEF Loss
    <3> QED BY <3>1, <3>2
  <2> QED BY <2>1, <2>2
<1>4. CASE p.type # "PETITION"
  BY <1>1, <1>3, <1>4 DEF Consume
<1>5. CASE p.type = "PETITION"
  <2>1. config.reactive /\ p.from \in Generators
    BY <1>5 DEF NodePackets
  <2>2. PICK vc \in InjectionVC(n, p.from, "RESPONSE") :
          IF HasRoom(n, vc)
          THEN injection' =
                  [injection EXCEPT ![n][vc] = Append(@, Packet("RESPONSE", n, p.from))]
          ELSE injection' = injection
    BY <1>5 DEF Consume
  <2>3. vc \in InjectionVcs("RESPONSE") \cup {-1}
    BY <2>1, <2>2, InjectedBy DEF NodesTypes, PetitionTypes
  <2>4. CASE ~HasRoom(n, vc)
    BY <1>1, <1>3, <2>2, <2>4
  <2>5. CASE HasRoom(n, vc)
    <3>1. vc \in InjectionVcs("RESPONSE") /\ vc \in Vcs
      BY <1>2, <2>3, <2>5 DEF HasRoom
    <3>2. Packet("RESPONSE", n, p.from) \in NodePackets
      BY <2>1, OwnTypes
    <3>3. injection' = [injection EXCEPT ![n][vc] = Append(@, Packet("RESPONSE", n, p.from))]
      BY <2>2, <2>5
    <3>4. /\ injection' \in [Generators -> [Vcs -> Seq(NodePackets)]]
          /\ \A m \in Generators : \A w \in Vcs :
                Len(injection'[m][w])
                    = Len(injection[m][w]) + (IF m = n THEN Loss(w, vc) ELSE 0)
      BY <3>1, <3>2, <3>3, Appended
    <3>5. Limit(vc)
      <4> SUFFICES ASSUME NEW m \in Generators, NEW w \in InjectionVcs("RESPONSE")
                   PROVE  Len(injection'[m][w])
                            <= Len(injection[m][w]) + (IF m = n THEN Loss(w, vc) ELSE 0)
        OBVIOUS
      <4>1. w \in Vcs /\ Len(injection[m][w]) \in Nat
        BY <1>2, LengthsNat
      <4>2. (IF m = n THEN Loss(w, vc) ELSE 0) \in Int
        BY DEF Loss
      <4> QED BY <3>4, <4>1, <4>2
    <3> QED BY <1>1, <1>5, <3>1, <3>4, <3>5
  <2> QED BY <2>4, <2>5
<1> QED BY <1>4, <1>5

(* An output buffer of its own for each node, or two.                      *)
LEMMA ArriveKept ==
  ASSUME NodesIInv, NEW n \in Generators, Arrive(n) PROVE NodesIInv'
<1>0. NodesTypes
  BY DEF NodesIInv
<1>1. PICK p \in BagToSet(network) : Consume(n, p) /\ network' = network (-) SetToBag({p})
  BY DEF Arrive
<1>2. p \in NodePackets
  BY <1>0, <1>1 DEF NodesTypes, BagToSet
<1>3. /\ UNCHANGED <<config, patternVars>>
      /\ injection' \in [Generators -> [Vcs -> Seq(NodePackets)]]
  BY <1>0, <1>1, <1>2, Consumed
<1>4. IsABag(network') /\ DOMAIN network' \subseteq NodePackets
  BY <1>0, <1>1, TakenOut DEF NodesTypes
<1>5. outBuffers' = outBuffers /\ config.flows = 0
  BY DEF Arrive
<1>6. NodePackets' = NodePackets /\ InjectionVcs(OwnType)' = InjectionVcs(OwnType)
  BY <1>3 DEF NodePackets, InjectionVcs, OwnType
<1>7. NodesTypes'
  BY <1>0, <1>3, <1>4, <1>5, <1>6 DEF NodesTypes, Held, patternVars
<1>8. OneFlow' /\ Answerable'
  BY <1>3, <1>5 DEF OneFlow, Answerable
<1> QED BY <1>7, <1>8 DEF NodesIInv

(* The petitions up to a place of a list of packets, one more, and behind  *)
(* the head.                                                               *)
Petitions(q, i) == {j \in 1..i : q[j].type = "PETITION"}

LEMMA PetitionsFinite ==
  ASSUME NEW q, NEW i \in Nat
  PROVE  IsFiniteSet(Petitions(q, i)) /\ Cardinality(Petitions(q, i)) \in Nat
<1>1. Petitions(q, i) \in SUBSET (1..i)
  BY DEF Petitions
<1> QED BY <1>1, UpToFinite

LEMMA PetitionsAppended ==
  ASSUME NEW q \in Seq(NodePackets), NEW p \in NodePackets
  PROVE  /\ \A i \in DOMAIN q : Petitions(Append(q, p), i) = Petitions(q, i)
         /\ Cardinality(Petitions(Append(q, p), Len(q) + 1))
                <= Cardinality(Petitions(q, Len(q))) + 1
<1>1. \A j \in 1..Len(q) : Append(q, p)[j] = q[j]
  OBVIOUS
<1>2. \A i \in DOMAIN q : Petitions(Append(q, p), i) = Petitions(q, i)
  <2> SUFFICES ASSUME NEW i \in DOMAIN q PROVE Petitions(Append(q, p), i) = Petitions(q, i)
    OBVIOUS
  <2>1. \A j \in 1..i : j \in 1..Len(q)
    OBVIOUS
  <2> QED BY <1>1, <2>1 DEF Petitions
<1>3. Petitions(Append(q, p), Len(q) + 1) \subseteq Petitions(q, Len(q)) \cup {Len(q) + 1}
  <2>1. \A j \in 1..(Len(q) + 1) : j \in 1..Len(q) \/ j = Len(q) + 1
    OBVIOUS
  <2> QED BY <1>1, <2>1 DEF Petitions
<1>4. Len(q) \in Nat
  OBVIOUS
<1>5. IsFiniteSet(Petitions(q, Len(q)) \cup {Len(q) + 1})
      /\ Cardinality(Petitions(q, Len(q)) \cup {Len(q) + 1})
            <= Cardinality(Petitions(q, Len(q))) + 1
  <2> DEFINE C == Petitions(q, Len(q))
             k == Len(q) + 1
  <2>1. IsFiniteSet(C) /\ Cardinality(C) \in Nat
    BY <1>4, PetitionsFinite
  <2> HIDE DEF C, k
  <2>2. IsFiniteSet(C \cup {k}) /\ Cardinality(C \cup {k}) <= Cardinality(C) + 1
    <3>1. /\ IsFiniteSet(C \cup {k})
          /\ Cardinality(C \cup {k}) = IF k \in C THEN Cardinality(C) ELSE Cardinality(C) + 1
      BY <2>1, FS_AddElement
    <3> QED BY <2>1, <3>1
  <2> QED BY <2>2 DEF C, k
<1>6. Cardinality(Petitions(Append(q, p), Len(q) + 1))
        <= Cardinality(Petitions(q, Len(q)) \cup {Len(q) + 1})
  BY <1>3, <1>5, FS_Subset
<1>7. /\ Cardinality(Petitions(q, Len(q))) \in Nat
      /\ Cardinality(Petitions(q, Len(q)) \cup {Len(q) + 1}) \in Nat
      /\ Cardinality(Petitions(Append(q, p), Len(q) + 1)) \in Nat
  BY <1>4, <1>5, PetitionsFinite, FS_CardinalityType
<1> QED BY <1>2, <1>5, <1>6, <1>7

LEMMA PetitionsServed ==
  ASSUME NEW q \in Seq(NodePackets), q # <<>>, NEW i \in DOMAIN Tail(q)
  PROVE  /\ i + 1 \in DOMAIN q /\ Tail(q)[i] = q[i + 1]
         /\ Cardinality(Petitions(Tail(q), i)) + (IF Head(q).type = "PETITION" THEN 1 ELSE 0)
                = Cardinality(Petitions(q, i + 1))
<1>1. i \in Nat \ {0} /\ i + 1 \in DOMAIN q /\ Tail(q)[i] = q[i + 1] /\ Head(q) = q[1]
  OBVIOUS
<1>2. \A j \in 1..i : Tail(q)[j] = q[j + 1]
  OBVIOUS
<1> DEFINE S == Petitions(Tail(q), i)
           T == Petitions(q, i + 1) \ {1}
           f == [j \in S |-> j + 1]
<1>3. f \in Bijection(S, T)
  <2>1. \A j \in S : j \in 1..i /\ q[j + 1].type = "PETITION"
    BY <1>2 DEF Petitions
  <2>2. f \in [S -> T]
    BY <1>1, <2>1 DEF Petitions
  <2>3. \A j, k \in S : f[j] = f[k] => j = k
    BY <2>1
  <2>4. \A t \in T : \E j \in S : f[j] = t
    <3> SUFFICES ASSUME NEW t \in T PROVE \E j \in S : f[j] = t
      OBVIOUS
    <3>1. t \in 2..(i + 1) /\ q[t].type = "PETITION"
      BY <1>1 DEF Petitions
    <3>2. t - 1 \in 1..i /\ t = (t - 1) + 1
      BY <1>1, <3>1
    <3>3. t - 1 \in S
      BY <1>2, <3>1, <3>2 DEF Petitions
    <3> QED BY <3>2, <3>3
  <2> HIDE DEF S, T, f
  <2> QED BY <2>2, <2>3, <2>4 DEF Bijection, Injection, Surjection, IsInjective
<1>4. IsFiniteSet(S) /\ Cardinality(T) = Cardinality(S)
  <2>1. IsFiniteSet(S)
    BY <1>1, PetitionsFinite
  <2>2. ExistsBijection(S, T)
    BY <1>3 DEF ExistsBijection
  <2> HIDE DEF S, T
  <2> QED BY <2>1, <2>2, FS_Bijection
<1>5. /\ IsFiniteSet(Petitions(q, i + 1)) /\ Cardinality(Petitions(q, i + 1)) \in Nat
      /\ Cardinality(S) \in Nat
  BY <1>1, PetitionsFinite
<1>6. 1 \in Petitions(q, i + 1) <=> Head(q).type = "PETITION"
  BY <1>1 DEF Petitions
<1>7. Cardinality(T) = IF 1 \in Petitions(q, i + 1) THEN Cardinality(Petitions(q, i + 1)) - 1
                       ELSE Cardinality(Petitions(q, i + 1))
  BY <1>5, FS_RemoveElement
<1> HIDE DEF S, T
<1> QED BY <1>1, <1>4, <1>5, <1>6, <1>7 DEF S

(* Answerable of one packet.                                               *)
Room(n, p) == PortCredits(n, ArrayInjVC(p.from, "RESPONSE"))

LEMMA AnswerableEach ==
  Answerable <=>
    (config.flows = 1 =>
        \A n \in Generators : \A i \in DOMAIN outBuffers[n][0] :
            outBuffers[n][0][i].type = "PETITION" =>
                Cardinality(Petitions(outBuffers[n][0], i)) <= Room(n, outBuffers[n][0][i]))
BY DEF Answerable, PetitionsUpTo, Petitions, Room

(* The room for the response to a packet, when there is a response to      *)
(* another by channel x of node m, or to none if x is -1.                  *)
LEMMA RoomLater ==
  ASSUME NodesTypes, NodesTypes', config' = config, NEW n \in Generators, NEW m \in Generators,
         NEW p \in NodePackets, p.type = "PETITION",
         NEW x \in InjectionVcs("RESPONSE") \cup {-1},
         \A k \in Generators : \A w \in InjectionVcs("RESPONSE") :
            Len(injection'[k][w]) <= Len(injection[k][w]) + (IF k = m THEN Loss(w, x) ELSE 0)
  PROVE  /\ Room(n, p) \in Int /\ Room(n, p)' \in Int
         /\ Room(n, p)' >= Room(n, p) - (IF n = m /\ x # -1 THEN 1 ELSE 0)
<1>1. config.reactive /\ p.from \in Generators
  BY DEF NodePackets
<1>. PICK vcs : vcs = ArrayInjVC(p.from, "RESPONSE")
  OBVIOUS
<1>. PICK dest : dest = p.from
  OBVIOUS
<1>2. vcs \subseteq Vcs /\ -1 \notin Vcs /\ dest \in Generators
  <2>1. "RESPONSE" \in PetitionTypes /\ config \in NodeConfigs /\ dest \in Generators
    BY <1>1 DEF PetitionTypes, NodesTypes
  <2>2. vcs \subseteq Vcs
    BY <2>1, DestinationChannels
  <2> QED BY <2>1, <2>2, NodesSizes DEF Vcs
<1>. PICK y : y = IF n = m THEN x ELSE -1
  OBVIOUS
<1>3. \A w \in InjectionVcs("RESPONSE") :
         Len(injection'[n][w]) <= Len(injection[n][w]) + Loss(w, y)
  <2> SUFFICES ASSUME NEW w \in InjectionVcs("RESPONSE")
               PROVE  Len(injection'[n][w]) <= Len(injection[n][w]) + Loss(w, y)
    OBVIOUS
  <2>1. w # -1
    BY <1>2, ResponseVcs
  <2>2. (IF n = m THEN Loss(w, x) ELSE 0) = Loss(w, y)
    BY <2>1 DEF Loss
  <2> QED BY <2>2
<1>4. /\ ArrayInjVC(dest, "RESPONSE")' = vcs
      /\ PortCredits(n, vcs) \in Int /\ PortCredits(n, vcs)' \in Int
      /\ PortCredits(n, vcs)' >= PortCredits(n, vcs) - LossIn(vcs, y)
  <2>1. vcs = ArrayInjVC(dest, "RESPONSE") /\ dest \in Generators
    BY <1>2
  <2> QED BY <1>3, <2>1, CreditsLater
<1>5. LossIn(vcs, y) \in Int /\ LossIn(vcs, y) <= (IF n = m /\ x # -1 THEN 1 ELSE 0)
  BY <1>2 DEF LossIn
<1>6. Room(n, p) = PortCredits(n, vcs) /\ Room(n, p)' = PortCredits(n, vcs)'
  BY <1>4 DEF Room
<1> QED BY <1>4, <1>5, <1>6

LEMMA RoomInt ==
  ASSUME NodesTypes, NEW n \in Generators, NEW p \in NodePackets, p.type = "PETITION"
  PROVE  Room(n, p) \in Int
<1> DEFINE vcs == ArrayInjVC(p.from, "RESPONSE")
           queue == injection[n]
<1>1. config.reactive /\ p.from \in Generators /\ config \in NodeConfigs
  BY DEF NodePackets, NodesTypes
<1>2. vcs \subseteq Vcs /\ IsFiniteSet(vcs)
  BY <1>1, DestinationChannels DEF PetitionTypes
<1>3. Room(n, p) = MapThenSumSet(LAMBDA vc : ChannelSpace - Len(queue[vc]), vcs)
  BY Zenon DEF Room, PortCredits, Space
<1> HIDE DEF vcs
<1>4. \A vc \in vcs : ChannelSpace - Len(queue[vc]) \in Int
  BY <1>2, LengthsNat, NodesSizes
<1> HIDE DEF queue
<1>5. PICK it \in [SUBSET vcs -> Int] :
        MapThenSumSet(LAMBDA vc : ChannelSpace - Len(queue[vc]), vcs) = it[vcs]
  <2>1. \E sums \in [SUBSET vcs -> Int] :
            /\ MapThenSumSet(LAMBDA vc : ChannelSpace - Len(queue[vc]), vcs) = sums[vcs]
            /\ Adds(sums, [vc \in vcs |-> ChannelSpace - Len(queue[vc])], vcs)
    BY <1>2, <1>4, CreditSums
  <2> QED BY <2>1
<1>6. vcs \in SUBSET vcs
  OBVIOUS
<1> QED BY <1>3, <1>5, <1>6

LEMMA RoomKept ==
  ASSUME NodesTypes, NodesTypes', config' = config, injection' = injection,
         NEW n \in Generators, NEW p \in NodePackets, p.type = "PETITION"
  PROVE  /\ Room(n, p) \in Int /\ Room(n, p)' \in Int
         /\ Room(n, p)' >= Room(n, p)
<1>1. \A k \in Generators : \A w \in InjectionVcs("RESPONSE") :
        Len(injection'[k][w]) <= Len(injection[k][w]) + (IF k = n THEN Loss(w, -1) ELSE 0)
  <2> SUFFICES ASSUME NEW k \in Generators, NEW w \in InjectionVcs("RESPONSE")
               PROVE  Len(injection'[k][w])
                        <= Len(injection[k][w]) + (IF k = n THEN Loss(w, -1) ELSE 0)
    OBVIOUS
  <2>1. w \in Vcs /\ Len(injection[k][w]) \in Nat
    BY ResponseVcs, LengthsNat
  <2>2. (IF k = n THEN Loss(w, -1) ELSE 0) \in Nat
    BY DEF Loss
  <2> QED BY <2>1, <2>2
<1>2. /\ Room(n, p) \in Int /\ Room(n, p)' \in Int
      /\ Room(n, p)' >= Room(n, p) - (IF n = n /\ -1 # -1 THEN 1 ELSE 0)
  <2>1. -1 \in InjectionVcs("RESPONSE") \cup {-1}
    OBVIOUS
  <2> QED BY <1>1, <2>1, RoomLater
<1> QED BY <1>2

LEMMA AnswerableNext ==
  ASSUME config' = config,
         \A m \in Generators : \A i \in DOMAIN outBuffers'[m][0] : \A packet :
            config.flows = 1 /\ packet = outBuffers'[m][0][i] /\ packet.type = "PETITION" =>
                Cardinality(Petitions(outBuffers'[m][0], i)) <= Room(m, packet)'
  PROVE  Answerable'
<1> SUFFICES ASSUME config.flows = 1, NEW m \in Generators, NEW i \in DOMAIN outBuffers'[m][0],
                    outBuffers'[m][0][i].type = "PETITION"
             PROVE  Cardinality(PetitionsUpTo(m, i))'
                      <= PortCredits(m, ArrayInjVC(outBuffers[m][0][i].from, "RESPONSE"))'
  BY DEF Answerable
<1>. PICK packet : packet = outBuffers'[m][0][i]
  OBVIOUS
<1>1. Cardinality(Petitions(outBuffers'[m][0], i)) <= Room(m, packet)'
  OBVIOUS
<1>2. Cardinality(PetitionsUpTo(m, i))' = Cardinality(Petitions(outBuffers'[m][0], i))
  BY DEF PetitionsUpTo, Petitions
<1>3. PortCredits(m, ArrayInjVC(outBuffers[m][0][i].from, "RESPONSE"))' = Room(m, packet)'
  BY DEF Room
<1> QED BY <1>1, <1>2, <1>3

LEMMA AcceptKept ==
  ASSUME NodesIInv, NEW n \in Generators, Accept(n) PROVE NodesIInv'
<1>0. NodesTypes /\ OneFlow /\ Answerable
  BY DEF NodesIInv
<1>1. PICK p \in BagToSet(network) :
        /\ CheckConsumePort(n, p) /\ network' = network (-) SetToBag({p})
        /\ outBuffers' = [outBuffers EXCEPT ![n][FlowOf(p)] = Append(@, p)]
  BY DEF Accept
<1>2. p \in NodePackets
  BY <1>0, <1>1 DEF NodesTypes, BagToSet
<1>3. UNCHANGED <<config, patternVars, injection>>
  BY DEF Accept
<1>4. IsABag(network') /\ DOMAIN network' \subseteq NodePackets
  BY <1>0, <1>1, TakenOut DEF NodesTypes
<1>5. FlowOf(p) \in 0..1 /\ (config.flows = 1 => FlowOf(p) = 0)
  BY DEF FlowOf
<1>6. \A m \in Generators : \A flow \in 0..1 :
        outBuffers'[m][flow] = IF m = n /\ flow = FlowOf(p) THEN Append(outBuffers[m][flow], p)
                               ELSE outBuffers[m][flow]
  BY <1>0, <1>1, <1>5 DEF NodesTypes
<1>7. outBuffers' \in [Generators -> [0..1 -> Seq(NodePackets)]]
  <2>1. Append(outBuffers[n][FlowOf(p)], p) \in Seq(NodePackets)
    BY <1>0, <1>2, <1>5 DEF NodesTypes
  <2> QED BY <1>0, <1>1, <1>5, <2>1 DEF NodesTypes
<1>8. NodePackets' = NodePackets /\ InjectionVcs(OwnType)' = InjectionVcs(OwnType)
  BY <1>3 DEF NodePackets, InjectionVcs, OwnType
<1>9. NodesTypes'
  BY <1>0, <1>3, <1>4, <1>7, <1>8 DEF NodesTypes, Held, patternVars
<1>10. OneFlow'
  BY <1>0, <1>3, <1>5, <1>6 DEF OneFlow
<1>11. Answerable'
  <2> SUFFICES ASSUME config.flows = 1, NEW m \in Generators, NEW i \in DOMAIN outBuffers'[m][0],
                      NEW packet, packet = outBuffers'[m][0][i], packet.type = "PETITION"
               PROVE  Cardinality(Petitions(outBuffers'[m][0], i)) <= Room(m, packet)'
    BY <1>3, AnswerableNext
  <2> DEFINE q == outBuffers[m][0]
  <2>1. q \in Seq(NodePackets)
    BY <1>0 DEF NodesTypes
  <2>2. \A j \in DOMAIN q : q[j].type = "PETITION" => Cardinality(Petitions(q, j)) <= Room(m, q[j])
    BY <1>0, AnswerableEach
  <2>3. packet \in NodePackets =>
            Room(m, packet) \in Int /\ Room(m, packet)' \in Int /\ Room(m, packet)' >= Room(m, packet)
    BY <1>0, <1>3, <1>9, RoomKept
  <2>4. ASSUME i \in DOMAIN q, packet = q[i], Petitions(outBuffers'[m][0], i) = Petitions(q, i)
        PROVE  Cardinality(Petitions(outBuffers'[m][0], i)) <= Room(m, packet)'
    <3>1. i \in Nat /\ packet \in NodePackets
      BY <2>1, <2>4
    <3>2. Cardinality(Petitions(q, i)) \in Nat
      BY <3>1, PetitionsFinite
    <3>3. Cardinality(Petitions(q, i)) <= Room(m, packet)
      BY <2>2, <2>4
    <3> HIDE DEF q
    <3> QED BY <2>3, <2>4, <3>1, <3>2, <3>3
  <2>5. CASE m # n
    BY <1>6, <2>4, <2>5
  <2>6. CASE m = n
    <3>1. outBuffers'[m][0] = Append(q, p)
      BY <1>5, <1>6, <2>6
    <3>2. i \in DOMAIN q \/ i = Len(q) + 1
      BY <2>1, <3>1
    <3>3. CASE i \in DOMAIN q
      <4>1. Append(q, p)[i] = q[i]
        BY <2>1, <3>3
      <4>2. Petitions(Append(q, p), i) = Petitions(q, i)
        BY <1>2, <2>1, <3>3, PetitionsAppended
      <4> QED BY <2>4, <3>1, <3>3, <4>1, <4>2
    <3>4. CASE i = Len(q) + 1
      <4>1. packet = p
        BY <2>1, <3>1, <3>4
      <4>2. Cardinality(Petitions(Append(q, p), Len(q) + 1)) <= Cardinality(Petitions(q, Len(q))) + 1
        BY <1>2, <2>1, PetitionsAppended
      <4>3. NumPetitions(n) = Cardinality(Petitions(q, Len(q)))
        <5>1. DOMAIN q = 1..Len(q)
          BY <2>1
        <5> QED BY <2>6, <5>1 DEF NumPetitions, Petitions
      <4>4. NumPetitions(n) + 1 <= Room(n, packet)
        BY <1>1, <4>1 DEF CheckConsumePort, Room
      <4>5. Cardinality(Petitions(q, Len(q))) \in Nat
            /\ Cardinality(Petitions(Append(q, p), Len(q) + 1)) \in Nat
        <5>1. Len(q) \in Nat /\ Len(q) + 1 \in Nat
          BY <2>1
        <5> QED BY <5>1, PetitionsFinite
      <4>6. Room(m, packet) \in Int /\ Room(m, packet)' \in Int /\ Room(m, packet)' >= Room(m, packet)
        BY <1>2, <2>3, <4>1
      <4> HIDE DEF q
      <4> QED BY <2>6, <3>1, <3>4, <4>2, <4>3, <4>4, <4>5, <4>6
    <3> QED BY <3>2, <3>3, <3>4
  <2> QED BY <2>5, <2>6
<1> QED BY <1>9, <1>10, <1>11 DEF NodesIInv

LEMMA ServeKept ==
  ASSUME NodesIInv, NEW n \in Generators, Serve(n) PROVE NodesIInv'
<1>0. NodesTypes /\ OneFlow /\ Answerable
  BY DEF NodesIInv
<1>1. PICK flow \in 0..1 :
        /\ outBuffers[n][flow] # <<>>
        /\ Consume(n, Head(outBuffers[n][flow]))
        /\ outBuffers' = [outBuffers EXCEPT ![n][flow] = Tail(@)]
  BY DEF Serve
<1>. PICK p : p = Head(outBuffers[n][flow])
  OBVIOUS
<1>2. /\ outBuffers[n][flow] \in Seq(NodePackets) /\ p \in NodePackets
      /\ Tail(outBuffers[n][flow]) \in Seq(NodePackets)
  BY <1>0, <1>1 DEF NodesTypes
<1>3. /\ UNCHANGED <<config, patternVars>>
      /\ injection' \in [Generators -> [Vcs -> Seq(NodePackets)]]
      /\ \E x \in InjectionVcs("RESPONSE") \cup {-1} :
            /\ p.type = "PETITION" \/ x = -1
            /\ \A m \in Generators : \A w \in InjectionVcs("RESPONSE") :
                  Len(injection'[m][w])
                      <= Len(injection[m][w]) + (IF m = n THEN Loss(w, x) ELSE 0)
  BY <1>0, <1>1, <1>2, Consumed
<1>4. PICK x \in InjectionVcs("RESPONSE") \cup {-1} :
            /\ p.type = "PETITION" \/ x = -1
            /\ \A m \in Generators : \A w \in InjectionVcs("RESPONSE") :
                  Len(injection'[m][w])
                      <= Len(injection[m][w]) + (IF m = n THEN Loss(w, x) ELSE 0)
  BY <1>3
<1>5. network' = network
  BY DEF Serve
<1>6. \A m \in Generators : \A f \in 0..1 :
        outBuffers'[m][f] = IF m = n /\ f = flow THEN Tail(outBuffers[m][f])
                            ELSE outBuffers[m][f]
  BY <1>0, <1>1 DEF NodesTypes
<1>7. outBuffers' \in [Generators -> [0..1 -> Seq(NodePackets)]]
  BY <1>0, <1>1, <1>2 DEF NodesTypes
<1>8. NodePackets' = NodePackets /\ InjectionVcs(OwnType)' = InjectionVcs(OwnType)
  BY <1>3 DEF NodePackets, InjectionVcs, OwnType
<1>9. NodesTypes'
  BY <1>0, <1>3, <1>5, <1>7, <1>8 DEF NodesTypes, Held, patternVars
<1>10. config.flows = 1 => flow = 0
  BY <1>0, <1>1 DEF OneFlow
<1>11. OneFlow'
  <2> SUFFICES ASSUME config.flows = 1, NEW m \in Generators PROVE outBuffers'[m][1] = <<>>
    BY <1>3 DEF OneFlow
  <2>1. 1 \in 0..1 /\ 1 # flow
    BY <1>10
  <2>2. outBuffers'[m][1] = outBuffers[m][1]
    BY <1>6, <2>1
  <2> QED BY <1>0, <2>2 DEF OneFlow
<1>12. Answerable'
  <2> SUFFICES ASSUME config.flows = 1, NEW m \in Generators, NEW i \in DOMAIN outBuffers'[m][0],
                      NEW packet, packet = outBuffers'[m][0][i], packet.type = "PETITION"
               PROVE  Cardinality(Petitions(outBuffers'[m][0], i)) <= Room(m, packet)'
    BY <1>3, AnswerableNext
  <2> DEFINE q == outBuffers[m][0]
  <2>1. q \in Seq(NodePackets)
    BY <1>0 DEF NodesTypes
  <2>2. \A j \in DOMAIN q : q[j].type = "PETITION" => Cardinality(Petitions(q, j)) <= Room(m, q[j])
    BY <1>0, AnswerableEach
  <2>3. packet \in NodePackets =>
            /\ Room(m, packet) \in Int /\ Room(m, packet)' \in Int
            /\ Room(m, packet)' >= Room(m, packet) - (IF m = n /\ x # -1 THEN 1 ELSE 0)
    <3> SUFFICES ASSUME packet \in NodePackets
                 PROVE  /\ Room(m, packet) \in Int /\ Room(m, packet)' \in Int
                        /\ Room(m, packet)' >=
                                Room(m, packet) - (IF m = n /\ x # -1 THEN 1 ELSE 0)
      OBVIOUS
    <3>1. config' = config
      BY <1>3
    <3> QED BY <1>0, <1>4, <1>9, <3>1, RoomLater
  <2>4. CASE m # n
    <3>1. outBuffers'[m][0] = q
      BY <1>6, <2>4
    <3>2. packet = q[i] /\ packet \in NodePackets /\ i \in Nat
      BY <2>1, <3>1
    <3>3. Cardinality(Petitions(q, i)) \in Nat
      BY <3>2, PetitionsFinite
    <3>4. Cardinality(Petitions(q, i)) <= Room(m, packet)
      BY <2>2, <3>1, <3>2
    <3> HIDE DEF q
    <3> QED BY <2>3, <2>4, <3>1, <3>2, <3>3, <3>4
  <2>5. CASE m = n
    <3>1. outBuffers'[m][0] = Tail(q) /\ p = Head(q) /\ q # <<>>
      BY <1>1, <1>6, <1>10, <2>5
    <3>2. /\ i + 1 \in DOMAIN q /\ Tail(q)[i] = q[i + 1]
          /\ Cardinality(Petitions(Tail(q), i)) + (IF p.type = "PETITION" THEN 1 ELSE 0)
                = Cardinality(Petitions(q, i + 1))
      BY <2>1, <3>1, PetitionsServed
    <3>3. packet = q[i + 1] /\ packet \in NodePackets /\ i \in Nat /\ i + 1 \in Nat
      BY <2>1, <3>1, <3>2
    <3>4. Cardinality(Petitions(Tail(q), i)) \in Nat /\ Cardinality(Petitions(q, i + 1)) \in Nat
      BY <3>3, PetitionsFinite
    <3>5. Cardinality(Petitions(q, i + 1)) <= Room(m, packet)
      BY <2>2, <3>2, <3>3
    <3>6. /\ Room(m, packet) \in Int /\ Room(m, packet)' \in Int
          /\ Room(m, packet)' >= Room(m, packet) - (IF p.type = "PETITION" THEN 1 ELSE 0)
      BY <1>4, <2>3, <2>5, <3>3
    <3> HIDE DEF q
    <3> QED BY <3>1, <3>2, <3>4, <3>5, <3>6
  <2> QED BY <2>4, <2>5
<1> QED BY <1>9, <1>11, <1>12 DEF NodesIInv

LEMMA NodesStart ==
  ASSUME NodesInit PROVE NodesIInv
<1>1. NodesTypes
  <2>1. destinations \in [Generators -> [1..(NodeCount - 1) -> Generators]]
    <3>1. CASE destinations = [n \in Generators |-> Following(n)]
      <4>1. \A n \in Generators : Following(n) \in [1..(NodeCount - 1) -> Generators]
        BY NodesSizes DEF Following, Generators
      <4> QED BY <3>1, <4>1
    <3>2. CASE /\ destinations \in [Generators -> UNION {Orders[n] : n \in Generators}]
               /\ \A n \in Generators : destinations[n] \in Orders[n]
      <4>1. \A n \in Generators : Orders[n] \subseteq [1..(NodeCount - 1) -> Generators]
        BY DEF Orders, OtherNodes
      <4>2. \A n \in Generators : destinations[n] \in [1..(NodeCount - 1) -> Generators]
        BY <3>2, <4>1
      <4> QED BY <3>2, <4>2
    <3> QED BY <3>1, <3>2 DEF NodesInit
  <2>2. IsABag(network) /\ DOMAIN network = {}
    BY DEF NodesInit, EmptyBag, SetToBag, IsABag
  <2>3. /\ injection \in [Generators -> [Vcs -> Seq(NodePackets)]]
        /\ outBuffers \in [Generators -> [0..1 -> Seq(NodePackets)]]
    BY DEF NodesInit, Vcs
  <2>4. /\ burst \in [Generators -> [on : BOOLEAN, dest : Int, vc : Int]]
        /\ \A n \in Generators : Held(burst[n])
    BY DEF NodesInit, NoBurst, Held
  <2>5. destPointer \in [Generators -> 0..(NodeCount - 1)]
    BY NodesSizes DEF NodesInit
  <2> QED BY <2>1, <2>2, <2>3, <2>4, <2>5 DEF NodesInit, NodesTypes
<1>2. OneFlow /\ Answerable
  BY DEF NodesInit, OneFlow, Answerable
<1> QED BY <1>1, <1>2 DEF NodesIInv

LEMMA NodesStep ==
  ASSUME NodesIInv, [NodesNext]_nodesVars PROVE NodesIInv'
<1>1. CASE UNCHANGED nodesVars
  <2>1. NoResponse
    BY <1>1, NothingInjected DEF NodesIInv, nodesVars
  <2> QED BY <1>1, <2>1, QuietKept DEF NodesIInv, NodesTypes, nodesVars
<1>2. CASE NodesNext
  BY <1>2, DrawKept, GenerateKept, AllToAllKept, BurstyKept, DepartKept, ArriveKept, AcceptKept,
     ServeKept DEF NodesNext, Vcs
<1> QED BY <1>1, <1>2

LEMMA ServedFromInv ==
  ASSUME NodesIInv PROVE SharedBufferServed
<1> SUFFICES ASSUME config.flows = 1, NEW n \in Generators, NEW i \in DOMAIN outBuffers[n][0],
                    outBuffers[n][0][i].type = "PETITION"
             PROVE  Room(n, outBuffers[n][0][i]) >= 1
  BY DEF SharedBufferServed, CheckConsume, Room
<1> DEFINE q == outBuffers[n][0]
<1>1. q \in Seq(NodePackets)
  BY DEF NodesIInv, NodesTypes
<1>2. i \in Nat /\ i \in 1..i /\ q[i] \in NodePackets
  BY <1>1
<1>3. i \in Petitions(q, i)
  BY <1>2 DEF Petitions
<1>4. Cardinality(Petitions(q, i)) \in Nat /\ Cardinality(Petitions(q, i)) # 0
  BY <1>2, <1>3, PetitionsFinite, FS_EmptySet
<1>5. Cardinality(Petitions(q, i)) <= Room(n, q[i])
  BY AnswerableEach DEF NodesIInv
<1>6. Room(n, q[i]) \in Int
  BY <1>2, RoomInt DEF NodesIInv
<1> HIDE DEF q
<1>7. Room(n, q[i]) >= 1
  BY <1>4, <1>5, <1>6
<1> QED BY <1>7 DEF q

THEOREM PetitionsAnswered == NodesSpec => []SharedBufferServed
<1>1. NodesSpec => []NodesIInv
  BY NodesStart, NodesStep, PTL DEF NodesSpec
<1>2. NodesIInv => SharedBufferServed
  BY ServedFromInv
<1> QED BY <1>1, <1>2, PTL

-----------------------------------------------------------------------------
GraphSpec == GraphInit /\ [][GraphNext]_graphVars

LEMMA GraphSizes ==
  /\ N \in Nat \ {0, 1} /\ N \in Nat /\ N > 1 /\ RootNode \in Computers
  /\ Host \in [1..N -> Computers]
  /\ RootDegree \in Nat \ {0} /\ Coalescing \in Nat \ {0} /\ QueryTime \in Nat
  /\ MaxPutOff \in Nat
<1>1. /\ N \in Nat \ {0, 1} /\ RootNode \in Computers /\ Host \in [1..N -> Computers]
      /\ RootDegree \in Nat \ {0} /\ Coalescing \in Nat \ {0} /\ QueryTime \in Nat
      /\ MaxPutOff \in Nat
  BY Zenon, GraphAssumption DEF GraphAssumption, Computers
<1>2. N \in Nat /\ N > 1
  BY <1>1
<1> QED BY <1>1, <1>2
-----------------------------------------------------------------------------
(* Copies of a flit in a bag, and the messages of queries in it, each copy *)
(* with a number of its own.                                               *)
CopiesOf(f, B) == IF f \in DOMAIN B THEN B[f] ELSE 0

Same(f, g) == IF f = g THEN 1 ELSE 0

LEMMA BagPut ==
  ASSUME NEW B, IsABag(B), NEW f, NEW C, C = B (+) SetToBag({f})
  PROVE  /\ IsABag(C) /\ DOMAIN C \subseteq DOMAIN B \cup {f}
         /\ \A g : CopiesOf(g, C) = CopiesOf(g, B) + Same(g, f)
         /\ \A g : CopiesOf(g, C) \in Nat
BY DEF IsABag, SetToBag, (+), CopiesOf, Same

LEMMA BagTake ==
  ASSUME NEW B, IsABag(B), NEW f, f \in DOMAIN B, NEW C, C = B (-) SetToBag({f})
  PROVE  /\ IsABag(C) /\ DOMAIN C \subseteq DOMAIN B
         /\ \A g : CopiesOf(g, C) = CopiesOf(g, B) - Same(g, f)
         /\ \A g : CopiesOf(g, C) \in Nat
BY DEF IsABag, SetToBag, (-), CopiesOf, Same

LEMMA BagTakeNone ==
  ASSUME NEW B, IsABag(B), NEW f, f \notin DOMAIN B
  PROVE  B (-) SetToBag({f}) = B
BY DEF IsABag, SetToBag, (-), CopiesOf, Same

-----------------------------------------------------------------------------
LEMMA DivPositive ==
  ASSUME NEW a \in Nat, NEW b \in Nat \ {0}
  PROVE  CeilDiv(a, b) \in Nat /\ (a > 0 => CeilDiv(a, b) > 0)
<1>1. CeilDiv(a, b) \in Int
  BY DEF CeilDiv
<1>2. a + b - 1 >= 0 /\ (a > 0 => a + b - 1 >= b)
  OBVIOUS
<1> DEFINE x == a + b - 1
<1>3. x \in Nat /\ CeilDiv(a, b) = x \div b
  BY DEF CeilDiv
<1>4. (x \div b) \in Nat /\ (x >= b => x \div b > 0)
  <2>1. \A y \in Nat : (y \div b) \in Nat /\ (y >= b => y \div b > 0)
    OBVIOUS
  <2> QED BY <1>3, <2>1
<1> QED BY <1>2, <1>3, <1>4

LEMMA MessagesCounted ==
  ASSUME NEW q \in Nat
  PROVE  /\ EffectiveNodes(q) \in Nat \ {0}
         /\ NumberOfMessages(q) \in Nat /\ (q > 0 => NumberOfMessages(q) > 0)
<1>1. EffectiveNodes(q) \in Nat \ {0}
  <2>1. EffectiveNodes(q) = 1 \/ EffectiveNodes(q) \in 2..N
    BY DEF EffectiveNodes
  <2>2. N \in Nat
    BY GraphSizes
  <2> QED BY <2>1, <2>2
<1> DEFINE E == EffectiveNodes(q)
           c == CeilDiv(q, E * Coalescing)
<1>2. E * Coalescing \in Nat \ {0}
  BY <1>1, GraphSizes
<1>3. c \in Nat /\ (q > 0 => c > 0)
  BY <1>2, DivPositive
<1> HIDE DEF E, c
<1>4. E * c \in Nat /\ (q > 0 => E * c > 0)
  BY <1>1, <1>3 DEF E
<1> QED BY <1>1, <1>4 DEF NumberOfMessages, E, c

(* The powers of x as a function, up to the n-th: that Power is one for    *)
(* every n is shown for the least n for which it would not be.             *)
Powers(x, n, g) ==
    /\ g \in [0..n -> Nat]
    /\ g[0] = 1
    /\ \A k \in 0..n : k # 0 => g[k] = x * g[k - 1]

LEMMA PowersThere ==
  ASSUME NEW x \in Nat, NEW n \in Nat
  PROVE  \E g : Powers(x, n, g)
<1> DEFINE bad == {m \in Nat : ~\E g : Powers(x, m, g)}
<1> SUFFICES ASSUME bad # {} PROVE FALSE
  OBVIOUS
<1>1. PICK m \in bad : \A l \in bad : m <= l
  BY NatMinimum
<1>2. m # 0
  <2> SUFFICES ASSUME m = 0 PROVE FALSE
    OBVIOUS
  <2>1. Powers(x, 0, [k \in 0..0 |-> 1])
    BY DEF Powers
  <2> QED BY <1>1, <2>1
<1>3. m - 1 \in Nat /\ m - 1 \notin bad
  BY <1>1, <1>2
<1>4. PICK g : Powers(x, m - 1, g)
  BY <1>3
<1> DEFINE h == [k \in 0..m |-> IF k = m THEN x * g[m - 1] ELSE g[k]]
<1>5. g[m - 1] \in Nat /\ x * g[m - 1] \in Nat
  BY <1>3, <1>4 DEF Powers
<1>6. h \in [0..m -> Nat]
  <2>1. \A k \in 0..m : k # m => k \in 0..(m - 1)
    BY <1>3
  <2> QED BY <1>4, <1>5, <2>1 DEF Powers
<1>7. h[0] = 1
  BY <1>2, <1>3, <1>4 DEF Powers
<1>8. ASSUME NEW k \in 0..m, k # 0 PROVE h[k] = x * h[k - 1]
  <2>1. k - 1 \in 0..m /\ k - 1 # m /\ h[k - 1] = g[k - 1]
    BY <1>1, <1>8
  <2>2. CASE k = m
    BY <2>1, <2>2
  <2>3. CASE k # m
    <3>1. k \in 0..(m - 1) /\ h[k] = g[k]
      BY <1>3, <2>3
    <3> QED BY <1>4, <1>8, <2>1, <3>1 DEF Powers
  <2> QED BY <2>2, <2>3
<1>9. Powers(x, m, h)
  BY <1>6, <1>7, <1>8 DEF Powers
<1> QED BY <1>1, <1>9

LEMMA PowersSame ==
  ASSUME NEW x \in Nat, NEW n \in Nat, NEW m \in Nat, n <= m,
         NEW g, Powers(x, n, g), NEW h, Powers(x, m, h)
  PROVE  \A k \in 0..n : g[k] = h[k]
<1> DEFINE bad == {k \in Nat : k <= n /\ g[k] # h[k]}
<1> SUFFICES ASSUME bad # {} PROVE FALSE
  OBVIOUS
<1>1. PICK k \in bad : \A l \in bad : k <= l
  BY NatMinimum
<1>2. k # 0
  BY <1>1 DEF Powers
<1>3. k - 1 \in Nat /\ k - 1 <= n /\ k - 1 \notin bad
  BY <1>1, <1>2
<1>4. g[k - 1] = h[k - 1]
  BY <1>3
<1>5. k \in 0..n /\ k \in 0..m
  BY <1>1
<1> QED BY <1>1, <1>2, <1>4, <1>5 DEF Powers

LEMMA PowerIs ==
  ASSUME NEW x \in Nat
  PROVE  /\ Power(x)[0] = 1
         /\ \A q \in Nat : q # 0 => Power(x)[q] = x * Power(x)[q - 1]
<1> DEFINE of(q) == CHOOSE g : Powers(x, q, g)
           h == [q \in Nat |-> of(q)[q]]
<1>1. \A q \in Nat : Powers(x, q, of(q))
  BY PowersThere
<1> HIDE DEF of
<1>2. h = [q \in Nat |-> IF q = 0 THEN 1 ELSE x * h[q - 1]]
  <2>1. ASSUME NEW q \in Nat, q # 0 PROVE h[q] = x * h[q - 1]
    <3>1. q - 1 \in Nat /\ q - 1 <= q
      BY <2>1
    <3>2. of(q - 1)[q - 1] = of(q)[q - 1]
      BY <1>1, <3>1, PowersSame
    <3>3. of(q)[q] = x * of(q)[q - 1]
      BY <1>1, <2>1, <3>1 DEF Powers
    <3> QED BY <3>1, <3>2, <3>3
  <2>2. h[0] = 1
    BY <1>1 DEF Powers
  <2> QED BY <2>1, <2>2
<1> HIDE DEF h
<1>3. Power(x) = [q \in Nat |-> IF q = 0 THEN 1 ELSE x * Power(x)[q - 1]]
  BY <1>2 DEF Power
<1> QED BY <1>3

LEMMA Products ==
  ASSUME NEW x \in Nat \ {0}, NEW y \in Nat \ {0}
  PROVE  x * y \in Nat \ {0}
OBVIOUS

LEMMA Times ==
  /\ \A x, y \in Nat : x * y \in Nat
  /\ \A x, y, z \in Nat : y <= z => x * y <= x * z
  /\ \A x, y \in Int : (x + 1) * y = x * y + y /\ y * (x + 1) = x * y + y
  /\ \A x, y, z \in Int : x * (y - z) = x * y - x * z
OBVIOUS

LEMMA PowerNat ==
  ASSUME NEW x \in Nat \ {0}
  PROVE  \A q \in Nat : Power(x)[q] \in Nat \ {0}
<1> DEFINE bad == {q \in Nat : Power(x)[q] \notin Nat \ {0}}
<1> SUFFICES ASSUME bad # {} PROVE FALSE
  OBVIOUS
<1>1. PICK q \in bad : \A k \in bad : q <= k
  BY NatMinimum
<1>2. q # 0
  BY <1>1, PowerIs
<1>3. q - 1 \in Nat /\ q - 1 \notin bad
  BY <1>1, <1>2
<1>4. Power(x)[q - 1] \in Nat \ {0}
  BY <1>3
<1>5. Power(x)[q] = x * Power(x)[q - 1]
  BY <1>1, <1>2, PowerIs
<1>6. \A k \in Nat \ {0} : x * k \in Nat \ {0}
  BY Products
<1> QED BY <1>1, <1>4, <1>5, <1>6

(* Of q queries, each to one of x + 1 nodes, at most q find another node   *)
(* than all before.                                                        *)
LEMMA Bernoulli ==
  ASSUME NEW x \in Nat \ {0}
  PROVE  \A q \in Nat : q # 0 =>
            /\ Power(x)[q] <= Power(x + 1)[q]
            /\ Power(x + 1)[q] - Power(x)[q] <= q * Power(x + 1)[q - 1]
<1> DEFINE a(q) == Power(x + 1)[q]
           b(q) == Power(x)[q]
           bad == {q \in Nat : q # 0 /\ ~(b(q) <= a(q) /\ a(q) - b(q) <= q * a(q - 1))}
<1>1. x \in Nat /\ x + 1 \in Nat \ {0}
  OBVIOUS
<1>2. \A q \in Nat : a(q) \in Nat \ {0} /\ b(q) \in Nat \ {0}
  BY <1>1, PowerNat
<1>3. /\ a(0) = 1 /\ b(0) = 1
      /\ \A q \in Nat : q # 0 => a(q) = (x + 1) * a(q - 1) /\ b(q) = x * b(q - 1)
  BY <1>1, PowerIs
<1> HIDE DEF a, b
<1> SUFFICES ASSUME bad # {} PROVE FALSE
  BY DEF a, b
<1>4. PICK q \in bad : \A k \in bad : q <= k
  BY NatMinimum
<1>5. q \in Nat /\ q # 0 /\ ~(b(q) <= a(q) /\ a(q) - b(q) <= q * a(q - 1))
  OBVIOUS
<1>6. a(q) = (x + 1) * a(q - 1) /\ b(q) = x * b(q - 1)
  BY <1>3, <1>5
<1>7. CASE q = 1
  <2>1. a(q) = x + 1 /\ b(q) = x /\ a(q - 1) = 1
    BY <1>3, <1>6, <1>7
  <2> QED BY <1>5, <1>7, <2>1
<1>8. CASE q # 1
  <2>1. q - 1 \in Nat /\ q - 1 # 0 /\ q - 1 \notin bad
    BY <1>4, <1>5, <1>8
  <2>2. b(q - 1) <= a(q - 1) /\ a(q - 1) - b(q - 1) <= (q - 1) * a(q - 2)
    BY <2>1
  <2>3. a(q - 1) = (x + 1) * a(q - 2) /\ q - 2 \in Nat
    BY <1>3, <2>1
  <2>4. ASSUME NEW u \in Nat, NEW v \in Nat, NEW w \in Nat, NEW p \in Nat,
               v <= u, u - v <= p * w, u = (x + 1) * w
        PROVE  x * v <= (x + 1) * u /\ (x + 1) * u - x * v <= (p + 1) * u
    <3>1. x * v <= x * u /\ (x + 1) * u = x * u + u /\ x * u \in Nat
      BY <2>4, Times
    <3>2. x * (u - v) <= x * (p * w) /\ x * (u - v) = x * u - x * v
      BY <2>4, Times
    <3>3. x * (p * w) = p * (x * w) /\ p * (x * w) <= p * u
      <4>1. x * w \in Nat /\ x * w <= u
        BY <2>4, Times
      <4>2. p * (x * w) <= p * u
        BY <4>1, Times
      <4>3. x * (p * w) = p * (x * w)
        OBVIOUS
      <4> QED BY <4>2, <4>3
    <3>4. p * u + u = (p + 1) * u
      OBVIOUS
    <3>5. x * v \in Nat /\ p * u \in Nat /\ x * (p * w) \in Nat
      BY Times
    <3>6. (x + 1) * u - x * v = x * (u - v) + u
      BY <3>1, <3>2, <3>5
    <3> QED BY <3>1, <3>2, <3>3, <3>4, <3>5, <3>6
  <2>5. /\ x * b(q - 1) <= (x + 1) * a(q - 1)
        /\ (x + 1) * a(q - 1) - x * b(q - 1) <= ((q - 1) + 1) * a(q - 1)
    BY <1>2, <2>1, <2>2, <2>3, <2>4
  <2>6. (q - 1) + 1 = q
    BY <1>5
  <2> QED BY <1>5, <1>6, <2>5, <2>6
<1> QED BY <1>7, <1>8

(* The queries are never for more nodes than there are queries.            *)
LEMMA EffectiveBelow ==
  ASSUME NEW q \in Nat \ {0}
  PROVE  EffectiveNodes(q) \in 1..q
<1>1. N \in Nat /\ N - 1 \in Nat \ {0} /\ N = (N - 1) + 1 /\ N \in Nat \ {0}
  BY GraphSizes
<1> DEFINE d == Power(N)[q] - Power(N - 1)[q]
           c == Power(N)[q - 1]
<1>2. c \in Nat \ {0} /\ Power(N)[q] \in Nat /\ Power(N - 1)[q] \in Nat
  BY <1>1, PowerNat
<1>3. d <= q * c /\ d \in Nat
  BY <1>1, <1>2, Bernoulli
<1>4. EffectiveNodes(q) = IF d \div c \in 2..N THEN d \div c ELSE 1
  BY DEF EffectiveNodes
<1> HIDE DEF c, d
<1>5. d \div c \in 0..q
  <2>1. q * c \in Nat /\ c * (q + 1) = q * c + c
    BY <1>2, Times
  <2>2. d \in 0..(c * (q + 1) - 1)
    BY <1>2, <1>3, <2>1
  <2>3. d \div c \in 0..((q + 1) - 1)
    BY <1>2, <2>2, DivBelow
  <2> QED BY <2>3
<1> QED BY <1>4, <1>5

(* Rounding up.                                                            *)
LEMMA Ceiling ==
  ASSUME NEW a \in Nat, NEW b \in Nat \ {0}
  PROVE  /\ CeilDiv(a, b) \in Nat
         /\ a <= b * CeilDiv(a, b)
         /\ b * CeilDiv(a, b) <= a + b - 1
<1> DEFINE k == (a + b - 1) \div b
           r == (a + b - 1) % b
<1>1. a + b - 1 \in Nat
  OBVIOUS
<1>2. k \in Nat /\ r \in 0..(b - 1) /\ a + b - 1 = b * k + r
  BY <1>1
<1>3. CeilDiv(a, b) = k
  BY DEF CeilDiv
<1> HIDE DEF k, r
<1>4. b * k \in Nat
  BY <1>2, Times
<1>5. a <= b * k /\ b * k <= a + b - 1
  <2> DEFINE p == b * k
  <2>1. p \in Nat /\ a + b - 1 = p + r
    BY <1>2, <1>4
  <2> HIDE DEF p
  <2>2. a <= p /\ p <= a + b - 1
    BY <1>2, <2>1
  <2> QED BY <2>2 DEF p
<1> QED BY <1>2, <1>3, <1>5

(* The messages of q queries: not more than there are queries, when more   *)
(* than one goes in a message, and enough for all of them.                 *)
LEMMA MessagesFit ==
  ASSUME Coalescing > 1, NEW q \in Nat \ {0}
  PROVE  NumberOfMessages(q) <= q /\ q <= NumberOfMessages(q) * Coalescing
<1> DEFINE E == EffectiveNodes(q)
           C == Coalescing
           k == CeilDiv(q, E * C)
<1>1. E \in Nat \ {0} /\ E <= q /\ C \in Nat \ {0} /\ C > 1
  BY EffectiveBelow, GraphSizes
<1>2. NumberOfMessages(q) = E * k
  BY DEF NumberOfMessages
<1> HIDE DEF E, C
<1>3. E * C \in Nat \ {0}
  BY <1>1, Products
<1>4. k \in Nat /\ q <= (E * C) * k /\ (E * C) * k <= q + E * C - 1
  BY <1>3, Ceiling
<1> HIDE DEF k
<1>5. (E * C) * k = (E * k) * C
  BY <1>1, <1>4
<1>6. E * k <= q
  <2>1. CASE k <= 1
    <3>1. E * k <= E * 1
      BY <1>1, <1>4, <2>1, Times
    <3> QED BY <1>1, <1>4, <3>1, Times
  <2>2. CASE k >= 2
    <3>1. k - 1 \in Nat /\ 2 * (k - 1) >= k
      BY <1>4, <2>2
    <3>2. (E * C) * (k - 1) = (E * C) * k - E * C
      BY <1>3, <1>4, <3>1
    <3>3. (E * C) * (k - 1) <= q - 1
      <4>1. (E * C) * k \in Nat
        BY <1>3, <1>4, Times
      <4> QED BY <1>3, <1>4, <3>2, <4>1
    <3>4. k <= C * (k - 1)
      <4>1. 2 * (k - 1) <= C * (k - 1)
        <5>1. (k - 1) * 2 <= (k - 1) * C
          BY <1>1, <3>1, Times
        <5> QED BY <1>1, <3>1, <5>1
      <4>2. C * (k - 1) \in Nat
        BY <1>1, <3>1, Times
      <4> QED BY <1>4, <3>1, <4>1, <4>2
    <3>5. E * k <= E * (C * (k - 1)) /\ E * k \in Nat /\ E * (C * (k - 1)) \in Nat
      <4>1. C * (k - 1) \in Nat
        BY <1>1, <3>1, Times
      <4> QED BY <1>1, <1>4, <3>4, <4>1, Times
    <3>6. E * (C * (k - 1)) = (E * C) * (k - 1)
      BY <1>1, <3>1
    <3> QED BY <3>3, <3>5, <3>6
  <2> QED BY <1>4, <2>1, <2>2
<1> QED BY <1>2, <1>4, <1>5, <1>6 DEF C

(* A message takes queries enough to leave none when it is the last, and   *)
(* not too many to leave one for each of the others.                       *)
LEMMA FillFits ==
  ASSUME NEW q \in Nat, NEW m \in Nat \ {0}, m <= q, q <= m * Coalescing
  PROVE  LET f == Fill(q, m)
         IN  /\ f \in 1..Coalescing
             /\ m = 1 => f = q
             /\ q - f \in Nat /\ m - 1 <= q - f /\ q - f <= (m - 1) * Coalescing
<1> DEFINE C == Coalescing
           f == Fill(q, m)
           c == CeilDiv(q, m)
<1>1. C \in Nat \ {0} /\ f = IF q >= C + m - 1 THEN C ELSE c
  BY GraphSizes DEF Fill
<1>2. c \in Nat /\ q <= m * c /\ m * c <= q + m - 1
  BY Ceiling
<1>3. q <= m * C
  OBVIOUS
<1>4. m - 1 \in Nat /\ m * C = (m - 1) * C + C /\ (m - 1) * C \in Nat
      /\ m * c = (m - 1) * c + c /\ (m - 1) * c \in Nat
  <2>1. m - 1 \in Nat /\ (m - 1) + 1 = m
    OBVIOUS
  <2> HIDE DEF C, c
  <2>2. ((m - 1) + 1) * C = (m - 1) * C + C /\ ((m - 1) + 1) * c = (m - 1) * c + c
    BY <1>1, <1>2, <2>1, Times
  <2> QED BY <1>1, <1>2, <2>1, <2>2, Times
<1> HIDE DEF C, c, f
<1>5. CASE q >= C + m - 1
  <2>1. f = C
    BY <1>1, <1>5
  <2>2. m = 1 => f = q
    BY <1>1, <1>3, <1>4, <1>5, <2>1
  <2> QED BY <1>1, <1>3, <1>4, <1>5, <2>1, <2>2 DEF C, f
<1>6. CASE ~(q >= C + m - 1)
  <2>1. f = c
    BY <1>1, <1>6
  <2>2. c >= 1
    <3> SUFFICES ASSUME c = 0 PROVE FALSE
      BY <1>2
    <3>1. m * c = 0
      OBVIOUS
    <3> QED BY <1>2, <3>1
  <2>3. c <= C
    <3> SUFFICES ASSUME c >= C + 1 PROVE FALSE
      BY <1>1, <1>2
    <3>1. m * (C + 1) <= m * c /\ m * (C + 1) = m * C + m /\ m * C \in Nat /\ m * c \in Nat
      BY <1>1, <1>2, Times
    <3> QED BY <1>2, <1>3, <3>1
  <2>4. m = 1 => c = q
    <3> SUFFICES ASSUME m = 1 PROVE c = q
      OBVIOUS
    <3>1. m * c = c
      BY <1>2
    <3> QED BY <1>2, <3>1
  <2>5. (m - 1) + c <= q
    <3>1. (m - 1) * 1 <= (m - 1) * (c - 1)
      \/ c = 1
      BY <1>2, <1>4, <2>2, Times
    <3>2. CASE c = 1
      BY <3>2
    <3>3. CASE c # 1
      <4>1. c - 1 \in Nat /\ c - 1 >= 1 /\ (c - 1) + 1 = c
        BY <1>2, <2>2, <3>3
      <4>2. m * (c - 1) <= q - 1
        <5>1. m * ((c - 1) + 1) = m * (c - 1) + m
          <6>1. \A y \in Nat : m * (y + 1) = m * y + m
            OBVIOUS
          <6> QED BY <4>1, <6>1
        <5>2. m * (c - 1) \in Nat
          BY <4>1, Times
        <5> QED BY <1>2, <4>1, <5>1, <5>2
      <4>3. (m - 1) * (c - 1) >= m - 1
        BY <1>4, <3>1, <3>3, <4>1
      <4>4. m * (c - 1) = (m - 1) * (c - 1) + (c - 1)
        BY <4>1
      <4>5. (m - 1) * (c - 1) \in Nat
        BY <1>4, <4>1, Times
      <4> QED BY <1>2, <1>4, <4>1, <4>2, <4>3, <4>4, <4>5
    <3> QED BY <3>2, <3>3
  <2>6. q - c <= (m - 1) * C
    <3>1. (m - 1) * c <= (m - 1) * C
      BY <1>1, <1>2, <1>4, <2>3, Times
    <3> QED BY <1>1, <1>2, <1>4, <3>1
  <2> QED BY <1>1, <1>2, <1>4, <2>1, <2>2, <2>3, <2>4, <2>5, <2>6 DEF C, f
<1> QED BY <1>5, <1>6

-----------------------------------------------------------------------------
GraphStates ==
    {"ROOTNODE", "COMPUTEGENERATION", "SENDP2PREQUEST", "COMPUTERECEPTION", "COMPUTEP2PSIGNAL"}

GraphTypes ==
    /\ graphTurn \in 0..(N + 1) /\ graphAborted \in BOOLEAN
    /\ state \in [Computers -> GraphStates]
    /\ flit \in [Computers -> [to : 0..N, queries : Int, fresh : BOOLEAN]]
    /\ queriesToSend \in [Computers -> Nat] /\ p2pmessagesToSend \in [Computers -> Nat]
    /\ endSignalSentCounter \in [Computers -> Nat]
    /\ endsignalRxCounter \in [Computers -> Nat]
    /\ DOMAIN inFlight = Computers /\ \A n \in Computers : IsABag(inFlight[n])
    /\ putOff \in 0..MaxPutOff

(* Nodes but the root send nothing and miss a signal all along.            *)
WaitsAt(n) ==
    /\ state[n] = "COMPUTERECEPTION"
    /\ endSignalSentCounter[n] = N /\ endsignalRxCounter[n] = N - 2
    /\ p2pmessagesToSend[n] = 0 /\ queriesToSend[n] = 0 /\ flit[n] = NoFlit

(* What the root is doing tells what it has sent.                          *)
RootAt(n) ==
    /\ endsignalRxCounter[n] = IF state[n] = "ROOTNODE" THEN N - 2 ELSE N - 1
    /\ state[n] = "ROOTNODE" => endSignalSentCounter[n] = N
    /\ state[n] \in {"ROOTNODE", "COMPUTEP2PSIGNAL"} =>
            p2pmessagesToSend[n] = 0 /\ queriesToSend[n] = 0 /\ flit[n] = NoFlit
    /\ state[n] \notin {"ROOTNODE", "COMPUTEP2PSIGNAL"} =>
            p2pmessagesToSend[n] > 0 /\ endSignalSentCounter[n] = 0
    /\ state[n] = "COMPUTEP2PSIGNAL" => endSignalSentCounter[n] \in 0..1
    /\ state[n] = "COMPUTEP2PSIGNAL" /\ ~graphAborted => endSignalSentCounter[n] = 0
    /\ state[n] = "COMPUTEGENERATION" => flit[n] = NoFlit
    /\ state[n] = "SENDP2PREQUEST" => flit[n] # NoFlit

(* The queries left fit the messages left; a message that has not gone yet *)
(* is filled for them.                                                     *)
Filled(n) ==
    /\ p2pmessagesToSend[n] <= queriesToSend[n]
    /\ queriesToSend[n] <= p2pmessagesToSend[n] * Coalescing
    /\ flit[n] # NoFlit =>
        /\ p2pmessagesToSend[n] > 0
        /\ flit[n].queries = Fill(queriesToSend[n], p2pmessagesToSend[n])
        /\ flit[n].to \in Peers(n)

AtNode(n) == Filled(n) /\ IF n = RootNode THEN RootAt(n) ELSE WaitsAt(n)

GraphIInv == GraphTypes /\ \A n \in Computers : AtNode(n)
-----------------------------------------------------------------------------
LEMMA GraphStarts == GraphInit => GraphIInv
<1> SUFFICES ASSUME GraphInit PROVE GraphIInv
  OBVIOUS
<1>1. GraphTypes
  <2>1. NoFlit \in [to : 0..N, queries : Int, fresh : BOOLEAN]
    BY GraphSizes DEF NoFlit
  <2>2. N - 2 \in Nat /\ N \in Nat /\ 0 \in 0..(N + 1) /\ 0 \in 0..MaxPutOff
    BY GraphSizes
  <2>3. IsABag(EmptyBag)
    BY DEF IsABag, EmptyBag, SetToBag
  <2> QED BY <2>1, <2>2, <2>3 DEF GraphInit, GraphTypes, GraphStates
<1>2. ASSUME NEW n \in Computers PROVE AtNode(n)
  <2>1. /\ queriesToSend[n] = 0 /\ p2pmessagesToSend[n] = 0 /\ flit[n] = NoFlit
        /\ endSignalSentCounter[n] = N /\ endsignalRxCounter[n] = N - 2
        /\ state[n] = IF n = RootNode THEN "ROOTNODE" ELSE "COMPUTERECEPTION"
    BY DEF GraphInit
  <2>2. 0 <= 0 * Coalescing
    BY GraphSizes
  <2> QED BY <2>1, <2>2 DEF AtNode, Filled, RootAt, WaitsAt
<1> QED BY <1>1, <1>2 DEF GraphIInv

(* A node that has its turn and does something else than wait is the root. *)
LEMMA TurnOfRoot ==
  ASSUME GraphIInv, NEW n \in Computers, state[n] # "COMPUTERECEPTION"
  PROVE  n = RootNode
BY DEF GraphIInv, AtNode, WaitsAt

(* What a step of the root leaves to be shown about it.                    *)
LEMMA RootStep ==
  ASSUME GraphIInv, GraphTypes', AtNode(RootNode)',
         \A k \in Peers(RootNode) :
            /\ state'[k] = state[k] /\ flit'[k] = flit[k]
            /\ queriesToSend'[k] = queriesToSend[k]
            /\ p2pmessagesToSend'[k] = p2pmessagesToSend[k]
            /\ endSignalSentCounter'[k] = endSignalSentCounter[k]
            /\ endsignalRxCounter'[k] = endsignalRxCounter[k]
  PROVE  GraphIInv'
<1> SUFFICES ASSUME NEW k \in Computers, k # RootNode PROVE AtNode(k)'
  BY DEF GraphIInv
<1>1. k \in Peers(RootNode) /\ AtNode(k)
  BY DEF Peers, GraphIInv
<1> QED BY <1>1 DEF AtNode, Filled, WaitsAt, Fill

LEMMA RootNodeStartKept ==
  ASSUME GraphIInv, Coalescing > 1, NEW n \in Computers, RootNodeStart(n)
  PROVE  GraphIInv'
<1> DEFINE q == CeilDiv(RootDegree * (N - 1), N)
           m == IF NumberOfMessages(q) > 1 THEN NumberOfMessages(q) ELSE 1
<1>1. /\ queriesToSend' = [queriesToSend EXCEPT ![n] = q]
      /\ p2pmessagesToSend' = [p2pmessagesToSend EXCEPT ![n] = m]
      /\ endSignalSentCounter' = [endSignalSentCounter EXCEPT ![n] = 0]
      /\ endsignalRxCounter' = [endsignalRxCounter EXCEPT ![n] = @ + 1]
      /\ state' = [state EXCEPT ![n] = "COMPUTEGENERATION"]
      /\ UNCHANGED <<graphTurn, graphAborted, flit, inFlight, putOff>>
      /\ state[n] = "ROOTNODE"
  BY DEF RootNodeStart, In, Goto, SameCycle
<1>2. q \in Nat \ {0}
  <2>1. RootDegree \in Nat \ {0} /\ N - 1 \in Nat \ {0} /\ N \in Nat \ {0}
    BY GraphSizes
  <2>2. RootDegree * (N - 1) \in Nat \ {0}
    BY <2>1, Products
  <2> DEFINE a == RootDegree * (N - 1)
  <2>3. a \in Nat /\ a > 0
    BY <2>2
  <2> HIDE DEF a
  <2>4. CeilDiv(a, N) \in Nat /\ CeilDiv(a, N) > 0
    BY <2>1, <2>3, DivPositive
  <2>5. q = CeilDiv(a, N)
    BY DEF a
  <2> QED BY <2>4, <2>5
<1> HIDE DEF q
<1>3. /\ NumberOfMessages(q) \in Nat \ {0}
      /\ NumberOfMessages(q) <= q /\ q <= NumberOfMessages(q) * Coalescing
  <2>1. q \in Nat /\ q > 0
    BY <1>2
  <2>2. NumberOfMessages(q) \in Nat /\ NumberOfMessages(q) > 0
    BY <2>1, MessagesCounted
  <2> QED BY <1>2, <2>2, MessagesFit
<1>4. m = NumberOfMessages(q)
  BY <1>3
<1> HIDE DEF m
<1>5. m \in Nat /\ m > 0 /\ m <= q /\ q <= m * Coalescing
  BY <1>3, <1>4
<1>6. n = RootNode
  BY <1>1, TurnOfRoot
<1>7. GraphTypes'
  <2>1. GraphTypes /\ n \in Computers
    BY DEF GraphIInv
  <2>2. q \in Nat /\ m \in Nat
    BY <1>2, <1>5
  <2>3. endsignalRxCounter[n] + 1 \in Nat
    BY <2>1 DEF GraphTypes
  <2> QED BY <1>1, <2>1, <2>2, <2>3 DEF GraphTypes, GraphStates
<1>8. AtNode(RootNode)'
  <2>1. AtNode(n) /\ GraphTypes
    BY DEF GraphIInv
  <2>2. /\ queriesToSend'[n] = q /\ p2pmessagesToSend'[n] = m
        /\ endSignalSentCounter'[n] = 0 /\ endsignalRxCounter'[n] = endsignalRxCounter[n] + 1
        /\ state'[n] = "COMPUTEGENERATION" /\ flit'[n] = flit[n]
    BY <1>1, <2>1 DEF GraphTypes
  <2>3. flit[n] = NoFlit /\ endsignalRxCounter[n] = N - 2
    BY <1>1, <1>6, <2>1 DEF AtNode, RootAt
  <2>4. (N - 2) + 1 = N - 1
    BY GraphSizes
  <2> QED BY <1>5, <1>6, <2>2, <2>3, <2>4 DEF AtNode, RootAt, Filled
<1>9. \A k \in Peers(RootNode) :
        /\ state'[k] = state[k] /\ flit'[k] = flit[k]
        /\ queriesToSend'[k] = queriesToSend[k] /\ p2pmessagesToSend'[k] = p2pmessagesToSend[k]
        /\ endSignalSentCounter'[k] = endSignalSentCounter[k]
        /\ endsignalRxCounter'[k] = endsignalRxCounter[k]
  BY <1>1, <1>6 DEF GraphIInv, GraphTypes, Peers
<1> QED BY <1>7, <1>8, <1>9, RootStep

LEMMA GenerationKept ==
  ASSUME GraphIInv, NEW n \in Computers, ComputeGeneration(n)
  PROVE  GraphIInv'
<1>1. /\ state[n] = "COMPUTEGENERATION" /\ graphTurn = n /\ graphTurn' \in {n, n + 1}
      /\ UNCHANGED <<graphAborted, queriesToSend, p2pmessagesToSend, endSignalSentCounter,
                     endsignalRxCounter, inFlight>>
      /\ putOff' \in 0..MaxPutOff
  <2>1. putOff' = putOff \/ (putOff < MaxPutOff /\ putOff' = putOff + 1)
    BY Zenon DEF ComputeGeneration, PutOff
  <2>2. putOff \in 0..MaxPutOff /\ MaxPutOff \in Nat
    BY GraphSizes DEF GraphIInv, GraphTypes
  <2>3. putOff' \in 0..MaxPutOff
    <3>1. CASE putOff' = putOff
      BY ONLY <2>2, <3>1
    <3>2. CASE putOff < MaxPutOff /\ putOff' = putOff + 1
      BY ONLY <2>2, <3>2
    <3> QED BY <2>1, <3>1, <3>2
  <2> QED BY <2>3 DEF ComputeGeneration, In, EndCycle, SameCycle, queries, signals
<1>2. n = RootNode /\ GraphTypes /\ AtNode(n)
  BY <1>1, TurnOfRoot DEF GraphIInv
<1>3. n \in 1..N /\ N \in Nat
  BY GraphSizes DEF Computers
<1>4. flit[n] = NoFlit /\ p2pmessagesToSend[n] > 0
  BY <1>1, <1>2 DEF AtNode, RootAt
<1>5. CASE UNCHANGED <<state, flit>>
  <2>1. GraphTypes'
    BY <1>1, <1>2, <1>3, <1>5 DEF GraphTypes
  <2>2. ASSUME NEW k \in Computers PROVE AtNode(k)'
    <3>1. AtNode(k)
      BY DEF GraphIInv
    <3> QED BY <1>1, <1>5, <3>1 DEF AtNode, Filled, RootAt, WaitsAt, Fill
  <2> QED BY <2>1, <2>2 DEF GraphIInv
<1>6. CASE \E d \in Peers(n) :
            /\ flit' = [flit EXCEPT
                    ![n] = QueryFlit(d, Fill(queriesToSend[n], p2pmessagesToSend[n]))]
            /\ state' = [state EXCEPT ![n] = "SENDP2PREQUEST"]
  <2> DEFINE c == Fill(queriesToSend[n], p2pmessagesToSend[n])
  <2>1. PICK d \in Peers(n) :
            /\ flit' = [flit EXCEPT ![n] = QueryFlit(d, c)]
            /\ state' = [state EXCEPT ![n] = "SENDP2PREQUEST"]
    BY <1>6
  <2>2. c \in Int
    <3>1. /\ queriesToSend[n] \in Nat /\ p2pmessagesToSend[n] \in Nat \ {0}
          /\ p2pmessagesToSend[n] <= queriesToSend[n]
          /\ queriesToSend[n] <= p2pmessagesToSend[n] * Coalescing
      BY <1>2, <1>4 DEF AtNode, Filled, GraphTypes
    <3>2. c \in 1..Coalescing
      BY <3>1, FillFits
    <3> HIDE DEF c
    <3> QED BY <3>2, GraphSizes
  <2>3. d \in 1..N
    BY DEF Peers, Computers
  <2> HIDE DEF c
  <2>4. QueryFlit(d, c) \in [to : 0..N, queries : Int, fresh : BOOLEAN]
    BY <1>3, <2>2, <2>3 DEF QueryFlit
  <2>5. GraphTypes'
    BY <1>1, <1>2, <1>3, <2>1, <2>4 DEF GraphTypes, GraphStates
  <2>6. /\ flit'[n].to = d /\ flit'[n].queries = c /\ flit'[n] # NoFlit
        /\ state'[n] = "SENDP2PREQUEST"
    BY <1>2, <2>1, <2>3 DEF GraphTypes, QueryFlit, NoFlit
  <2>7. Filled(n)'
    <3>1. c = Fill(queriesToSend[n], p2pmessagesToSend[n])
      BY DEF c
    <3> QED BY <1>1, <1>2, <1>4, <2>6, <3>1 DEF AtNode, Filled, Fill
  <2>8. AtNode(n)'
    BY <1>1, <1>2, <2>6, <2>7 DEF AtNode, RootAt
  <2>9. \A k \in Peers(RootNode) : state'[k] = state[k] /\ flit'[k] = flit[k]
    BY <1>2, <2>1 DEF GraphTypes, Peers
  <2> QED BY <1>1, <1>2, <2>5, <2>8, <2>9, RootStep
<1> QED BY <1>5, <1>6 DEF ComputeGeneration, Goto

LEMMA RequestSentKept ==
  ASSUME GraphIInv, NEW n \in Computers, RequestSent(n)
  PROVE  GraphIInv'
<1> DEFINE q == queriesToSend[n]
           m == p2pmessagesToSend[n]
           f == flit[n].queries
           to == flit[n].to
<1>1. /\ state[n] = "SENDP2PREQUEST" /\ graphTurn = n /\ graphTurn' \in {n, n + 1}
      /\ inFlight' = [inFlight EXCEPT ![to] = @ (+) SetToBag({f})]
      /\ flit' = [flit EXCEPT ![n] = NoFlit]
      /\ p2pmessagesToSend' = [p2pmessagesToSend EXCEPT ![n] = m - 1]
      /\ queriesToSend' = [queriesToSend EXCEPT ![n] = q - f]
      /\ state' = [state EXCEPT
            ![n] = IF m = 1 THEN "COMPUTEP2PSIGNAL" ELSE "COMPUTERECEPTION"]
      /\ ~graphAborted
      /\ UNCHANGED <<graphAborted, endSignalSentCounter, endsignalRxCounter, putOff>>
  BY DEF RequestSent, In, Goto, EndCycle, SameCycle, signals
<1>2. n = RootNode /\ GraphTypes /\ AtNode(n)
  BY <1>1, TurnOfRoot DEF GraphIInv
<1>3. /\ q \in Nat /\ m \in Nat \ {0} /\ m <= q /\ q <= m * Coalescing
      /\ f = Fill(q, m) /\ to \in Peers(n)
      /\ endSignalSentCounter[n] = 0 /\ endsignalRxCounter[n] = N - 1
  BY <1>1, <1>2 DEF AtNode, RootAt, Filled, GraphTypes
<1>4. q - f \in Nat /\ m - 1 \in Nat /\ m - 1 <= q - f /\ q - f <= (m - 1) * Coalescing
  BY <1>3, FillFits
<1>5. m = 1 => q - f = 0
  BY <1>3, FillFits
<1> HIDE DEF q, m, f, to
<1>6. GraphTypes'
  <2>1. NoFlit \in [to : 0..N, queries : Int, fresh : BOOLEAN] /\ graphTurn' \in 0..(N + 1)
    BY <1>1, GraphSizes DEF NoFlit, Computers
  <2>2. DOMAIN inFlight' = Computers /\ \A k \in Computers : IsABag(inFlight'[k])
    <3>1. DOMAIN inFlight = Computers /\ \A k \in Computers : IsABag(inFlight[k])
      BY <1>2 DEF GraphTypes
    <3>2. \A k \in Computers : inFlight'[k] = inFlight[k]
            \/ inFlight'[k] = inFlight[k] (+) SetToBag({f})
      BY <1>1, <3>1
    <3>3. \A k \in Computers : IsABag(inFlight[k] (+) SetToBag({f}))
      BY <3>1, BagPut
    <3> QED BY <1>1, <3>1, <3>2, <3>3
  <2>3. /\ state' \in [Computers -> GraphStates]
        /\ flit' \in [Computers -> [to : 0..N, queries : Int, fresh : BOOLEAN]]
        /\ queriesToSend' \in [Computers -> Nat] /\ p2pmessagesToSend' \in [Computers -> Nat]
    BY <1>1, <1>2, <1>4, <2>1 DEF GraphTypes, GraphStates
  <2> QED BY <1>1, <1>2, <2>1, <2>2, <2>3 DEF GraphTypes
<1>7. AtNode(n)'
  <2>1. /\ queriesToSend'[n] = q - f /\ p2pmessagesToSend'[n] = m - 1 /\ flit'[n] = NoFlit
        /\ state'[n] = IF m = 1 THEN "COMPUTEP2PSIGNAL" ELSE "COMPUTERECEPTION"
    BY <1>1, <1>2 DEF GraphTypes
  <2>2. Filled(n)'
    BY <1>4, <2>1 DEF Filled
  <2>3. RootAt(n)'
    BY <1>1, <1>3, <1>4, <1>5, <2>1 DEF RootAt
  <2> QED BY <1>2, <2>2, <2>3 DEF AtNode
<1>8. \A k \in Peers(RootNode) :
        /\ state'[k] = state[k] /\ flit'[k] = flit[k]
        /\ queriesToSend'[k] = queriesToSend[k] /\ p2pmessagesToSend'[k] = p2pmessagesToSend[k]
  BY <1>1, <1>2 DEF GraphTypes, Peers
<1> QED BY <1>1, <1>2, <1>6, <1>7, <1>8, RootStep

LEMMA RequestKeptKept ==
  ASSUME GraphIInv, NEW n \in Computers, RequestKept(n)
  PROVE  GraphIInv'
<1>1. /\ state[n] = "SENDP2PREQUEST" /\ graphTurn = n /\ graphTurn' \in {n, n + 1}
      /\ flit' = [flit EXCEPT ![n].fresh = FALSE]
      /\ state' = state \/ state' = [state EXCEPT ![n] = "COMPUTERECEPTION"]
      /\ UNCHANGED <<graphAborted, queriesToSend, p2pmessagesToSend, endSignalSentCounter,
                     endsignalRxCounter, inFlight>>
      /\ putOff' \in 0..MaxPutOff
  <2>1. putOff < MaxPutOff /\ putOff' = putOff + 1
    BY DEF RequestKept, PutOff
  <2>2. putOff' \in 0..MaxPutOff
    BY <2>1, GraphSizes DEF GraphIInv, GraphTypes
  <2> QED BY <2>2 DEF RequestKept, In, Goto, EndCycle, SameCycle, queries, signals
<1>2. n = RootNode /\ GraphTypes /\ AtNode(n)
  BY <1>1, TurnOfRoot DEF GraphIInv
<1>3. /\ flit'[n].to = flit[n].to /\ flit'[n].queries = flit[n].queries
      /\ flit'[n] \in [to : 0..N, queries : Int, fresh : BOOLEAN]
  BY <1>1, <1>2 DEF GraphTypes
<1>4. flit[n] # NoFlit /\ flit[n].to \in Peers(n) /\ flit'[n] # NoFlit
  <2>1. flit[n] # NoFlit
    BY <1>1, <1>2 DEF AtNode, RootAt
  <2>2. flit[n].to \in Peers(n)
    BY <1>2, <2>1 DEF AtNode, Filled
  <2>3. flit'[n].to # 0 /\ NoFlit.to = 0
    BY <1>3, <2>2 DEF Peers, Computers, NoFlit
  <2> QED BY <2>1, <2>2, <2>3
<1>5. GraphTypes'
  <2>1. graphTurn' \in 0..(N + 1)
    BY <1>1, GraphSizes DEF Computers
  <2>2. flit' \in [Computers -> [to : 0..N, queries : Int, fresh : BOOLEAN]]
    <3>1. flit' = [flit EXCEPT ![n] = flit'[n]]
      BY <1>1, <1>2 DEF GraphTypes
    <3> QED BY <1>2, <1>3, <3>1 DEF GraphTypes
  <2> QED BY <1>1, <1>2, <2>1, <2>2 DEF GraphTypes, GraphStates
<1>6. AtNode(n)'
  <2>1. state'[n] \in {"SENDP2PREQUEST", "COMPUTERECEPTION"}
    BY <1>1, <1>2 DEF GraphTypes
  <2>2. Filled(n)'
    BY <1>1, <1>2, <1>3, <1>4 DEF AtNode, Filled, Fill
  <2>3. RootAt(n)'
    BY <1>1, <1>2, <1>4, <2>1 DEF AtNode, RootAt
  <2> QED BY <1>2, <2>2, <2>3 DEF AtNode
<1>7. \A k \in Peers(RootNode) : state'[k] = state[k] /\ flit'[k] = flit[k]
  BY <1>1, <1>2 DEF GraphTypes, Peers
<1> QED BY <1>1, <1>2, <1>5, <1>6, <1>7, RootStep

(* The root goes on to send; the others wait for a signal and stay.        *)
LEMMA ReceptionKept ==
  ASSUME GraphIInv, NEW n \in Computers, ComputeReception(n)
  PROVE  GraphIInv'
<1> DEFINE pending == IF receptionPendingCycles[n] < 0 THEN -1
                      ELSE receptionPendingCycles[n] - 1
           next == NextState(n, pending)
<1>1. /\ state[n] = "COMPUTERECEPTION" /\ graphTurn = n /\ graphTurn' = n + 1
      /\ state' = [state EXCEPT ![n] = next]
      /\ UNCHANGED <<graphAborted, flit, queriesToSend, p2pmessagesToSend,
                     endSignalSentCounter, endsignalRxCounter, inFlight, putOff>>
  BY DEF ComputeReception, In, Goto, EndCycle, queries, signals
<1>2. GraphTypes /\ AtNode(n)
  BY DEF GraphIInv
<1>3. n # RootNode => next = "COMPUTERECEPTION"
  BY <1>2, GraphSizes DEF AtNode, WaitsAt, NextState, AllHere
<1>4. n = RootNode =>
        \/ next = "SENDP2PREQUEST" /\ flit[n] # NoFlit
        \/ next = "COMPUTEGENERATION" /\ flit[n] = NoFlit
        \/ next = "COMPUTERECEPTION"
  BY <1>1, <1>2 DEF AtNode, RootAt, NextState
<1> HIDE DEF next
<1>5. GraphTypes'
  <2>1. graphTurn' \in 0..(N + 1)
    BY <1>1, GraphSizes DEF Computers
  <2> QED BY <1>1, <1>2, <1>3, <1>4, <2>1 DEF GraphTypes, GraphStates
<1>6. ASSUME NEW k \in Computers PROVE AtNode(k)'
  <2>1. AtNode(k) /\ state'[k] = IF k = n THEN next ELSE state[k]
    BY <1>1, <1>2 DEF GraphIInv, GraphTypes
  <2>2. Filled(k)'
    BY <1>1, <2>1 DEF AtNode, Filled, Fill
  <2>3. CASE k = RootNode
    BY <1>1, <1>4, <2>1, <2>2, <2>3 DEF AtNode, RootAt
  <2>4. CASE k # RootNode
    BY <1>1, <1>3, <2>1, <2>2, <2>4 DEF AtNode, WaitsAt
  <2> QED BY <2>3, <2>4
<1> QED BY <1>5, <1>6 DEF GraphIInv

LEMMA P2pSignalKept ==
  ASSUME GraphIInv, NEW n \in Computers, ComputeP2pSignal(n)
  PROVE  GraphIInv'
<1>1. /\ state[n] = "COMPUTEP2PSIGNAL" /\ ~graphAborted /\ graphAborted' = TRUE
      /\ endSignalSentCounter' = [endSignalSentCounter EXCEPT
            ![n] = IF Host[@ + 1] = n THEN @ + 1 ELSE @]
      /\ UNCHANGED <<graphTurn, state, flit, queriesToSend, p2pmessagesToSend,
                     endsignalRxCounter, inFlight, putOff>>
  BY DEF ComputeP2pSignal, In, HasInjectionVC, queries
<1>2. n = RootNode /\ GraphTypes /\ AtNode(n)
  BY <1>1, TurnOfRoot DEF GraphIInv
<1>3. endSignalSentCounter[n] = 0
  BY <1>1, <1>2 DEF AtNode, RootAt
<1>4. /\ endSignalSentCounter' \in [Computers -> Nat] /\ endSignalSentCounter'[n] \in 0..1
      /\ \A k \in Computers : k # n => endSignalSentCounter'[k] = endSignalSentCounter[k]
  BY <1>1, <1>2, <1>3 DEF GraphTypes
<1>5. GraphTypes'
  BY <1>1, <1>2, <1>4 DEF GraphTypes
<1>6. AtNode(n)'
  <2>1. Filled(n)'
    BY <1>1, <1>2 DEF AtNode, Filled, Fill
  <2> QED BY <1>1, <1>2, <1>4, <2>1 DEF AtNode, RootAt
<1> QED BY <1>1, <1>2, <1>4, <1>5, <1>6, RootStep DEF Peers

LEMMA SwitchesActKept ==
  ASSUME GraphIInv, SwitchesAct
  PROVE  GraphIInv'
<1>1. /\ graphTurn = 0 /\ graphTurn' = 1
      /\ UNCHANGED <<graphAborted, state, flit, queriesToSend, p2pmessagesToSend,
                     endSignalSentCounter, endsignalRxCounter, putOff>>
  BY DEF SwitchesAct, EndCycle, queries, signals
<1>2. PICK arrived : inFlight' = [n \in Computers |-> inFlight[n] (-) SetToBag({arrived[n]})]
  BY DEF SwitchesAct
<1>3. GraphTypes
  BY DEF GraphIInv
<1>4. ASSUME NEW n \in Computers PROVE IsABag(inFlight'[n])
  <2>1. IsABag(inFlight[n]) /\ inFlight'[n] = inFlight[n] (-) SetToBag({arrived[n]})
    BY <1>2, <1>3 DEF GraphTypes
  <2>2. CASE arrived[n] \in DOMAIN inFlight[n]
    BY <2>1, <2>2, BagTake
  <2>3. CASE arrived[n] \notin DOMAIN inFlight[n]
    BY <2>1, <2>3, BagTakeNone
  <2> QED BY <2>2, <2>3
<1>5. GraphTypes'
  <2>1. graphTurn' \in 0..(N + 1)
    BY <1>1, GraphSizes
  <2>2. DOMAIN inFlight' = Computers
    BY <1>2
  <2> QED BY <1>1, <1>3, <1>4, <2>1, <2>2 DEF GraphTypes
<1>6. ASSUME NEW k \in Computers PROVE AtNode(k)'
  <2>1. AtNode(k)
    BY DEF GraphIInv
  <2> QED BY <1>1, <2>1 DEF AtNode, Filled, RootAt, WaitsAt, Fill
<1> QED BY <1>5, <1>6 DEF GraphIInv

(* A step that leaves the nodes and the flits as they are.                 *)
LEMMA NodesSame ==
  ASSUME GraphIInv, graphTurn' \in 0..(N + 1),
         UNCHANGED <<graphAborted, state, flit, queriesToSend, p2pmessagesToSend,
                     endSignalSentCounter, endsignalRxCounter, inFlight, putOff>>
  PROVE  GraphIInv'
<1>1. GraphTypes'
  BY DEF GraphIInv, GraphTypes
<1>2. ASSUME NEW k \in Computers PROVE AtNode(k)'
  <2>1. AtNode(k)
    BY DEF GraphIInv
  <2> QED BY <2>1 DEF AtNode, Filled, RootAt, WaitsAt, Fill
<1> QED BY <1>1, <1>2 DEF GraphIInv

LEMMA GraphStep ==
  ASSUME Coalescing > 1, GraphIInv, [GraphNext]_graphVars
  PROVE  GraphIInv'
<1>1. CASE SwitchesAct
  BY <1>1, SwitchesActKept
<1>2. ASSUME NEW n \in Computers, Turn(n) PROVE GraphIInv'
  <2>1. CASE RootNodeStart(n)
    BY <2>1, RootNodeStartKept
  <2>2. CASE ComputeGeneration(n)
    BY <2>2, GenerationKept
  <2>3. CASE RequestSent(n)
    BY <2>3, RequestSentKept
  <2>4. CASE RequestKept(n)
    BY <2>4, RequestKeptKept
  <2>5. CASE ComputeReception(n)
    BY <2>5, ReceptionKept
  <2>6. CASE ComputeP2pSignal(n)
    BY <2>6, P2pSignalKept
  <2> QED BY <1>2, <2>1, <2>2, <2>3, <2>4, <2>5, <2>6 DEF Turn
<1>3. CASE EndOfCycle
  <2>1. graphTurn' \in 0..(N + 1)
    BY <1>3, GraphSizes DEF EndOfCycle
  <2> QED BY <1>3, <2>1, NodesSame DEF EndOfCycle, queries, signals
<1>4. CASE UNCHANGED graphVars
  <2>1. graphTurn' \in 0..(N + 1)
    BY <1>4 DEF graphVars, GraphIInv, GraphTypes
  <2> QED BY <1>4, <2>1, NodesSame DEF graphVars
<1> QED BY <1>1, <1>2, <1>3, <1>4 DEF GraphNext

LEMMA GraphTypesFromInv == GraphIInv => GraphTypeOK
<1> SUFFICES ASSUME GraphIInv PROVE GraphTypeOK
  OBVIOUS
<1>1. ASSUME NEW n \in Computers
      PROVE  /\ state[n] \in GraphStates /\ flit[n].to \in Peers(n) \cup {0}
             /\ queriesToSend[n] \in Nat /\ p2pmessagesToSend[n] \in Nat /\ QueriesFit(n)
             /\ endSignalSentCounter[n] \in 0..N /\ endsignalRxCounter[n] \in 0..(N - 1)
             /\ IsABag(inFlight[n])
  <2>1. AtNode(n) /\ GraphTypes
    BY DEF GraphIInv
  <2>2. state[n] \in GraphStates /\ IsABag(inFlight[n])
        /\ queriesToSend[n] \in Nat /\ p2pmessagesToSend[n] \in Nat
    BY <2>1 DEF GraphTypes
  <2>3. flit[n].to \in Peers(n) \cup {0}
    BY <2>1 DEF AtNode, Filled, NoFlit
  <2>4. endSignalSentCounter[n] \in 0..N /\ endsignalRxCounter[n] \in 0..(N - 1)
    BY <2>1, GraphSizes DEF AtNode, RootAt, WaitsAt
  <2>5. QueriesFit(n)
    <3>1. ASSUME flit[n] # NoFlit
          PROVE  /\ flit[n].queries \in 1..Coalescing
                 /\ p2pmessagesToSend[n] = 1 => flit[n].queries = queriesToSend[n]
      <4>1. /\ p2pmessagesToSend[n] \in Nat \ {0}
            /\ p2pmessagesToSend[n] <= queriesToSend[n]
            /\ queriesToSend[n] <= p2pmessagesToSend[n] * Coalescing
            /\ flit[n].queries = Fill(queriesToSend[n], p2pmessagesToSend[n])
        BY <2>1, <2>2, <3>1 DEF AtNode, Filled
      <4> QED BY <2>2, <4>1, FillFits
    <3> QED BY <2>1, <3>1 DEF QueriesFit, AtNode, Filled
  <2> QED BY <2>2, <2>3, <2>4, <2>5
<1> QED BY <1>1 DEF GraphTypeOK, GraphIInv, GraphTypes, GraphStates

(* The messages carry the queries of the root exactly, whatever the number *)
(* of nodes and queries and however long a message waits for a channel     *)
(* (computegeneration, sendp2prequest), and no node gets beyond the state  *)
(* in which the root makes its first signal (getInjectionVC).              *)
THEOREM QueriesCarried == Coalescing > 1 => (GraphSpec => []GraphTypeOK)
<1> SUFFICES ASSUME Coalescing > 1 PROVE GraphSpec => []GraphTypeOK
  OBVIOUS
<1>1. GraphInit => GraphIInv
  BY GraphStarts
<1>2. GraphIInv /\ [GraphNext]_graphVars => GraphIInv'
  BY GraphStep
<1>3. GraphIInv => GraphTypeOK
  BY GraphTypesFromInv
<1> QED BY <1>1, <1>2, <1>3, PTL DEF GraphSpec

-----------------------------------------------------------------------------
(* Packets are counted wherever they are.                                  *)
AllPackets == [type : PetitionTypes, from : Generators, to : Generators]

(* A set of a place for each of the c[x] things at x.                      *)
Units(c) == UNION {{x} \X (1..c[x]) : x \in DOMAIN c}
Count(c) == Cardinality(Units(c))

(* The packets of C in a queue, in all queues and in the network.          *)
Within(q, C) == Cardinality({i \in DOMAIN q : q[i] \in C})
Queued(queues, S, C) == [x \in S |-> Within(queues[x[1]][x[2]], C)]
PlacesOf(S) == Generators \X S
Injecting(C) == Queued(injection, PlacesOf(Vcs), C)
Waiting(C) == Queued(outBuffers, PlacesOf(0..1), C)
Travelling(C) == [p \in C |-> CopiesOf(p, network)]
Total(C) == Count(Injecting(C)) + Count(Waiting(C)) + Count(Travelling(C))

(* Node n waits for its packets to arrive, or for the responses to its     *)
(* petitions, which are petitions before.                                  *)
Owner(p) == IF p.type = "PETITION" \/ ~config.reactive THEN p.from ELSE p.to
Concerning(n) == {p \in AllPackets : Owner(p) = n}
Mine(n) == Total(Concerning(n))

Finite == config.pattern \notin Endless

CounterTypes ==
    /\ flitsTx \in [Generators -> Nat] /\ flitsRx \in [Generators -> Nat]
    /\ pendingPetitions \in [Generators -> Nat] /\ sent \in [Generators -> Nat]
    /\ finishedCount \in Nat

Queues ==
    /\ \A n \in Generators : \A vc \in Vcs : Len(injection[n][vc]) <= ChannelSpace
    /\ \A n \in Generators : \A flow \in 0..1 :
          /\ Len(outBuffers[n][flow]) <= OutSpace
          /\ \A i \in DOMAIN outBuffers[n][flow] : outBuffers[n][flow][i].to = n

(* What a node has sent and what has arrived or been answered differ by    *)
(* the packets that are in the system.                                     *)
Accounted ==
    \A n \in Generators :
        /\ flitsTx[n] <= FullLength /\ sent[n] <= MaxSent[n]
        /\ Finite => flitsTx[n] = flitsRx[n] + Mine(n)
        /\ ~Finite => flitsTx[n] = 0 /\ flitsRx[n] = 0
        /\ pendingPetitions[n] = IF config.reactive THEN Mine(n) ELSE 0
        /\ pendingPetitions[n] <= sent[n]

Complete == {n \in Generators : flitsRx[n] = FullLength}
Finished == finishedCount = IF Finite THEN Cardinality(Complete) ELSE 0

(* A node that begins a burst finds room for its first packet.             *)
Roomy ==
    /\ bursts \in [Generators -> Nat]
    /\ \A n \in Generators :
        /\ bursts[n] <= MaxBursts /\ burst[n].vc \in Vcs
        /\ config.pattern = "BURSTY_UN" /\ ~burst[n].on =>
            \E vc \in InjectionVcs(OwnType) : Space(n, vc) >= 1

(* The destinations of an all-to-all that were taken are served, if the    *)
(* packets are as many.                                                    *)
Served(n, dest) ==
    <<n, dest>> \in delivered \/ Total({Packet("RESPONSE", n, dest)}) > 0

ServesAll(n) ==
    /\ {destinations[n][i] : i \in 1..(NodeCount - 1)} = OtherNodes(n)
    /\ flitsTx[n] <= destPointer[n]
    /\ config.policy = "RAND" /\ config.phases = 1 => flitsTx[n] = destPointer[n]
    /\ flitsTx[n] = destPointer[n] =>
        \A i \in 1..destPointer[n] : Served(n, destinations[n][i])

ToItself == {p \in AllPackets : p.from = p.to}

AllToAll ==
    /\ phaseCount \in [Generators -> Nat] /\ \A n \in Generators : phaseCount[n] <= config.phases
    /\ config.pattern = "ALL2ALL" =>
        /\ \A n \in Generators : ServesAll(n)
        /\ Total(ToItself) = 0
        /\ delivered \subseteq {pair \in Generators \X Generators : pair[1] # pair[2]}

Aborted == nodesAborted \in BOOLEAN /\ (nodesAborted => MayAbort)

Counts == CounterTypes /\ Queues /\ Accounted /\ Finished
Fine == Counts /\ Roomy /\ AllToAll /\ Aborted
EndIInv == NodesIInv /\ Fine
-----------------------------------------------------------------------------

(* The units of c, one by one.                                             *)
LEMMA UnitIn ==
  ASSUME NEW c
  PROVE  \A u : u \in Units(c) <=> \E x \in DOMAIN c : \E i \in 1..c[x] : u = <<x, i>>
BY DEF Units

(* There are finitely many units, if c counts finitely many things.        *)
LEMMA UnitsFinite ==
  ASSUME NEW S, IsFiniteSet(S), NEW c \in [S -> Nat]
  PROVE  IsFiniteSet(Units(c)) /\ Count(c) \in Nat
<1> DEFINE of(s) == UNION {{x} \X (1..c[x]) : x \in s}
           T == {s \in SUBSET S : IsFiniteSet(of(s))}
<1>1. {} \in T
  <2>1. of({}) = {}
    OBVIOUS
  <2>2. IsFiniteSet(of({}))
    <3> HIDE DEF of
    <3> QED BY <2>1, FS_EmptySet
  <2> QED BY <2>2
<1>2. ASSUME NEW s \in SUBSET S, s # {}, s \ {One(s)} \in T PROVE s \in T
  <2> DEFINE o == One(s)
  <2>1. o \in s
    BY <1>2 DEF One
  <2> HIDE DEF o
  <2>2. of(s) = of(s \ {o}) \cup ({o} \X (1..c[o]))
    BY <2>1
  <2>3. IsFiniteSet(1..c[o]) /\ IsFiniteSet({o})
    <3>1. c[o] \in Int
      BY <2>1
    <3>2. IsFiniteSet(1..c[o])
      BY <3>1, FS_Interval
    <3> QED BY <3>2, FS_Singleton
  <2>4. \A A, B : IsFiniteSet(A) /\ IsFiniteSet(B) => IsFiniteSet(A \X B)
    BY FS_Product
  <2>5. IsFiniteSet({o} \X (1..c[o]))
    BY <2>3, <2>4
  <2>6. IsFiniteSet(of(s \ {o}))
    <3> HIDE DEF of
    <3>1. s \ {One(s)} \in T
      BY <1>2
    <3> QED BY <3>1 DEF o
  <2>7. IsFiniteSet(of(s))
    <3>1. \A A, B : IsFiniteSet(A) /\ IsFiniteSet(B) => IsFiniteSet(A \cup B)
      BY FS_Union
    <3> HIDE DEF of
    <3>2. IsFiniteSet(of(s \ {o}) \cup ({o} \X (1..c[o])))
      BY <2>5, <2>6, <3>1, Zenon
    <3> QED BY <2>2, <3>2, Zenon
  <2> QED BY <2>7
<1>3. \A s \in SUBSET S : s \in T
  <2> HIDE DEF T
  <2> QED BY <1>1, <1>2, BySize
<1>4. IsFiniteSet(of(S))
  BY <1>3
<1>5. Units(c) = of(S)
  BY DEF Units
<1> HIDE DEF of
<1> QED BY <1>4, <1>5, FS_CardinalityType DEF Count

(* One more at x.                                                          *)
LEMMA CountMore ==
  ASSUME NEW S, IsFiniteSet(S), NEW c \in [S -> Nat], NEW d \in [S -> Nat], NEW x \in S,
         \A y \in S : y # x => d[y] = c[y], d[x] = c[x] + 1
  PROVE  Count(d) = Count(c) + 1
<1>1. IsFiniteSet(Units(c)) /\ Count(c) \in Nat
  BY UnitsFinite
<1>2. <<x, d[x]>> \notin Units(c)
  <2>1. c[x] \in Nat /\ d[x] \notin 1..c[x]
    OBVIOUS
  <2> QED BY <2>1, UnitIn
<1>3. Units(d) = Units(c) \cup {<<x, d[x]>>}
  <2>1. c[x] \in Nat /\ 1..d[x] = (1..c[x]) \cup {d[x]}
    OBVIOUS
  <2>2. DOMAIN c = S /\ DOMAIN d = S
    OBVIOUS
  <2>3. ASSUME NEW u PROVE u \in Units(d) <=> u \in Units(c) \/ u = <<x, d[x]>>
    <3>1. ASSUME NEW y \in S, NEW i
          PROVE  i \in 1..d[y] <=> i \in 1..c[y] \/ (y = x /\ i = d[x])
      <4>1. CASE y = x
        BY <2>1, <4>1
      <4>2. CASE y # x
        BY <4>2
      <4> QED BY <4>1, <4>2
    <3>2. u \in Units(d) <=> \E y \in S : \E i \in 1..d[y] : u = <<y, i>>
      BY <2>2, UnitIn
    <3>3. u \in Units(c) <=> \E y \in S : \E i \in 1..c[y] : u = <<y, i>>
      BY <2>2, UnitIn
    <3> QED BY <3>1, <3>2, <3>3, Zenon
  <2> QED BY <2>3
<1>4. Cardinality(Units(d)) = Cardinality(Units(c)) + 1
  BY <1>1, <1>2, <1>3, FS_AddElement
<1> QED BY <1>4 DEF Count

(* The count changes by as many as there are more or less at x, by one at  *)
(* most.                                                                   *)
LEMMA CountChange ==
  ASSUME NEW S, IsFiniteSet(S), NEW c \in [S -> Nat], NEW d \in [S -> Nat], NEW x \in S,
         \A y \in S : y # x => d[y] = c[y],
         NEW k \in {-1, 0, 1}, d[x] = c[x] + k
  PROVE  Count(c) \in Nat /\ Count(d) = Count(c) + k
<1>0. Count(c) \in Nat /\ Count(d) \in Nat
  BY UnitsFinite
<1>1. CASE k = 1
  BY <1>0, <1>1, CountMore
<1>2. CASE k = 0
  <2>1. \A y \in S : d[y] = c[y]
    BY <1>2
  <2>2. d = c
    BY <2>1
  <2> QED BY <1>0, <1>2, <2>2
<1>3. CASE k = -1
  <2>1. c[x] = d[x] + 1 /\ \A y \in S : y # x => c[y] = d[y]
    BY <1>3
  <2>2. Count(c) = Count(d) + 1
    BY <2>1, CountMore
  <2> QED BY <1>0, <1>3, <2>2
<1> QED BY <1>1, <1>2, <1>3

(* None counted is none anywhere, and what is somewhere is counted.        *)
LEMMA CountNone ==
  ASSUME NEW S, IsFiniteSet(S), NEW c \in [S -> Nat]
  PROVE  Count(c) = 0 <=> \A x \in S : c[x] = 0
<1>1. Count(c) = 0 <=> Units(c) = {}
  BY UnitsFinite, FS_EmptySet DEF Count
<1>2. Units(c) = {} <=> \A x \in S : c[x] = 0
  <2>1. ASSUME NEW x \in S PROVE c[x] = 0 <=> ~\E i \in 1..c[x] : TRUE
    <3>1. c[x] \in Nat /\ (c[x] # 0 => 1 \in 1..c[x])
      OBVIOUS
    <3> QED BY <3>1
  <2>2. Units(c) = {} <=> \A x \in S : ~\E i \in 1..c[x] : TRUE
    <3>1. DOMAIN c = S
      OBVIOUS
    <3>2. \A u : u \in Units(c) <=> \E x \in S : \E i \in 1..c[x] : u = <<x, i>>
      BY <3>1, UnitIn
    <3> QED BY <3>2, Zenon
  <2> QED BY <2>1, <2>2
<1> QED BY <1>1, <1>2

-----------------------------------------------------------------------------
(* How many of a queue are in C is a number, 0 if none is.                 *)
LEMMA WithinNat ==
  ASSUME NEW q \in Seq(AllPackets), NEW C
  PROVE  /\ IsFiniteSet({i \in DOMAIN q : q[i] \in C}) /\ Within(q, C) \in Nat
         /\ Within(q, C) = 0 <=> \A i \in DOMAIN q : q[i] \notin C
<1>1. {i \in DOMAIN q : q[i] \in C} \in SUBSET (1..Len(q)) /\ Len(q) \in Nat
  OBVIOUS
<1>2. IsFiniteSet({i \in DOMAIN q : q[i] \in C})
  BY <1>1, UpToFinite
<1> QED BY <1>2, FS_CardinalityType, FS_EmptySet DEF Within

(* A packet that enters a queue is one more of C if it is in C.            *)
LEMMA WithinAppend ==
  ASSUME NEW q \in Seq(AllPackets), NEW p \in AllPackets, NEW C
  PROVE  Within(Append(q, p), C) = Within(q, C) + LossIn(C, p)
<1> DEFINE S == {i \in DOMAIN q : q[i] \in C}
           k == Len(q) + 1
           T == {i \in DOMAIN Append(q, p) : Append(q, p)[i] \in C}
<1>1. IsFiniteSet(S) /\ Cardinality(S) \in Nat
  BY WithinNat DEF Within
<1>2. k \notin S /\ T = IF p \in C THEN S \cup {k} ELSE S
  <2>1. DOMAIN Append(q, p) = DOMAIN q \cup {k} /\ k \notin DOMAIN q
    OBVIOUS
  <2>2. Append(q, p)[k] = p /\ \A i \in DOMAIN q : Append(q, p)[i] = q[i]
    OBVIOUS
  <2> HIDE DEF k
  <2> QED BY <2>1, <2>2
<1>3. Within(q, C) = Cardinality(S) /\ Within(Append(q, p), C) = Cardinality(T)
  BY DEF Within
<1> HIDE DEF S, T, k
<1>4. CASE p \in C
  BY <1>1, <1>2, <1>3, <1>4, FS_AddElement DEF LossIn
<1>5. CASE p \notin C
  BY <1>1, <1>2, <1>3, <1>5 DEF LossIn
<1> QED BY <1>4, <1>5

(* A packet that leaves a queue is one less.                               *)
LEMMA WithinTail ==
  ASSUME NEW q \in Seq(AllPackets), q # <<>>, NEW C
  PROVE  Within(Tail(q), C) = Within(q, C) - LossIn(C, Head(q))
<1> DEFINE S == {i \in DOMAIN Tail(q) : Tail(q)[i] \in C}
           U == {i \in DOMAIN q : q[i] \in C}
           T == U \ {1}
           f == [i \in S |-> i + 1]
<1>1. /\ DOMAIN Tail(q) = 1..(Len(q) - 1) /\ DOMAIN q = 1..Len(q) /\ Len(q) \in Nat \ {0}
      /\ \A i \in 1..(Len(q) - 1) : Tail(q)[i] = q[i + 1]
      /\ Head(q) = q[1] /\ Tail(q) \in Seq(AllPackets)
  OBVIOUS
<1>2. f \in Bijection(S, T)
  <2>1. f \in [S -> T]
    BY <1>1
  <2>2. \A j, k \in S : f[j] = f[k] => j = k
    BY <1>1
  <2>3. \A t \in T : \E j \in S : f[j] = t
    <3> SUFFICES ASSUME NEW t \in T PROVE \E j \in S : f[j] = t
      OBVIOUS
    <3>1. t - 1 \in 1..(Len(q) - 1) /\ t = (t - 1) + 1
      BY <1>1
    <3>2. t - 1 \in S
      BY <1>1, <3>1
    <3> QED BY <3>1, <3>2
  <2> HIDE DEF S, T, f
  <2> QED BY <2>1, <2>2, <2>3 DEF Bijection, Injection, Surjection, IsInjective
<1>3. IsFiniteSet(S) /\ IsFiniteSet(U) /\ Cardinality(U) \in Nat
  BY <1>1, WithinNat DEF Within
<1>4. Within(Tail(q), C) = Cardinality(S) /\ Within(q, C) = Cardinality(U)
  BY DEF Within
<1>5. 1 \in U <=> Head(q) \in C
  BY <1>1
<1> HIDE DEF S, U
<1>6. Cardinality(T) = Cardinality(S)
  <2>1. ExistsBijection(S, T)
    BY <1>2 DEF ExistsBijection
  <2> HIDE DEF T
  <2> QED BY <1>3, <2>1, FS_Bijection
<1>7. Cardinality(T) = IF 1 \in U THEN Cardinality(U) - 1 ELSE Cardinality(U)
  BY <1>3, FS_RemoveElement
<1> HIDE DEF T
<1> QED BY <1>3, <1>4, <1>5, <1>6, <1>7 DEF LossIn

-----------------------------------------------------------------------------
(* Nodes, queues and packets are finitely many.                            *)
LEMMA PlacesFinite ==
  /\ IsFiniteSet(Generators) /\ Cardinality(Generators) = NodeCount
  /\ IsFiniteSet(PlacesOf(Vcs)) /\ IsFiniteSet(PlacesOf(0..1))
  /\ IsFiniteSet(AllPackets)
<1>1. IsFiniteSet(Generators) /\ Cardinality(Generators) = NodeCount
  <2>1. 0 \in Int /\ NodeCount - 1 \in Int /\ ~(0 > NodeCount - 1) /\ (NodeCount - 1) - 0 + 1 = NodeCount
    BY NodesSizes
  <2> QED BY <2>1, FS_Interval DEF Generators
<1>2. IsFiniteSet(Vcs) /\ IsFiniteSet(0..1)
  <2>1. 0 \in Int /\ 1 \in Int /\ Channels - 1 \in Int
    BY NodesSizes
  <2> QED BY <2>1, FS_Interval DEF Vcs
<1>3. IsFiniteSet(PetitionTypes)
  <2>1. PetitionTypes = {"PETITION"} \cup {"RESPONSE"}
    BY DEF PetitionTypes
  <2>2. IsFiniteSet({"PETITION"}) /\ IsFiniteSet({"RESPONSE"})
    BY FS_Singleton
  <2>3. IsFiniteSet({"PETITION"} \cup {"RESPONSE"})
    BY <2>2, FS_Union
  <2> QED BY <2>1, <2>3
<1>4. \A A, B : IsFiniteSet(A) /\ IsFiniteSet(B) => IsFiniteSet(A \X B)
  BY FS_Product
<1>5. IsFiniteSet(PetitionTypes \X (Generators \X Generators))
  BY <1>1, <1>3, <1>4
<1>6. IsFiniteSet(AllPackets)
  <2> DEFINE T == PetitionTypes \X (Generators \X Generators)
             f == [p \in AllPackets |-> <<p.type, <<p.from, p.to>>>>]
  <2>1. f \in [AllPackets -> T]
    BY DEF AllPackets
  <2>2. \A p, q \in AllPackets : f[p] = f[q] => p = q
    BY DEF AllPackets
  <2>3. f \in Injection(AllPackets, T)
    <3> HIDE DEF f, T
    <3> QED BY <2>1, <2>2 DEF Injection, IsInjective
  <2> HIDE DEF f, T
  <2>4. IsFiniteSet(T)
    BY <1>5 DEF T
  <2> QED BY <2>3, <2>4, FS_Injection
<1> QED BY <1>1, <1>2, <1>4, <1>6 DEF PlacesOf

(* The packets of a configuration are packets.                             *)
LEMMA OfAll ==
  /\ NodePackets \subseteq AllPackets
  /\ \A q \in Seq(NodePackets) : q \in Seq(AllPackets)
<1>1. NodePackets \subseteq AllPackets
  BY DEF NodePackets, AllPackets, PetitionTypes
<1> QED BY <1>1

(* What queues and network hold are packets.                               *)
LEMMA QueuesOfAll ==
  ASSUME NodesTypes
  PROVE  /\ \A n \in Generators : \A vc \in Vcs : injection[n][vc] \in Seq(AllPackets)
         /\ \A n \in Generators : \A flow \in 0..1 : outBuffers[n][flow] \in Seq(AllPackets)
         /\ IsABag(network) /\ DOMAIN network \subseteq AllPackets
BY OfAll DEF NodesTypes

(* One queue, of packets, is changed.                                      *)
ChangedAt(q, r, B, a, b) ==
    /\ \A m \in Generators : \A w \in B :
          q[m][w] \in Seq(AllPackets) /\ r[m][w] \in Seq(AllPackets)
    /\ \A m \in Generators : \A w \in B : ~(m = a /\ w = b) => r[m][w] = q[m][w]

(* When one queue changes by k, so do all together.                        *)
LEMMA QueuedChange ==
  ASSUME NEW B, IsFiniteSet(PlacesOf(B)), NEW C, NEW q, NEW r,
         NEW a \in Generators, NEW b \in B, ChangedAt(q, r, B, a, b),
         NEW k \in {-1, 0, 1}, Within(r[a][b], C) = Within(q[a][b], C) + k
  PROVE  Count(Queued(r, PlacesOf(B), C)) = Count(Queued(q, PlacesOf(B), C)) + k
<1> DEFINE c == Queued(q, PlacesOf(B), C)
           d == Queued(r, PlacesOf(B), C)
           x == <<a, b>>
<1>1. x \in PlacesOf(B) /\ x[1] = a /\ x[2] = b
  BY DEF PlacesOf
<1>2. \A y \in PlacesOf(B) : y[1] \in Generators /\ y[2] \in B /\ y = <<y[1], y[2]>>
  BY DEF PlacesOf
<1>3. c \in [PlacesOf(B) -> Nat] /\ d \in [PlacesOf(B) -> Nat]
  <2>1. \A y \in PlacesOf(B) : q[y[1]][y[2]] \in Seq(AllPackets) /\ r[y[1]][y[2]] \in Seq(AllPackets)
    BY <1>2 DEF ChangedAt
  <2>2. \A l \in Seq(AllPackets) : Within(l, C) \in Nat
    BY WithinNat
  <2>3. \A y \in PlacesOf(B) :
            Within(q[y[1]][y[2]], C) \in Nat /\ Within(r[y[1]][y[2]], C) \in Nat
    BY <2>1, <2>2, Zenon
  <2> QED BY <2>3 DEF Queued
<1>4. \A y \in PlacesOf(B) : y # x => d[y] = c[y]
  <2> SUFFICES ASSUME NEW y \in PlacesOf(B), y # x PROVE d[y] = c[y]
    OBVIOUS
  <2>1. ~(y[1] = a /\ y[2] = b) /\ y[1] \in Generators /\ y[2] \in B
    BY <1>2
  <2>2. r[y[1]][y[2]] = q[y[1]][y[2]]
    BY <2>1 DEF ChangedAt
  <2> QED BY <2>2 DEF Queued
<1>5. d[x] = c[x] + k
  <2> HIDE DEF x
  <2>1. d[x] = Within(r[a][b], C) /\ c[x] = Within(q[a][b], C)
    BY <1>1 DEF Queued
  <2> QED BY <2>1
<1>6. IsFiniteSet(PlacesOf(B)) /\ x \in PlacesOf(B) /\ k \in {-1, 0, 1}
  BY <1>1
<1> HIDE DEF c, d, x
<1>7. Count(d) = Count(c) + k
  BY ONLY <1>3, <1>4, <1>5, <1>6, CountChange
<1> QED BY <1>7 DEF c, d

(* How many of all queues are in C is a number.                            *)
LEMMA QueuedNat ==
  ASSUME NEW B, IsFiniteSet(PlacesOf(B)), NEW C, NEW q,
         \A a \in Generators : \A b \in B : q[a][b] \in Seq(AllPackets)
  PROVE  /\ Count(Queued(q, PlacesOf(B), C)) \in Nat
         /\ Count(Queued(q, PlacesOf(B), C)) = 0 <=>
                \A a \in Generators : \A b \in B : Within(q[a][b], C) = 0
<1> DEFINE c == Queued(q, PlacesOf(B), C)
<1>1. \A y \in PlacesOf(B) : y[1] \in Generators /\ y[2] \in B
  BY DEF PlacesOf
<1>2. \A y \in PlacesOf(B) : Within(q[y[1]][y[2]], C) \in Nat
  BY <1>1, WithinNat
<1>3. c \in [PlacesOf(B) -> Nat] /\ \A y \in PlacesOf(B) : c[y] = Within(q[y[1]][y[2]], C)
  BY <1>2 DEF Queued
<1>4. (\A y \in PlacesOf(B) : c[y] = 0) <=>
        \A a \in Generators : \A b \in B : Within(q[a][b], C) = 0
  <2>1. \A a \in Generators : \A b \in B :
            <<a, b>> \in PlacesOf(B) /\ <<a, b>>[1] = a /\ <<a, b>>[2] = b
    BY DEF PlacesOf
  <2> HIDE DEF c
  <2>2. \A a \in Generators : \A b \in B :
            <<a, b>> \in PlacesOf(B) /\ c[<<a, b>>] = Within(q[a][b], C)
    BY <1>3, <2>1
  <2>3. (\A y \in PlacesOf(B) : c[y] = 0) =>
            \A a \in Generators : \A b \in B : Within(q[a][b], C) = 0
    BY <2>2, Zenon
  <2>4. (\A a \in Generators : \A b \in B : Within(q[a][b], C) = 0) =>
            \A y \in PlacesOf(B) : c[y] = 0
    BY <1>1, <1>3, Zenon
  <2> QED BY <2>3, <2>4
<1> HIDE DEF c
<1>5. Count(c) \in Nat
  BY ONLY <1>3, IsFiniteSet(PlacesOf(B)), UnitsFinite
<1>6. Count(c) = 0 <=> \A y \in PlacesOf(B) : c[y] = 0
  BY ONLY <1>3, IsFiniteSet(PlacesOf(B)), CountNone
<1> QED BY <1>4, <1>5, <1>6 DEF c

(* How many of a bag are in C is a number.                                 *)
LEMMA TravellingNat ==
  ASSUME NEW B, IsABag(B), DOMAIN B \subseteq AllPackets, NEW C \in SUBSET AllPackets
  PROVE  /\ [p \in C |-> CopiesOf(p, B)] \in [C -> Nat] /\ IsFiniteSet(C)
         /\ Count([p \in C |-> CopiesOf(p, B)]) \in Nat
         /\ Count([p \in C |-> CopiesOf(p, B)]) = 0 <=> \A p \in C : p \notin DOMAIN B
<1> DEFINE f == [p \in C |-> CopiesOf(p, B)]
<1>1. f \in [C -> Nat] /\ \A p \in C : f[p] = 0 <=> p \notin DOMAIN B
  BY DEF IsABag, CopiesOf
<1>2. IsFiniteSet(C)
  BY PlacesFinite, FS_Subset
<1> HIDE DEF f
<1>3. Count(f) \in Nat
  BY <1>1, <1>2, UnitsFinite
<1>4. Count(f) = 0 <=> \A p \in C : f[p] = 0
  BY <1>1, <1>2, CountNone
<1> QED BY <1>1, <1>2, <1>3, <1>4 DEF f

(* How many there are is a number, 0 if there is none anywhere.            *)
LEMMA TotalNat ==
  ASSUME NodesTypes, NEW C \in SUBSET AllPackets
  PROVE  /\ Count(Injecting(C)) \in Nat /\ Count(Waiting(C)) \in Nat
         /\ Count(Travelling(C)) \in Nat /\ Total(C) \in Nat
         /\ Total(C) = 0 <=>
              /\ \A n \in Generators : \A vc \in Vcs :
                    \A i \in DOMAIN injection[n][vc] : injection[n][vc][i] \notin C
              /\ \A n \in Generators : \A flow \in 0..1 :
                    \A i \in DOMAIN outBuffers[n][flow] : outBuffers[n][flow][i] \notin C
              /\ \A p \in C : p \notin DOMAIN network
<1>1. PICK q, r, B : q = injection /\ r = outBuffers /\ B = network
  OBVIOUS
<1>2. /\ \A n \in Generators : \A vc \in Vcs : q[n][vc] \in Seq(AllPackets)
      /\ \A n \in Generators : \A flow \in 0..1 : r[n][flow] \in Seq(AllPackets)
      /\ IsABag(B) /\ DOMAIN B \subseteq AllPackets
  BY <1>1, QueuesOfAll
<1>3. /\ Count(Queued(q, PlacesOf(Vcs), C)) \in Nat
      /\ Count(Queued(q, PlacesOf(Vcs), C)) = 0 <=>
            \A n \in Generators : \A vc \in Vcs : Within(q[n][vc], C) = 0
  <2>1. IsFiniteSet(PlacesOf(Vcs)) /\ \A a \in Generators : \A b \in Vcs : q[a][b] \in Seq(AllPackets)
    BY <1>2, PlacesFinite
  <2> QED BY ONLY <2>1, QueuedNat
<1>4. /\ Count(Queued(r, PlacesOf(0..1), C)) \in Nat
      /\ Count(Queued(r, PlacesOf(0..1), C)) = 0 <=>
            \A n \in Generators : \A flow \in 0..1 : Within(r[n][flow], C) = 0
  <2>1. IsFiniteSet(PlacesOf(0..1)) /\ \A a \in Generators : \A b \in 0..1 : r[a][b] \in Seq(AllPackets)
    BY <1>2, PlacesFinite
  <2> QED BY ONLY <2>1, QueuedNat
<1>5. /\ Count([p \in C |-> CopiesOf(p, B)]) \in Nat
      /\ Count([p \in C |-> CopiesOf(p, B)]) = 0 <=> \A p \in C : p \notin DOMAIN B
  BY <1>2, TravellingNat
<1>6. \A l \in Seq(AllPackets) : Within(l, C) = 0 <=> \A i \in DOMAIN l : l[i] \notin C
  BY WithinNat
<1>7. /\ Count(Injecting(C)) = Count(Queued(q, PlacesOf(Vcs), C))
      /\ Count(Waiting(C)) = Count(Queued(r, PlacesOf(0..1), C))
      /\ Count(Travelling(C)) = Count([p \in C |-> CopiesOf(p, B)])
  BY <1>1 DEF Injecting, Waiting, Travelling
<1>8. /\ Count(Injecting(C)) \in Nat /\ Count(Waiting(C)) \in Nat
      /\ Count(Travelling(C)) \in Nat
  BY <1>3, <1>4, <1>5, <1>7
<1>9. Total(C) \in Nat
      /\ (Total(C) = 0 <=> /\ Count(Injecting(C)) = 0 /\ Count(Waiting(C)) = 0
                           /\ Count(Travelling(C)) = 0)
  BY <1>8 DEF Total
<1>10. Count(Injecting(C)) = 0 <=>
          \A n \in Generators : \A vc \in Vcs :
              \A i \in DOMAIN injection[n][vc] : injection[n][vc][i] \notin C
  <2>1. \A n \in Generators : \A vc \in Vcs :
            Within(q[n][vc], C) = 0 <=> \A i \in DOMAIN q[n][vc] : q[n][vc][i] \notin C
    BY <1>2, <1>6
  <2> QED BY <1>1, <1>3, <1>7, <2>1
<1>11. Count(Waiting(C)) = 0 <=>
          \A n \in Generators : \A flow \in 0..1 :
              \A i \in DOMAIN outBuffers[n][flow] : outBuffers[n][flow][i] \notin C
  <2>1. \A n \in Generators : \A flow \in 0..1 :
            Within(r[n][flow], C) = 0 <=> \A i \in DOMAIN r[n][flow] : r[n][flow][i] \notin C
    BY <1>2, <1>6
  <2> QED BY <1>1, <1>4, <1>7, <2>1
<1>12. Count(Travelling(C)) = 0 <=> \A p \in C : p \notin DOMAIN network
  BY <1>1, <1>5, <1>7
<1> QED BY <1>8, <1>9, <1>10, <1>11, <1>12

(* So it is after a step.                                                  *)
LEMMA TotalLater ==
  ASSUME NodesTypes', NEW C \in SUBSET AllPackets
  PROVE  /\ Count(Injecting(C))' \in Nat /\ Count(Waiting(C))' \in Nat
         /\ Count(Travelling(C))' \in Nat /\ Total(C)' \in Nat
<1>1. PICK q, r, B : q = injection' /\ r = outBuffers' /\ B = network'
  OBVIOUS
<1>2. /\ \A n \in Generators : \A vc \in Vcs : q[n][vc] \in Seq(NodePackets')
      /\ \A n \in Generators : \A flow \in 0..1 : r[n][flow] \in Seq(NodePackets')
      /\ IsABag(B) /\ DOMAIN B \subseteq NodePackets'
  BY <1>1 DEF NodesTypes
<1>3. NodePackets' \subseteq AllPackets
  BY DEF NodePackets, AllPackets, PetitionTypes
<1>4. /\ \A n \in Generators : \A vc \in Vcs : q[n][vc] \in Seq(AllPackets)
      /\ \A n \in Generators : \A flow \in 0..1 : r[n][flow] \in Seq(AllPackets)
      /\ IsABag(B) /\ DOMAIN B \subseteq AllPackets
  <2>1. \A l \in Seq(NodePackets') : l \in Seq(AllPackets)
    BY <1>3
  <2> QED BY <1>2, <1>3, <2>1
<1>5. Count(Queued(q, PlacesOf(Vcs), C)) \in Nat
  <2>1. IsFiniteSet(PlacesOf(Vcs)) /\ \A a \in Generators : \A b \in Vcs : q[a][b] \in Seq(AllPackets)
    BY <1>4, PlacesFinite
  <2> QED BY ONLY <2>1, QueuedNat
<1>6. Count(Queued(r, PlacesOf(0..1), C)) \in Nat
  <2>1. IsFiniteSet(PlacesOf(0..1)) /\ \A a \in Generators : \A b \in 0..1 : r[a][b] \in Seq(AllPackets)
    BY <1>4, PlacesFinite
  <2> QED BY ONLY <2>1, QueuedNat
<1>7. Count([p \in C |-> CopiesOf(p, B)]) \in Nat
  BY <1>4, TravellingNat
<1>8. /\ Count(Injecting(C))' \in Nat /\ Count(Waiting(C))' \in Nat
      /\ Count(Travelling(C))' \in Nat
  BY <1>1, <1>5, <1>6, <1>7 DEF Injecting, Waiting, Travelling
<1> QED BY <1>8 DEF Total

(* A queue gets a packet or gives one.                                     *)
GetsAt(q, r, B, a, b, p) == ChangedAt(q, r, B, a, b) /\ r[a][b] = Append(q[a][b], p)
GivesAt(q, r, B, a, b, p) ==
    /\ ChangedAt(q, r, B, a, b)
    /\ q[a][b] # <<>> /\ p = Head(q[a][b]) /\ r[a][b] = Tail(q[a][b])

(* A queue that gets a packet.                                             *)
LEMMA QueueMore ==
  ASSUME NEW B, IsFiniteSet(PlacesOf(B)), NEW C, NEW q, NEW r,
         NEW a \in Generators, NEW b \in B, NEW p \in AllPackets, GetsAt(q, r, B, a, b, p)
  PROVE  Count(Queued(r, PlacesOf(B), C)) = Count(Queued(q, PlacesOf(B), C)) + LossIn(C, p)
<1>1. /\ q[a][b] \in Seq(AllPackets) /\ r[a][b] = Append(q[a][b], p)
      /\ ChangedAt(q, r, B, a, b)
  BY DEF ChangedAt, GetsAt
<1>2. Within(r[a][b], C) = Within(q[a][b], C) + LossIn(C, p)
  BY <1>1, WithinAppend
<1>3. PICK k : k = LossIn(C, p)
  OBVIOUS
<1>4. k \in {-1, 0, 1}
  BY <1>3 DEF LossIn
<1>5. Within(r[a][b], C) = Within(q[a][b], C) + k
  BY <1>2, <1>3
<1>6. Count(Queued(r, PlacesOf(B), C)) = Count(Queued(q, PlacesOf(B), C)) + k
  BY <1>1, <1>4, <1>5, QueuedChange, Zenon
<1> QED BY <1>3, <1>6

(* A queue that gives one.                                                 *)
LEMMA QueueLess ==
  ASSUME NEW B, IsFiniteSet(PlacesOf(B)), NEW C, NEW q, NEW r,
         NEW a \in Generators, NEW b \in B, NEW p, GivesAt(q, r, B, a, b, p)
  PROVE  Count(Queued(q, PlacesOf(B), C)) = Count(Queued(r, PlacesOf(B), C)) + LossIn(C, p)
<1>1. /\ q[a][b] \in Seq(AllPackets) /\ r[a][b] = Tail(q[a][b])
      /\ q[a][b] # <<>> /\ p = Head(q[a][b]) /\ ChangedAt(q, r, B, a, b)
  BY DEF ChangedAt, GivesAt
<1>2. PICK k : k = LossIn(C, p)
  OBVIOUS
<1>3. k \in {-1, 0, 1} /\ k \in Int
  BY <1>2 DEF LossIn
<1>4. Within(q[a][b], C) = Within(r[a][b], C) + k
  <2>1. Within(r[a][b], C) = Within(q[a][b], C) - k
    BY <1>1, <1>2, WithinTail
  <2>2. Within(q[a][b], C) \in Nat
    BY <1>1, WithinNat
  <2> QED BY <1>3, <2>1, <2>2
<1>5. ChangedAt(r, q, B, a, b)
  BY <1>1 DEF ChangedAt
<1>6. Count(Queued(q, PlacesOf(B), C)) = Count(Queued(r, PlacesOf(B), C)) + k
  <2>1. IsFiniteSet(PlacesOf(B)) /\ a \in Generators /\ b \in B
    OBVIOUS
  <2> QED BY ONLY <2>1, <1>3, <1>4, <1>5, QueuedChange, Zenon
<1> QED BY <1>2, <1>6

(* The network gets a packet or gives one.                                 *)
LEMMA CopiesStep ==
  ASSUME NEW B, IsABag(B), DOMAIN B \subseteq AllPackets,
         NEW D, IsABag(D), DOMAIN D \subseteq AllPackets,
         NEW C \in SUBSET AllPackets, NEW p,
         \A z : CopiesOf(z, D) = CopiesOf(z, B) + Same(z, p)
  PROVE  Count([z \in C |-> CopiesOf(z, D)]) = Count([z \in C |-> CopiesOf(z, B)]) + LossIn(C, p)
<1> DEFINE f == [z \in C |-> CopiesOf(z, B)]
           g == [z \in C |-> CopiesOf(z, D)]
<1>1. f \in [C -> Nat] /\ g \in [C -> Nat] /\ IsFiniteSet(C) /\ Count(f) \in Nat
  BY TravellingNat
<1>2. \A z \in C : g[z] = f[z] + Same(z, p)
  OBVIOUS
<1> HIDE DEF f, g
<1>3. CASE p \in C
  <2>1. (\A z \in C : z # p => g[z] = f[z]) /\ g[p] = f[p] + 1
    BY <1>1, <1>2, <1>3 DEF Same
  <2>2. Count(g) = Count(f) + 1
    BY ONLY <1>1, <1>3, <2>1, CountMore
  <2> QED BY <1>3, <2>2 DEF f, g, LossIn
<1>4. CASE p \notin C
  <2>1. \A z \in C : g[z] = f[z]
    BY <1>1, <1>2, <1>4 DEF Same
  <2>2. g = f
    BY <1>1, <2>1
  <2>3. Count(g) = Count(f) + 0
    BY <1>1, <2>2
  <2> QED BY <1>4, <2>3 DEF f, g, LossIn
<1> QED BY <1>3, <1>4

(* A bag that gets a packet.                                               *)
LEMMA CopiesMore ==
  ASSUME NEW B, IsABag(B), DOMAIN B \subseteq AllPackets, NEW D,
         NEW C \in SUBSET AllPackets, NEW p \in AllPackets, D = B (+) SetToBag({p})
  PROVE  Count([z \in C |-> CopiesOf(z, D)]) = Count([z \in C |-> CopiesOf(z, B)]) + LossIn(C, p)
<1>1. /\ IsABag(D) /\ DOMAIN D \subseteq DOMAIN B \cup {p}
      /\ \A z : CopiesOf(z, D) = CopiesOf(z, B) + Same(z, p)
  BY DEF IsABag, SetToBag, (+), CopiesOf, Same
<1>2. DOMAIN D \subseteq AllPackets
  BY <1>1
<1>3. IsABag(B) /\ DOMAIN B \subseteq AllPackets /\ C \in SUBSET AllPackets
  OBVIOUS
<1> QED BY ONLY <1>1, <1>2, <1>3, CopiesStep

(* A bag that gives one.                                                   *)
LEMMA CopiesLess ==
  ASSUME NEW B, IsABag(B), DOMAIN B \subseteq AllPackets, NEW D,
         NEW C \in SUBSET AllPackets, NEW p \in DOMAIN B, D = B (-) SetToBag({p})
  PROVE  Count([z \in C |-> CopiesOf(z, B)]) = Count([z \in C |-> CopiesOf(z, D)]) + LossIn(C, p)
<1>1. /\ IsABag(D) /\ DOMAIN D \subseteq DOMAIN B
      /\ \A z : CopiesOf(z, D) = CopiesOf(z, B) - Same(z, p)
      /\ \A z : CopiesOf(z, D) \in Nat
  BY BagTake, Zenon
<1>2. DOMAIN D \subseteq AllPackets
  BY <1>1
<1>3. \A z : CopiesOf(z, B) = CopiesOf(z, D) + Same(z, p)
  <2>1. \A z : CopiesOf(z, B) \in Nat
    BY DEF CopiesOf, IsABag
  <2>2. \A z : Same(z, p) \in Nat
    BY DEF Same
  <2> SUFFICES ASSUME NEW z PROVE CopiesOf(z, B) = CopiesOf(z, D) + Same(z, p)
    OBVIOUS
  <2>3. /\ CopiesOf(z, B) \in Nat /\ Same(z, p) \in Nat
        /\ CopiesOf(z, D) = CopiesOf(z, B) - Same(z, p)
    BY <1>1, <2>1, <2>2
  <2> QED BY <2>3
<1>4. IsABag(B) /\ DOMAIN B \subseteq AllPackets /\ C \in SUBSET AllPackets
  OBVIOUS
<1> QED BY ONLY <1>1, <1>2, <1>3, <1>4, CopiesStep

(* What a queue or the network gets or gives.                              *)
LEMMA Got ==
  ASSUME NodesTypes, NEW C \in SUBSET AllPackets, NEW p \in NodePackets, NEW n \in Generators
  PROVE  /\ \A vc \in Vcs : injection' = [injection EXCEPT ![n][vc] = Append(@, p)] =>
                Count(Injecting(C))' = Count(Injecting(C)) + LossIn(C, p)
         /\ \A flow \in 0..1 : outBuffers' = [outBuffers EXCEPT ![n][flow] = Append(@, p)] =>
                Count(Waiting(C))' = Count(Waiting(C)) + LossIn(C, p)
         /\ network' = network (+) SetToBag({p}) =>
                Count(Travelling(C))' = Count(Travelling(C)) + LossIn(C, p)
<1>0. p \in AllPackets /\ IsFiniteSet(PlacesOf(Vcs)) /\ IsFiniteSet(PlacesOf(0..1))
  BY OfAll, PlacesFinite
<1>1. ASSUME NEW vc \in Vcs, injection' = [injection EXCEPT ![n][vc] = Append(@, p)]
      PROVE  Count(Injecting(C))' = Count(Injecting(C)) + LossIn(C, p)
  <2>1. PICK q, r : q = injection /\ r = injection'
    OBVIOUS
  <2>2. q \in [Generators -> [Vcs -> Seq(NodePackets)]] /\ r = [q EXCEPT ![n][vc] = Append(@, p)]
    BY <1>1, <2>1 DEF NodesTypes
  <2>3. /\ r[n][vc] = Append(q[n][vc], p)
        /\ \A m \in Generators : \A w \in Vcs : ~(m = n /\ w = vc) => r[m][w] = q[m][w]
    BY <2>2
  <2>4. \A m \in Generators : \A w \in Vcs : q[m][w] \in Seq(AllPackets)
    BY <2>2, OfAll
  <2>5. ASSUME NEW m \in Generators, NEW w \in Vcs
        PROVE  q[m][w] \in Seq(AllPackets) /\ r[m][w] \in Seq(AllPackets)
    <3>1. q[m][w] \in Seq(AllPackets) /\ q[n][vc] \in Seq(AllPackets)
      BY <2>4
    <3>2. Append(q[n][vc], p) \in Seq(AllPackets)
      BY <1>0, <2>3, <3>1
    <3>3. r[m][w] = Append(q[n][vc], p) \/ r[m][w] = q[m][w]
      BY <2>3
    <3> QED BY <3>1, <3>2, <3>3
  <2>6. Count(Queued(r, PlacesOf(Vcs), C)) = Count(Queued(q, PlacesOf(Vcs), C)) + LossIn(C, p)
    <3>1. IsFiniteSet(PlacesOf(Vcs)) /\ n \in Generators /\ vc \in Vcs /\ p \in AllPackets
      BY <1>0
    <3>2. GetsAt(q, r, Vcs, n, vc, p)
      BY <2>3, <2>5 DEF ChangedAt, GetsAt
    <3> QED BY ONLY <3>1, <3>2, QueueMore
  <2> QED BY <2>1, <2>6 DEF Injecting
<1>2. ASSUME NEW flow \in 0..1, outBuffers' = [outBuffers EXCEPT ![n][flow] = Append(@, p)]
      PROVE  Count(Waiting(C))' = Count(Waiting(C)) + LossIn(C, p)
  <2>1. PICK q, r : q = outBuffers /\ r = outBuffers'
    OBVIOUS
  <2>2. q \in [Generators -> [0..1 -> Seq(NodePackets)]] /\ r = [q EXCEPT ![n][flow] = Append(@, p)]
    BY <1>2, <2>1 DEF NodesTypes
  <2>3. /\ r[n][flow] = Append(q[n][flow], p)
        /\ \A m \in Generators : \A w \in 0..1 : ~(m = n /\ w = flow) => r[m][w] = q[m][w]
    BY <2>2
  <2>4. \A m \in Generators : \A w \in 0..1 : q[m][w] \in Seq(AllPackets)
    BY <2>2, OfAll
  <2>5. ASSUME NEW m \in Generators, NEW w \in 0..1
        PROVE  q[m][w] \in Seq(AllPackets) /\ r[m][w] \in Seq(AllPackets)
    <3>1. q[m][w] \in Seq(AllPackets) /\ q[n][flow] \in Seq(AllPackets)
      BY <2>4
    <3>2. Append(q[n][flow], p) \in Seq(AllPackets)
      BY <1>0, <2>3, <3>1
    <3>3. r[m][w] = Append(q[n][flow], p) \/ r[m][w] = q[m][w]
      BY <2>3
    <3> QED BY <3>1, <3>2, <3>3
  <2>6. Count(Queued(r, PlacesOf(0..1), C)) = Count(Queued(q, PlacesOf(0..1), C)) + LossIn(C, p)
    <3>1. IsFiniteSet(PlacesOf(0..1)) /\ n \in Generators /\ flow \in 0..1 /\ p \in AllPackets
      BY <1>0
    <3>2. GetsAt(q, r, 0..1, n, flow, p)
      BY <2>3, <2>5 DEF ChangedAt, GetsAt
    <3> QED BY ONLY <3>1, <3>2, QueueMore
  <2> QED BY <2>1, <2>6 DEF Waiting
<1>3. ASSUME network' = network (+) SetToBag({p})
      PROVE  Count(Travelling(C))' = Count(Travelling(C)) + LossIn(C, p)
  <2>1. PICK B, D : B = network /\ D = network'
    OBVIOUS
  <2>2. IsABag(B) /\ DOMAIN B \subseteq AllPackets /\ D = B (+) SetToBag({p})
    BY <1>3, <2>1, QueuesOfAll
  <2>3. Count([z \in C |-> CopiesOf(z, D)]) = Count([z \in C |-> CopiesOf(z, B)]) + LossIn(C, p)
    BY <1>0, <2>2, CopiesMore
  <2> QED BY <2>1, <2>3 DEF Travelling
<1> QED BY <1>1, <1>2, <1>3

(* What gives a packet counts one less, if it is in C.                     *)
LEMMA Gave ==
  ASSUME NodesTypes, NEW C \in SUBSET AllPackets, NEW p, NEW n \in Generators
  PROVE  /\ \A vc \in Vcs :
                /\ injection[n][vc] # <<>> /\ p = Head(injection[n][vc])
                /\ injection' = [injection EXCEPT ![n][vc] = Tail(@)]
                => Count(Injecting(C)) = Count(Injecting(C))' + LossIn(C, p)
         /\ \A flow \in 0..1 :
                /\ outBuffers[n][flow] # <<>> /\ p = Head(outBuffers[n][flow])
                /\ outBuffers' = [outBuffers EXCEPT ![n][flow] = Tail(@)]
                => Count(Waiting(C)) = Count(Waiting(C))' + LossIn(C, p)
         /\ p \in DOMAIN network /\ network' = network (-) SetToBag({p}) =>
                Count(Travelling(C)) = Count(Travelling(C))' + LossIn(C, p)
<1>0. IsFiniteSet(PlacesOf(Vcs)) /\ IsFiniteSet(PlacesOf(0..1))
  BY PlacesFinite
<1>1. ASSUME NEW vc \in Vcs, injection[n][vc] # <<>>, p = Head(injection[n][vc]),
             injection' = [injection EXCEPT ![n][vc] = Tail(@)]
      PROVE  Count(Injecting(C)) = Count(Injecting(C))' + LossIn(C, p)
  <2>1. PICK q, r : q = injection /\ r = injection'
    OBVIOUS
  <2>2. q \in [Generators -> [Vcs -> Seq(NodePackets)]] /\ r = [q EXCEPT ![n][vc] = Tail(@)]
    BY <1>1, <2>1 DEF NodesTypes
  <2>3. /\ r[n][vc] = Tail(q[n][vc]) /\ q[n][vc] # <<>> /\ p = Head(q[n][vc])
        /\ \A m \in Generators : \A w \in Vcs : ~(m = n /\ w = vc) => r[m][w] = q[m][w]
    BY <1>1, <2>1, <2>2
  <2>4. \A m \in Generators : \A w \in Vcs : q[m][w] \in Seq(AllPackets)
    BY <2>2, OfAll
  <2>5. ASSUME NEW m \in Generators, NEW w \in Vcs
        PROVE  q[m][w] \in Seq(AllPackets) /\ r[m][w] \in Seq(AllPackets)
    <3>1. q[m][w] \in Seq(AllPackets) /\ q[n][vc] \in Seq(AllPackets)
      BY <2>4
    <3>2. Tail(q[n][vc]) \in Seq(AllPackets)
      BY <2>3, <3>1
    <3>3. r[m][w] = Tail(q[n][vc]) \/ r[m][w] = q[m][w]
      BY <2>3
    <3> QED BY <3>1, <3>2, <3>3
  <2>6. Count(Queued(q, PlacesOf(Vcs), C)) = Count(Queued(r, PlacesOf(Vcs), C)) + LossIn(C, p)
    <3>1. IsFiniteSet(PlacesOf(Vcs)) /\ n \in Generators /\ vc \in Vcs
      BY <1>0
    <3>2. GivesAt(q, r, Vcs, n, vc, p)
      BY <2>3, <2>5 DEF ChangedAt, GivesAt
    <3> QED BY ONLY <3>1, <3>2, QueueLess
  <2> QED BY <2>1, <2>6 DEF Injecting
<1>2. ASSUME NEW flow \in 0..1, outBuffers[n][flow] # <<>>, p = Head(outBuffers[n][flow]),
             outBuffers' = [outBuffers EXCEPT ![n][flow] = Tail(@)]
      PROVE  Count(Waiting(C)) = Count(Waiting(C))' + LossIn(C, p)
  <2>1. PICK q, r : q = outBuffers /\ r = outBuffers'
    OBVIOUS
  <2>2. q \in [Generators -> [0..1 -> Seq(NodePackets)]] /\ r = [q EXCEPT ![n][flow] = Tail(@)]
    BY <1>2, <2>1 DEF NodesTypes
  <2>3. /\ r[n][flow] = Tail(q[n][flow]) /\ q[n][flow] # <<>> /\ p = Head(q[n][flow])
        /\ \A m \in Generators : \A w \in 0..1 : ~(m = n /\ w = flow) => r[m][w] = q[m][w]
    BY <1>2, <2>1, <2>2
  <2>4. \A m \in Generators : \A w \in 0..1 : q[m][w] \in Seq(AllPackets)
    BY <2>2, OfAll
  <2>5. ASSUME NEW m \in Generators, NEW w \in 0..1
        PROVE  q[m][w] \in Seq(AllPackets) /\ r[m][w] \in Seq(AllPackets)
    <3>1. q[m][w] \in Seq(AllPackets) /\ q[n][flow] \in Seq(AllPackets)
      BY <2>4
    <3>2. Tail(q[n][flow]) \in Seq(AllPackets)
      BY <2>3, <3>1
    <3>3. r[m][w] = Tail(q[n][flow]) \/ r[m][w] = q[m][w]
      BY <2>3
    <3> QED BY <3>1, <3>2, <3>3
  <2>6. Count(Queued(q, PlacesOf(0..1), C)) = Count(Queued(r, PlacesOf(0..1), C)) + LossIn(C, p)
    <3>1. PICK F : F = 0..1
      OBVIOUS
    <3>2. IsFiniteSet(PlacesOf(F)) /\ n \in Generators /\ flow \in F
      BY <1>0, <3>1
    <3>3. GivesAt(q, r, F, n, flow, p)
      BY <2>3, <2>5, <3>1 DEF ChangedAt, GivesAt
    <3>4. Count(Queued(q, PlacesOf(F), C)) = Count(Queued(r, PlacesOf(F), C)) + LossIn(C, p)
      BY ONLY <3>2, <3>3, QueueLess
    <3> QED BY <3>1, <3>4
  <2> QED BY <2>1, <2>6 DEF Waiting
<1>3. ASSUME p \in DOMAIN network, network' = network (-) SetToBag({p})
      PROVE  Count(Travelling(C)) = Count(Travelling(C))' + LossIn(C, p)
  <2>1. PICK B, D : B = network /\ D = network'
    OBVIOUS
  <2>2. IsABag(B) /\ DOMAIN B \subseteq AllPackets /\ p \in DOMAIN B /\ D = B (-) SetToBag({p})
    BY <1>3, <2>1, QueuesOfAll
  <2>3. Count([z \in C |-> CopiesOf(z, B)]) = Count([z \in C |-> CopiesOf(z, D)]) + LossIn(C, p)
    BY <2>2, CopiesLess
  <2> QED BY <2>1, <2>3 DEF Travelling
<1> QED BY <1>1, <1>2, <1>3

-----------------------------------------------------------------------------
(* What a step does to the total of the packets of C.                      *)
LEMMA LossNat == \A C, p : LossIn(C, p) \in Nat
BY DEF LossIn

(* Where no packet moves, there are as many.                               *)
LEMMA TotalSame ==
  ASSUME UNCHANGED <<injection, network, outBuffers>>, NEW C
  PROVE  Total(C)' = Total(C)
BY DEF Total, Injecting, Waiting, Travelling, Queued, PlacesOf, Vcs, Generators

(* What does not change counts the same.                                   *)
LEMMA TotalParts ==
  ASSUME NEW C
  PROVE  /\ injection' = injection => Count(Injecting(C))' = Count(Injecting(C))
         /\ outBuffers' = outBuffers => Count(Waiting(C))' = Count(Waiting(C))
         /\ network' = network => Count(Travelling(C))' = Count(Travelling(C))
BY DEF Injecting, Waiting, Travelling

(* One more, injected.                                                     *)
LEMMA TotalInjected ==
  ASSUME NodesTypes, NEW C \in SUBSET AllPackets, NEW p \in NodePackets, NEW n \in Generators,
         NEW vc \in Vcs, injection' = [injection EXCEPT ![n][vc] = Append(@, p)],
         UNCHANGED <<network, outBuffers>>
  PROVE  Total(C)' = Total(C) + LossIn(C, p)
<1>1. Count(Injecting(C))' = Count(Injecting(C)) + LossIn(C, p)
  BY Got
<1>2. /\ Count(Waiting(C))' = Count(Waiting(C))
      /\ Count(Travelling(C))' = Count(Travelling(C))
  BY TotalParts
<1>3. /\ Count(Injecting(C)) \in Nat /\ Count(Waiting(C)) \in Nat
      /\ Count(Travelling(C)) \in Nat /\ LossIn(C, p) \in Nat
  BY TotalNat, LossNat
<1> QED BY <1>1, <1>2, <1>3 DEF Total

(* None more, on its way.                                                  *)
LEMMA TotalDeparted ==
  ASSUME NodesTypes, NodesTypes', config' = config, NEW C \in SUBSET AllPackets,
         NEW n \in Generators, NEW vc \in Vcs, injection[n][vc] # <<>>,
         injection' = [injection EXCEPT ![n][vc] = Tail(@)],
         network' = network (+) SetToBag({Head(injection[n][vc])}), outBuffers' = outBuffers
  PROVE  Total(C)' = Total(C)
<1>1. PICK p : p = Head(injection[n][vc])
  OBVIOUS
<1>2. p \in NodePackets
  BY <1>1 DEF NodesTypes
<1>3. Count(Injecting(C)) = Count(Injecting(C))' + LossIn(C, p)
  BY <1>1, Gave
<1>4. Count(Travelling(C))' = Count(Travelling(C)) + LossIn(C, p)
  BY <1>1, <1>2, Got
<1>5. Count(Waiting(C))' = Count(Waiting(C))
  BY TotalParts
<1>6. Count(Injecting(C))' \in Nat
  BY TotalLater
<1>7. /\ Count(Waiting(C)) \in Nat /\ Count(Travelling(C)) \in Nat /\ LossIn(C, p) \in Nat
  BY TotalNat, LossNat
<1> QED BY <1>3, <1>4, <1>5, <1>6, <1>7 DEF Total

(* A packet that goes from the network to an output buffer is counted      *)
(* before and after.                                                       *)
LEMMA TotalAccepted ==
  ASSUME NodesTypes, NodesTypes', config' = config, NEW C \in SUBSET AllPackets,
         NEW n \in Generators, NEW flow \in 0..1, NEW p \in DOMAIN network,
         network' = network (-) SetToBag({p}), injection' = injection,
         outBuffers' = [outBuffers EXCEPT ![n][flow] = Append(@, p)]
  PROVE  Total(C)' = Total(C)
<1>1. p \in NodePackets
  BY DEF NodesTypes
<1>2. Count(Waiting(C))' = Count(Waiting(C)) + LossIn(C, p)
  BY <1>1, Got
<1>3. Count(Travelling(C)) = Count(Travelling(C))' + LossIn(C, p)
  BY Gave
<1>4. Count(Injecting(C))' = Count(Injecting(C))
  BY TotalParts
<1>5. Count(Travelling(C))' \in Nat
  BY TotalLater
<1>6. /\ Count(Waiting(C)) \in Nat /\ Count(Injecting(C)) \in Nat /\ LossIn(C, p) \in Nat
  BY TotalNat, LossNat
<1> QED BY <1>2, <1>3, <1>4, <1>5, <1>6 DEF Total

(* One less, taken from the network or from an output buffer, and if it is *)
(* answered one more.                                                      *)
Taken(n, p) ==
    \/ p \in DOMAIN network /\ network' = network (-) SetToBag({p}) /\ outBuffers' = outBuffers
    \/ /\ \E flow \in 0..1 :
            /\ outBuffers[n][flow] # <<>> /\ p = Head(outBuffers[n][flow])
            /\ outBuffers' = [outBuffers EXCEPT ![n][flow] = Tail(@)]
       /\ network' = network

(* A packet that is consumed is not, but the response to it is.            *)
LEMMA TotalTaken ==
  ASSUME NodesTypes, NodesTypes', config' = config, NEW C \in SUBSET AllPackets,
         NEW n \in Generators, NEW p, Taken(n, p)
  PROVE  /\ injection' = injection => Total(C) = Total(C)' + LossIn(C, p)
         /\ \A vc \in Vcs : \A r \in NodePackets :
                injection' = [injection EXCEPT ![n][vc] = Append(@, r)] =>
                    Total(C) + LossIn(C, r) = Total(C)' + LossIn(C, p)
<1> DEFINE a == Count(Waiting(C)) + Count(Travelling(C))
           b == Count(Waiting(C))' + Count(Travelling(C))'
<1>1. /\ Count(Waiting(C))' \in Nat /\ Count(Travelling(C))' \in Nat
      /\ Count(Injecting(C))' \in Nat
  BY TotalLater
<1>2. /\ Count(Waiting(C)) \in Nat /\ Count(Injecting(C)) \in Nat
      /\ Count(Travelling(C)) \in Nat /\ LossIn(C, p) \in Nat
  BY TotalNat, LossNat
<1>3. a = b + LossIn(C, p)
  <2>1. CASE /\ p \in DOMAIN network /\ network' = network (-) SetToBag({p})
             /\ outBuffers' = outBuffers
    <3>1. Count(Travelling(C)) = Count(Travelling(C))' + LossIn(C, p)
      BY <2>1, Gave
    <3>2. Count(Waiting(C))' = Count(Waiting(C))
      BY <2>1, TotalParts
    <3> QED BY <1>1, <1>2, <3>1, <3>2
  <2>2. CASE /\ network' = network
             /\ \E flow \in 0..1 :
                  /\ outBuffers[n][flow] # <<>> /\ p = Head(outBuffers[n][flow])
                  /\ outBuffers' = [outBuffers EXCEPT ![n][flow] = Tail(@)]
    <3>1. Count(Waiting(C)) = Count(Waiting(C))' + LossIn(C, p)
      BY <2>2, Gave
    <3>2. Count(Travelling(C))' = Count(Travelling(C))
      BY <2>2, TotalParts
    <3> QED BY <1>1, <1>2, <3>1, <3>2
  <2> QED BY <2>1, <2>2 DEF Taken
<1>4. ASSUME injection' = injection PROVE Total(C) = Total(C)' + LossIn(C, p)
  <2>1. Count(Injecting(C))' = Count(Injecting(C))
    BY <1>4, TotalParts
  <2> QED BY <1>1, <1>2, <1>3, <2>1 DEF Total
<1>5. ASSUME NEW vc \in Vcs, NEW r \in NodePackets,
             injection' = [injection EXCEPT ![n][vc] = Append(@, r)]
      PROVE  Total(C) + LossIn(C, r) = Total(C)' + LossIn(C, p)
  <2>1. Count(Injecting(C))' = Count(Injecting(C)) + LossIn(C, r) /\ LossIn(C, r) \in Nat
    BY <1>5, Got, LossNat
  <2>2. Total(C) = Count(Injecting(C)) + a /\ Total(C)' = Count(Injecting(C))' + b
    BY <1>1, <1>2 DEF Total
  <2>3. a \in Nat /\ b \in Nat
    BY <1>1, <1>2
  <2> HIDE DEF a, b
  <2> QED BY <1>2, <1>3, <2>1, <2>2, <2>3
<1> QED BY <1>4, <1>5

-----------------------------------------------------------------------------
(* Every packet is the concern of one node.                                *)
LEMMA EndSizes ==
  /\ NodeCount \in Nat /\ NodeCount > 1
  /\ ChannelSpace \in Nat \ {0} /\ OutSpace \in Nat /\ BurstLength \in Nat \ {0}
  /\ MaxSent \in [Generators -> Nat] /\ MaxBursts \in Nat
  /\ config \in NodeConfigs =>
        /\ config.phases \in Nat \ {0} /\ FullLength \in Nat \ {0}
        /\ Finite => ~config.reactive
        /\ Finite <=> config.pattern \in {"SINGLE_BURST", "ALL2ALL"}
<1>1. /\ NodeCount \in Nat /\ NodeCount > 1
      /\ ChannelSpace \in Nat \ {0} /\ OutSpace \in Nat /\ BurstLength \in Nat \ {0}
      /\ MaxSent \in [Generators -> Nat] /\ MaxBursts \in Nat
  BY NodesAssumption DEF NodesAssumption, Generators
<1>2. ASSUME config \in NodeConfigs PROVE config.phases \in Nat \ {0}
  BY <1>2, NodesAssumption DEF NodesAssumption, AllNodeConfigs
<1>3. ASSUME config \in NodeConfigs PROVE FullLength \in Nat \ {0}
  <2>1. \A a, b \in Nat \ {0} : a * b \in Nat \ {0}
    OBVIOUS
  <2>2. NodeCount - 1 \in Nat \ {0}
    BY <1>1
  <2> QED BY <1>1, <1>2, <1>3, <2>1, <2>2 DEF FullLength
<1>4. ASSUME config \in NodeConfigs
      PROVE  /\ Finite => ~config.reactive
             /\ Finite <=> config.pattern \in {"SINGLE_BURST", "ALL2ALL"}
  BY <1>4, NodesSizes DEF Finite, Endless
<1> QED BY <1>1, <1>2, <1>3, <1>4

(* A packet concerns one node.                                             *)
LEMMA Owners ==
  ASSUME NodesTypes, NEW p \in NodePackets
  PROVE  /\ Owner(p) \in Generators
         /\ \A n \in Generators : LossIn(Concerning(n), p) = Loss(n, Owner(p))
<1>1. p \in AllPackets
  BY OfAll
<1>2. Owner(p) \in Generators
  BY <1>1 DEF AllPackets, Owner
<1>3. \A n : p \in Concerning(n) <=> Owner(p) = n
  BY <1>1 DEF Concerning
<1> QED BY <1>2, <1>3 DEF LossIn, Loss

(* The packets that concern a node are the same while the configuration    *)
(* is.                                                                     *)
LEMMA MineNow ==
  ASSUME config' = config, NEW n
  PROVE  \E C \in SUBSET AllPackets :
            C = Concerning(n) /\ Mine(n) = Total(C) /\ Mine(n)' = Total(C)'
<1>1. PICK C : C = Concerning(n)
  OBVIOUS
<1>2. C \in SUBSET AllPackets
  BY <1>1 DEF Concerning
<1>3. Concerning(n)' = C
  BY <1>1 DEF Concerning, Owner, AllPackets
<1>4. Mine(n) = Total(C) /\ Mine(n)' = Total(C)'
  BY <1>1, <1>3 DEF Mine
<1> QED BY <1>1, <1>2, <1>4

(* They are so many.                                                       *)
LEMMA MineNat ==
  ASSUME NodesTypes, NEW n PROVE Mine(n) \in Nat
<1>1. Concerning(n) \in SUBSET AllPackets
  BY DEF Concerning
<1> QED BY <1>1, TotalNat DEF Mine

(* A step does not change how much there is to send.                       *)
LEMMA LengthsKept ==
  ASSUME config' = config PROVE FullLength' = FullLength /\ Finite' = Finite
BY DEF FullLength, Finite

(* Steps that move packets, and leave the counters, keep the accounts.     *)
LEMMA CountsSame ==
  ASSUME NodesTypes, Counts, config' = config, Queues',
         UNCHANGED <<flitsTx, flitsRx, pendingPetitions, sent, finishedCount>>,
         \A n \in Generators : Mine(n)' = Mine(n)
  PROVE  Counts'
<1>1. FullLength' = FullLength /\ Finite' = Finite
  BY LengthsKept
<1>2. Accounted'
  BY <1>1 DEF Counts, Accounted
<1>3. Finished'
  BY <1>1 DEF Counts, Finished, Complete
<1> QED BY <1>2, <1>3 DEF Counts, CounterTypes

(* So do those after which there are as many of all.                       *)
LEMMA CountsKept ==
  ASSUME NodesTypes, Counts, config' = config, Queues',
         UNCHANGED <<flitsTx, flitsRx, pendingPetitions, sent, finishedCount>>,
         \A C \in SUBSET AllPackets : Total(C)' = Total(C)
  PROVE  Counts'
<1>1. \A n : Mine(n)' = Mine(n)
  BY MineNow
<1> QED BY <1>1, CountsSame

-----------------------------------------------------------------------------
(* A buffer that has room gets a packet, or gives one.                     *)
LEMMA RoomForOne ==
  ASSUME NodesTypes, Queues, NEW n \in Generators, NEW vc \in Vcs, HasRoom(n, vc),
         NEW p \in NodePackets, injection' = [injection EXCEPT ![n][vc] = Append(@, p)]
  PROVE  \A m \in Generators : \A w \in Vcs : Len(injection'[m][w]) <= ChannelSpace
<1> SUFFICES ASSUME NEW m \in Generators, NEW w \in Vcs
             PROVE  Len(injection'[m][w]) <= ChannelSpace
  OBVIOUS
<1>1. Len(injection'[m][w]) = Len(injection[m][w]) + (IF m = n THEN Loss(w, vc) ELSE 0)
  BY Appended
<1>2. Len(injection[m][w]) \in Nat /\ Len(injection[m][w]) <= ChannelSpace
  BY LengthsNat DEF Queues
<1>3. CASE m = n /\ w = vc
  <2>1. ChannelSpace - Len(injection[m][w]) >= 1
    BY <1>3 DEF HasRoom, Space
  <2>2. Len(injection'[m][w]) = Len(injection[m][w]) + 1
    BY <1>1, <1>3 DEF Loss
  <2> QED BY <1>2, <2>1, <2>2, EndSizes
<1>4. CASE ~(m = n /\ w = vc)
  <2>1. (IF m = n THEN Loss(w, vc) ELSE 0) = 0
    BY <1>4 DEF Loss
  <2> QED BY <1>1, <1>2, <2>1
<1> QED BY <1>3, <1>4

(* A queue that gives a packet gets shorter.                               *)
LEMMA RoomAfterOne ==
  ASSUME NodesTypes, Queues, NEW n \in Generators, NEW vc \in Vcs, injection[n][vc] # <<>>,
         injection' = [injection EXCEPT ![n][vc] = Tail(@)]
  PROVE  \A m \in Generators : \A w \in Vcs :
            /\ Len(injection'[m][w]) <= ChannelSpace
            /\ Len(injection'[m][w]) <= Len(injection[m][w])
            /\ Len(injection'[m][w]) \in Nat
<1> SUFFICES ASSUME NEW m \in Generators, NEW w \in Vcs
             PROVE  /\ Len(injection'[m][w]) <= ChannelSpace
                    /\ Len(injection'[m][w]) <= Len(injection[m][w])
                    /\ Len(injection'[m][w]) \in Nat
  OBVIOUS
<1>1. injection[n][vc] \in Seq(NodePackets) /\ injection[n][vc] # <<>>
  BY DEF NodesTypes
<1>2. Len(Tail(injection[n][vc])) = Len(injection[n][vc]) - 1
      /\ Len(injection[n][vc]) \in Nat \ {0}
  BY <1>1
<1>3. Len(injection[m][w]) \in Nat /\ Len(injection[m][w]) <= ChannelSpace
  BY LengthsNat DEF Queues
<1>4. injection'[m][w] = IF m = n /\ w = vc THEN Tail(injection[n][vc]) ELSE injection[m][w]
  BY DEF NodesTypes
<1> QED BY <1>2, <1>3, <1>4, EndSizes

(* An output buffer takes a packet of its node if it has space.            *)
LEMMA OutGets ==
  ASSUME NodesTypes, Queues, NEW n \in Generators, NEW flow \in 0..1, NEW p \in NodePackets,
         p.to = n, Len(outBuffers[n][flow]) < OutSpace, injection' = injection,
         outBuffers' = [outBuffers EXCEPT ![n][flow] = Append(@, p)]
  PROVE  Queues'
<1>1. ASSUME NEW m \in Generators, NEW f \in 0..1
      PROVE  /\ Len(outBuffers'[m][f]) <= OutSpace
             /\ \A i \in DOMAIN outBuffers'[m][f] : outBuffers'[m][f][i].to = m
  <2>1. outBuffers'[m][f] = IF m = n /\ f = flow THEN Append(outBuffers[n][flow], p)
                                                 ELSE outBuffers[m][f]
    BY DEF NodesTypes
  <2>2. CASE ~(m = n /\ f = flow)
    BY <2>1, <2>2 DEF Queues
  <2>3. CASE m = n /\ f = flow
    <3> DEFINE q == outBuffers[n][flow]
    <3>1. q \in Seq(NodePackets) /\ Len(q) < OutSpace /\ \A i \in DOMAIN q : q[i].to = n
      BY DEF NodesTypes, Queues
    <3> HIDE DEF q
    <3>2. Len(Append(q, p)) <= OutSpace /\ \A i \in DOMAIN Append(q, p) : Append(q, p)[i].to = n
      BY <3>1, EndSizes
    <3> QED BY <2>1, <2>3, <3>2 DEF q
  <2> QED BY <2>2, <2>3
<1> QED BY <1>1 DEF Queues

(* An output buffer that gives a packet has no less space.                 *)
LEMMA OutGives ==
  ASSUME NodesTypes, Queues, NEW n \in Generators, NEW flow \in 0..1,
         outBuffers[n][flow] # <<>>, outBuffers' = [outBuffers EXCEPT ![n][flow] = Tail(@)]
  PROVE  \A m \in Generators : \A f \in 0..1 :
            /\ Len(outBuffers'[m][f]) <= OutSpace
            /\ \A i \in DOMAIN outBuffers'[m][f] : outBuffers'[m][f][i].to = m
<1> SUFFICES ASSUME NEW m \in Generators, NEW f \in 0..1
             PROVE  /\ Len(outBuffers'[m][f]) <= OutSpace
                    /\ \A i \in DOMAIN outBuffers'[m][f] : outBuffers'[m][f][i].to = m
  OBVIOUS
<1>1. outBuffers'[m][f] = IF m = n /\ f = flow THEN Tail(outBuffers[n][flow])
                                               ELSE outBuffers[m][f]
  BY DEF NodesTypes
<1>2. CASE ~(m = n /\ f = flow)
  BY <1>1, <1>2 DEF Queues
<1>3. CASE m = n /\ f = flow
  <2> DEFINE q == outBuffers[n][flow]
  <2>1. q \in Seq(NodePackets) /\ q # <<>> /\ Len(q) <= OutSpace /\ \A i \in DOMAIN q : q[i].to = n
    BY DEF NodesTypes, Queues
  <2> HIDE DEF q
  <2>2. Len(Tail(q)) <= OutSpace /\ \A i \in DOMAIN Tail(q) : Tail(q)[i].to = n
    BY <2>1, EndSizes
  <2> QED BY <1>1, <1>3, <2>2 DEF q
<1> QED BY <1>2, <1>3

(* One of the channels with credits has room.                              *)
LEMMA RoomThere ==
  ASSUME NodesTypes, NEW n \in Generators, NEW vcs \in SUBSET Vcs, PortCredits(n, vcs) >= 1
  PROVE  \E vc \in vcs : Space(n, vc) >= 1
<1> SUFFICES ASSUME \A vc \in vcs : ~(Space(n, vc) >= 1) PROVE FALSE
  OBVIOUS
<1> DEFINE queue == injection[n]
           f == [vc \in vcs |-> ChannelSpace - Len(queue[vc])]
<1>1. \A vc \in vcs : ChannelSpace - Len(queue[vc]) \in Int /\ ChannelSpace - Len(queue[vc]) <= 0
  <2> SUFFICES ASSUME NEW vc \in vcs
               PROVE ChannelSpace - Len(queue[vc]) \in Int /\ ChannelSpace - Len(queue[vc]) <= 0
    OBVIOUS
  <2>1. Len(injection[n][vc]) \in Nat
    BY LengthsNat
  <2> QED BY <2>1, EndSizes DEF Space
<1>2. f \in [vcs -> Int] /\ \A vc \in vcs : f[vc] <= 0
  BY <1>1
<1>3. IsFiniteSet(vcs)
  <2>1. 0 \in Int /\ Channels - 1 \in Int
    BY NodesSizes
  <2>2. IsFiniteSet(Vcs)
    BY <2>1, FS_Interval DEF Vcs
  <2> QED BY <2>2, FS_Subset
<1>4. PortCredits(n, vcs) = MapThenSumSet(LAMBDA vc : ChannelSpace - Len(queue[vc]), vcs)
  BY Zenon DEF PortCredits, Space
<1> HIDE DEF queue
<1>5. PICK it \in [SUBSET vcs -> Int] :
        PortCredits(n, vcs) = it[vcs] /\ Adds(it, f, vcs)
  <2>1. \A vc \in vcs : ChannelSpace - Len(queue[vc]) \in Int
    BY <1>1
  <2>2. \E sums \in [SUBSET vcs -> Int] :
            /\ MapThenSumSet(LAMBDA vc : ChannelSpace - Len(queue[vc]), vcs) = sums[vcs]
            /\ Adds(sums, [vc \in vcs |-> ChannelSpace - Len(queue[vc])], vcs)
    BY <1>3, <2>1, CreditSums
  <2> QED BY <1>4, <2>2
<1> HIDE DEF f
<1> DEFINE T == {s \in SUBSET vcs : it[s] <= 0}
<1>6. {} \in T
  BY <1>5 DEF Adds
<1>7. ASSUME NEW s \in SUBSET vcs, s # {}, s \ {One(s)} \in T PROVE s \in T
  <2> DEFINE o == One(s)
  <2>1. o \in vcs /\ s \ {o} \in SUBSET vcs
    BY <1>7 DEF One
  <2>2. it[s] = f[o] + it[s \ {o}] /\ it[s \ {o}] <= 0
    BY <1>5, <1>7 DEF Adds
  <2> HIDE DEF o
  <2>3. f[o] \in Int /\ f[o] <= 0 /\ it[s \ {o}] \in Int
    BY <1>2, <2>1
  <2> QED BY <2>2, <2>3
<1>8. vcs \in T
  <2> HIDE DEF T
  <2>1. \A s \in SUBSET vcs : s \in T
    BY <1>3, <1>6, <1>7, BySize
  <2> QED BY <2>1
<1> QED BY <1>5, <1>8

-----------------------------------------------------------------------------
(* A node injects a packet of its own.                                     *)
LEMMA InjectCounted ==
  ASSUME NodesTypes, Counts, config' = config, NEW n \in Generators, NEW dest \in Generators,
         NEW vc \in Vcs, HasRoom(n, vc), Inject(n, dest, vc),
         UNCHANGED <<flitsRx, network, outBuffers, finishedCount>>,
         ~Finite => sent[n] < MaxSent[n], Finite => flitsTx[n] # FullLength
  PROVE  Counts'
<1>0. /\ CounterTypes /\ Queues /\ Accounted /\ Finished /\ config \in NodeConfigs
      /\ FullLength' = FullLength /\ Finite' = Finite
  BY LengthsKept DEF Counts, NodesTypes
<1>1. PICK p : p = Packet(OwnType, n, dest)
  OBVIOUS
<1>2. p \in NodePackets /\ Owner(p) = n
  BY <1>1, OwnTypes DEF Owner, Packet
<1>3. injection' = [injection EXCEPT ![n][vc] = Append(@, p)]
  BY <1>1 DEF Inject
<1>4. \A m \in Generators : Mine(m)' = Mine(m) + Loss(m, n)
  <2> SUFFICES ASSUME NEW m \in Generators PROVE Mine(m)' = Mine(m) + Loss(m, n)
    OBVIOUS
  <2>1. PICK C \in SUBSET AllPackets :
           C = Concerning(m) /\ Mine(m) = Total(C) /\ Mine(m)' = Total(C)'
    BY MineNow
  <2>2. Total(C)' = Total(C) + LossIn(C, p)
    BY <1>2, <1>3, TotalInjected
  <2>3. LossIn(C, p) = Loss(m, n)
    BY <1>2, <2>1, Owners
  <2> QED BY <2>1, <2>2, <2>3
<1>5. Queues'
  BY <1>0, <1>2, <1>3, RoomForOne DEF Queues
<1>6. \A m \in Generators :
        /\ flitsTx'[m] = IF Finite THEN flitsTx[m] + Loss(m, n) ELSE flitsTx[m]
        /\ sent'[m] = IF Finite THEN sent[m] ELSE sent[m] + Loss(m, n)
        /\ pendingPetitions'[m] = IF config.reactive THEN pendingPetitions[m] + Loss(m, n)
                                                     ELSE pendingPetitions[m]
  <2> SUFFICES ASSUME NEW m \in Generators
               PROVE  /\ flitsTx'[m] = IF Finite THEN flitsTx[m] + Loss(m, n) ELSE flitsTx[m]
                      /\ sent'[m] = IF Finite THEN sent[m] ELSE sent[m] + Loss(m, n)
                      /\ pendingPetitions'[m] = IF config.reactive
                                                THEN pendingPetitions[m] + Loss(m, n)
                                                ELSE pendingPetitions[m]
    OBVIOUS
  <2>1. flitsTx[m] \in Nat /\ sent[m] \in Nat /\ pendingPetitions[m] \in Nat
    BY <1>0 DEF CounterTypes
  <2>2. CASE m = n
    BY <1>0, <2>2 DEF Inject, Finite, CounterTypes, Loss
  <2>3. CASE m # n
    BY <1>0, <2>1, <2>3 DEF Inject, Finite, CounterTypes, Loss
  <2> QED BY <2>2, <2>3
<1>7. CounterTypes'
  <2>1. /\ flitsTx \in [Generators -> Nat] /\ sent \in [Generators -> Nat]
        /\ pendingPetitions \in [Generators -> Nat]
    BY <1>0 DEF CounterTypes
  <2>2. /\ [flitsTx EXCEPT ![n] = @ + 1] \in [Generators -> Nat]
        /\ [sent EXCEPT ![n] = @ + 1] \in [Generators -> Nat]
        /\ [pendingPetitions EXCEPT ![n] = @ + 1] \in [Generators -> Nat]
    BY <2>1
  <2>3. /\ flitsTx' \in {flitsTx, [flitsTx EXCEPT ![n] = @ + 1]}
        /\ sent' \in {sent, [sent EXCEPT ![n] = @ + 1]}
        /\ pendingPetitions' \in {pendingPetitions, [pendingPetitions EXCEPT ![n] = @ + 1]}
    BY DEF Inject
  <2>4. /\ flitsTx' \in [Generators -> Nat] /\ sent' \in [Generators -> Nat]
        /\ pendingPetitions' \in [Generators -> Nat]
    BY <2>1, <2>2, <2>3
  <2> QED BY <1>0, <2>4 DEF CounterTypes
<1>8. Accounted'
  <2> SUFFICES ASSUME NEW m \in Generators
               PROVE  /\ flitsTx'[m] <= FullLength /\ sent'[m] <= MaxSent[m]
                      /\ Finite => flitsTx'[m] = flitsRx[m] + Mine(m)'
                      /\ ~Finite => flitsTx'[m] = 0 /\ flitsRx[m] = 0
                      /\ pendingPetitions'[m] = IF config.reactive THEN Mine(m)' ELSE 0
                      /\ pendingPetitions'[m] <= sent'[m]
    BY <1>0 DEF Accounted
  <2>1. /\ flitsTx[m] \in Nat /\ flitsRx[m] \in Nat /\ sent[m] \in Nat /\ MaxSent[m] \in Nat
        /\ pendingPetitions[m] \in Nat /\ Mine(m) \in Nat /\ FullLength \in Nat
    BY <1>0, MineNat, EndSizes DEF CounterTypes
  <2>2. /\ flitsTx[m] <= FullLength /\ sent[m] <= MaxSent[m]
        /\ Finite => flitsTx[m] = flitsRx[m] + Mine(m)
        /\ ~Finite => flitsTx[m] = 0 /\ flitsRx[m] = 0
        /\ pendingPetitions[m] = IF config.reactive THEN Mine(m) ELSE 0
        /\ pendingPetitions[m] <= sent[m]
    BY <1>0 DEF Accounted
  <2>3. CASE m # n
    <3>1. Loss(m, n) = 0
      BY <2>3 DEF Loss
    <3>2. /\ Mine(m)' = Mine(m) /\ flitsTx'[m] = flitsTx[m] /\ sent'[m] = sent[m]
          /\ pendingPetitions'[m] = pendingPetitions[m]
      BY <1>4, <1>6, <2>1, <3>1
    <3> QED BY <2>2, <3>2
  <2>4. CASE m = n
    <3>1. Loss(m, n) = 1
      BY <2>4 DEF Loss
    <3>2. ~Finite => sent[m] + 1 <= MaxSent[m]
      BY <2>1, <2>4
    <3>3. Finite => flitsTx[m] + 1 <= FullLength
      BY <2>1, <2>2, <2>4
    <3>4. Finite => ~config.reactive
      BY <1>0, EndSizes
    <3> QED BY <1>4, <1>6, <2>1, <2>2, <3>1, <3>2, <3>3, <3>4
  <2> QED BY <2>3, <2>4
<1>9. Finished'
  BY <1>0 DEF Finished, Complete
<1> QED BY <1>5, <1>7, <1>8, <1>9 DEF Counts

(* Steps that touch neither packets nor counters.                          *)
LEMMA NothingCounted ==
  ASSUME NodesTypes, NodesTypes', Counts,
         UNCHANGED <<config, flitsTx, flitsRx, pendingPetitions, sent, finishedCount, injection,
                     network, outBuffers>>
  PROVE  Counts'
<1>1. Queues'
  BY DEF Counts, Queues
<1>2. \A C \in SUBSET AllPackets : Total(C)' = Total(C)
  BY TotalSame
<1> QED BY <1>1, <1>2, CountsKept

(* A packet that departs is still counted.                                 *)
LEMMA DepartCounted ==
  ASSUME NodesTypes, NodesTypes', Counts, NEW n \in Generators, NEW vc \in Vcs, Depart(n, vc)
  PROVE  /\ Counts' /\ \A C \in SUBSET AllPackets : Total(C)' = Total(C)
         /\ \A m \in Generators : \A w \in Vcs : Len(injection'[m][w]) <= Len(injection[m][w])
<1>1. /\ injection[n][vc] # <<>> /\ injection' = [injection EXCEPT ![n][vc] = Tail(@)]
      /\ network' = network (+) SetToBag({Head(injection[n][vc])})
      /\ UNCHANGED <<config, outBuffers, flitsTx, flitsRx, pendingPetitions, sent, finishedCount>>
  BY DEF Depart
<1>2. Queues /\ \A m \in Generators : \A w \in Vcs :
        /\ Len(injection'[m][w]) <= ChannelSpace
        /\ Len(injection'[m][w]) <= Len(injection[m][w])
  BY <1>1, RoomAfterOne DEF Counts
<1>3. Queues'
  BY <1>1, <1>2 DEF Queues
<1>4. \A C \in SUBSET AllPackets : Total(C)' = Total(C)
  BY <1>1, TotalDeparted
<1>5. Counts'
  BY <1>1, <1>3, <1>4, CountsKept
<1> QED BY <1>2, <1>4, <1>5

(* A packet that is accepted is still counted.                             *)
LEMMA AcceptCounted ==
  ASSUME NodesTypes, NodesTypes', Counts, NEW n \in Generators, Accept(n)
  PROVE  Counts' /\ \A C \in SUBSET AllPackets : Total(C)' = Total(C)
<1>1. PICK p \in BagToSet(network) :
        /\ p.to = n /\ CheckConsumePort(n, p) /\ network' = network (-) SetToBag({p})
        /\ outBuffers' = [outBuffers EXCEPT ![n][FlowOf(p)] = Append(@, p)]
  BY DEF Accept
<1>2. UNCHANGED <<config, injection, flitsTx, flitsRx, pendingPetitions, sent, finishedCount>>
  BY DEF Accept
<1>3. p \in DOMAIN network /\ p \in NodePackets
  BY <1>1 DEF NodesTypes, BagToSet
<1>4. PICK flow : flow = FlowOf(p)
  OBVIOUS
<1>5. flow \in 0..1 /\ Len(outBuffers[n][flow]) < OutSpace
  BY <1>1, <1>4 DEF CheckConsumePort, FlowOf
<1>6. outBuffers' = [outBuffers EXCEPT ![n][flow] = Append(@, p)]
  BY <1>1, <1>4
<1>7. Queues'
  BY <1>1, <1>2, <1>3, <1>5, <1>6, OutGets DEF Counts
<1>8. \A C \in SUBSET AllPackets : Total(C)' = Total(C)
  <2> SUFFICES ASSUME NEW C \in SUBSET AllPackets PROVE Total(C)' = Total(C)
    OBVIOUS
  <2>1. network' = network (-) SetToBag({p}) /\ injection' = injection /\ config' = config
    BY <1>1, <1>2
  <2> QED BY <1>3, <1>5, <1>6, <2>1, TotalAccepted, Zenon
<1> QED BY <1>2, <1>7, <1>8, CountsKept

-----------------------------------------------------------------------------
(* A node with credits for a destination finds a channel with room.        *)
LEMMA RoomForIt ==
  ASSUME NodesTypes, NEW n \in Generators, NEW type \in PetitionTypes,
         config.reactive \/ type = "RESPONSE", NEW dest \in Generators,
         PortCredits(n, ArrayInjVC(dest, type)) >= 1, NEW vc \in InjectionVC(n, dest, type)
  PROVE  HasRoom(n, vc) /\ vc \in InjectionVcs(type) /\ vc \in Vcs
<1>0. -1 \notin Vcs
  BY NodesSizes DEF Vcs
<1>1. ArrayInjVC(dest, type) \subseteq InjectionVcs(type) /\ InjectionVcs(type) \subseteq Vcs
  BY DestinationChannels DEF NodesTypes
<1>2. PICK w \in ArrayInjVC(dest, type) : Space(n, w) >= 1
  <2>1. ArrayInjVC(dest, type) \in SUBSET Vcs
    BY <1>1
  <2> QED BY <2>1, RoomThere
<1>3. CASE config.policy = "DEST"
  <2>1. vc \in ArrayInjVC(dest, type)
    BY <1>3 DEF InjectionVC
  <2>2. vc = w
    BY <1>2, <1>3, <2>1 DEF ArrayInjVC
  <2> QED BY <1>0, <1>1, <1>2, <2>2 DEF HasRoom
<1>4. CASE config.policy # "DEST"
  <2>1. vc \in InjectionVcs(type) /\ Space(n, vc) >= 1
    BY <1>1, <1>2, <1>4 DEF InjectionVC
  <2> QED BY <1>0, <1>1, <2>1 DEF HasRoom
<1> QED BY <1>3, <1>4

(* A petition is always answered, so that nothing is lost.                 *)
LEMMA ConsumeAnswers ==
  ASSUME NodesTypes, NEW n \in Generators, NEW p \in NodePackets, CheckConsume(n, p),
         Consume(n, p)
  PROVE  /\ nodesAborted' = nodesAborted
         /\ p.type # "PETITION" => injection' = injection
         /\ p.type = "PETITION" => config.reactive /\ \E vc \in InjectionVcs("RESPONSE") :
                /\ vc \in Vcs /\ HasRoom(n, vc)
                /\ injection' =
                      [injection EXCEPT ![n][vc] = Append(@, Packet("RESPONSE", n, p.from))]
<1>1. CASE p.type # "PETITION"
  BY <1>1 DEF Consume
<1>2. CASE p.type = "PETITION"
  <2>1. config.reactive /\ p.from \in Generators
    BY <1>2 DEF NodePackets
  <2>2. PICK vc \in InjectionVC(n, p.from, "RESPONSE") :
          IF HasRoom(n, vc)
          THEN /\ injection' =
                     [injection EXCEPT ![n][vc] = Append(@, Packet("RESPONSE", n, p.from))]
               /\ UNCHANGED nodesAborted
          ELSE nodesAborted' = TRUE /\ UNCHANGED injection
    BY <1>2 DEF Consume
  <2>3. HasRoom(n, vc) /\ vc \in InjectionVcs("RESPONSE") /\ vc \in Vcs
    <3>1. PortCredits(n, ArrayInjVC(p.from, "RESPONSE")) >= 1
      BY <1>2 DEF CheckConsume
    <3> QED BY <2>1, <2>2, <3>1, RoomForIt DEF PetitionTypes
  <2> QED BY <1>2, <2>1, <2>2, <2>3
<1> QED BY <1>1, <1>2

(* The nodes that are complete are finitely many.                          *)
LEMMA CompleteFinite == IsFiniteSet(Complete) /\ Cardinality(Complete) \in Nat
<1>1. Complete \in SUBSET Generators
  BY DEF Complete
<1> QED BY <1>1, PlacesFinite, FS_Subset, FS_CardinalityType

(* Node n consumes a packet that it takes.                                 *)
LEMMA ConsumeCounted ==
  ASSUME NodesTypes, NodesTypes', Counts, NEW n \in Generators, NEW p \in NodePackets, p.to = n,
         Taken(n, p), CheckConsume(n, p), Consume(n, p)
  PROVE  Counts'
<1>0. /\ CounterTypes /\ Queues /\ Accounted /\ Finished /\ config \in NodeConfigs
      /\ FullLength' = FullLength /\ Finite' = Finite /\ config' = config
      /\ UNCHANGED <<flitsTx, sent>>
  BY LengthsKept DEF Counts, NodesTypes, Consume
<1>1. Queues'
  <2>1. \A m \in Generators : \A f \in 0..1 :
            /\ Len(outBuffers'[m][f]) <= OutSpace
            /\ \A i \in DOMAIN outBuffers'[m][f] : outBuffers'[m][f][i].to = m
    <3>1. CASE outBuffers' = outBuffers
      BY <1>0, <3>1 DEF Queues
    <3>2. CASE \E flow \in 0..1 :
                  /\ outBuffers[n][flow] # <<>>
                  /\ outBuffers' = [outBuffers EXCEPT ![n][flow] = Tail(@)]
      BY <1>0, <3>2, OutGives
    <3> QED BY <3>1, <3>2 DEF Taken
  <2>2. \A m \in Generators : \A w \in Vcs : Len(injection'[m][w]) <= ChannelSpace
    <3>1. CASE injection' = injection
      BY <1>0, <3>1 DEF Queues
    <3>2. CASE p.type = "PETITION"
      <4>1. PICK vc \in Vcs :
              /\ HasRoom(n, vc)
              /\ injection' =
                    [injection EXCEPT ![n][vc] = Append(@, Packet("RESPONSE", n, p.from))]
        BY <3>2, ConsumeAnswers
      <4>2. Packet("RESPONSE", n, p.from) \in NodePackets
        BY <3>2, ConsumeAnswers, OwnTypes DEF NodePackets
      <4> QED BY <1>0, <4>1, <4>2, RoomForOne
    <3> QED BY <3>1, <3>2, ConsumeAnswers
  <2> QED BY <2>1, <2>2 DEF Queues
<1>2. CASE p.type = "PETITION"
  <2>1. PICK vc \in Vcs :
          /\ config.reactive
          /\ injection' = [injection EXCEPT ![n][vc] = Append(@, Packet("RESPONSE", n, p.from))]
    BY <1>2, ConsumeAnswers
  <2>2. PICK r : r = Packet("RESPONSE", n, p.from)
    OBVIOUS
  <2>3. r \in NodePackets /\ Owner(r) = p.from /\ Owner(p) = p.from
    BY <1>2, <2>1, <2>2, OwnTypes DEF NodePackets, Owner, Packet
  <2>4. ASSUME NEW m \in Generators PROVE Mine(m)' = Mine(m)
    <3>1. PICK C \in SUBSET AllPackets :
             C = Concerning(m) /\ Mine(m) = Total(C) /\ Mine(m)' = Total(C)'
      BY <1>0, MineNow
    <3>2. Total(C) + LossIn(C, r) = Total(C)' + LossIn(C, p)
      <4>1. injection' = [injection EXCEPT ![n][vc] = Append(@, r)]
        BY <2>1, <2>2
      <4>2. \A w \in Vcs : \A s \in NodePackets :
              injection' = [injection EXCEPT ![n][w] = Append(@, s)] =>
                  Total(C) + LossIn(C, s) = Total(C)' + LossIn(C, p)
        BY <1>0, TotalTaken
      <4> QED BY <2>3, <4>1, <4>2, Zenon
    <3>3. LossIn(C, r) = LossIn(C, p) /\ LossIn(C, r) \in Nat
      BY <2>3, <3>1, Owners, LossNat
    <3>4. Total(C) \in Nat /\ Total(C)' \in Nat
      BY TotalNat, TotalLater
    <3> QED BY <3>1, <3>2, <3>3, <3>4
  <2>5. ~Finite /\ UNCHANGED <<flitsRx, pendingPetitions, finishedCount>>
    <3>1. ~Finite
      BY <1>0, <2>1, EndSizes
    <3>2. flitsRx' = flitsRx /\ pendingPetitions' = pendingPetitions
      BY <1>2, <3>1 DEF Consume, Finite
    <3>3. finishedCount' = finishedCount + 0
      BY <3>1 DEF Consume, Finite
    <3> QED BY <1>0, <3>1, <3>2, <3>3 DEF CounterTypes
  <2> QED BY <1>0, <1>1, <2>4, <2>5, CountsSame
<1>3. CASE p.type # "PETITION"
  <2>0. p.type = "RESPONSE" /\ p.from \in Generators
    BY <1>3 DEF NodePackets, PetitionTypes
  <2>1. injection' = injection
    BY <1>3, ConsumeAnswers
  <2>2. PICK o : o = Owner(p)
    OBVIOUS
  <2>3. o \in Generators /\ (o = IF config.reactive THEN n ELSE p.from)
    BY <1>3, <2>0, <2>2 DEF Owner
  <2>4. ASSUME NEW m \in Generators
        PROVE  Mine(m) \in Nat /\ Mine(m)' \in Nat /\ Mine(m) = Mine(m)' + Loss(m, o)
    <3>1. PICK C \in SUBSET AllPackets :
             C = Concerning(m) /\ Mine(m) = Total(C) /\ Mine(m)' = Total(C)'
      BY <1>0, MineNow
    <3>2. Total(C) = Total(C)' + LossIn(C, p)
      BY <1>0, <2>1, TotalTaken
    <3>3. LossIn(C, p) = Loss(m, o)
      BY <2>2, <3>1, Owners
    <3>4. Total(C) \in Nat /\ Total(C)' \in Nat
      BY TotalNat, TotalLater
    <3> QED BY <3>1, <3>2, <3>3, <3>4
  <2>5. Mine(o) = Mine(o)' + 1 /\ Mine(o)' \in Nat
    BY <2>3, <2>4 DEF Loss
  <2>6. \A m \in Generators : m # o => Mine(m)' = Mine(m)
    <3> SUFFICES ASSUME NEW m \in Generators, m # o PROVE Mine(m)' = Mine(m)
      OBVIOUS
    <3>1. Loss(m, o) = 0
      BY DEF Loss
    <3> QED BY <2>4, <3>1
  <2>7. \A m \in Generators :
          /\ flitsTx[m] \in Nat /\ flitsRx[m] \in Nat /\ sent[m] \in Nat
          /\ pendingPetitions[m] \in Nat /\ FullLength \in Nat
          /\ flitsTx[m] <= FullLength /\ sent[m] <= MaxSent[m] /\ MaxSent[m] \in Nat
          /\ Finite => flitsTx[m] = flitsRx[m] + Mine(m)
          /\ ~Finite => flitsTx[m] = 0 /\ flitsRx[m] = 0
          /\ pendingPetitions[m] = IF config.reactive THEN Mine(m) ELSE 0
          /\ pendingPetitions[m] <= sent[m]
    BY <1>0, EndSizes DEF Accounted, CounterTypes
  <2>8. pendingPetitions' = IF config.reactive THEN [pendingPetitions EXCEPT ![n] = @ - 1]
                                               ELSE pendingPetitions
    BY <2>0 DEF Consume
  <2>9. flitsRx' = IF Finite THEN [flitsRx EXCEPT ![p.from] = @ + 1] ELSE flitsRx
    BY DEF Consume, Finite
  <2>10. finishedCount' =
            finishedCount + (IF Finite /\ flitsRx'[p.from] = FullLength THEN 1 ELSE 0)
    BY <1>0 DEF Consume, Finite
  <2>11. \A m \in Generators :
            /\ pendingPetitions'[m] = IF config.reactive THEN Mine(m)' ELSE 0
            /\ pendingPetitions'[m] \in Nat /\ pendingPetitions'[m] <= sent[m]
    <3> SUFFICES ASSUME NEW m \in Generators
                 PROVE  /\ pendingPetitions'[m] = IF config.reactive THEN Mine(m)' ELSE 0
                        /\ pendingPetitions'[m] \in Nat /\ pendingPetitions'[m] <= sent[m]
      OBVIOUS
    <3>1. CASE ~config.reactive
      BY <2>7, <2>8, <3>1
    <3>2. CASE config.reactive /\ m # o
      <4>1. pendingPetitions'[m] = pendingPetitions[m]
        BY <1>0, <2>3, <2>8, <3>2 DEF CounterTypes
      <4> QED BY <2>6, <2>7, <3>2, <4>1
    <3>3. CASE config.reactive /\ m = o
      <4>1. pendingPetitions'[m] = pendingPetitions[m] - 1
        BY <1>0, <2>3, <2>8, <3>3 DEF CounterTypes
      <4>2. pendingPetitions[m] = Mine(m)' + 1
        BY <2>5, <2>7, <3>3
      <4> QED BY <2>5, <2>7, <3>3, <4>1, <4>2
    <3> QED BY <3>1, <3>2, <3>3
  <2>12. \A m \in Generators :
            /\ flitsRx'[m] \in Nat
            /\ Finite => flitsTx[m] = flitsRx'[m] + Mine(m)' /\ flitsRx'[m] = flitsRx[m] + Loss(m, o)
            /\ ~Finite => flitsRx'[m] = 0
    <3> SUFFICES ASSUME NEW m \in Generators
                 PROVE  /\ flitsRx'[m] \in Nat
                        /\ Finite => /\ flitsTx[m] = flitsRx'[m] + Mine(m)'
                                     /\ flitsRx'[m] = flitsRx[m] + Loss(m, o)
                        /\ ~Finite => flitsRx'[m] = 0
      OBVIOUS
    <3>1. CASE ~Finite
      BY <2>7, <2>9, <3>1
    <3>2. CASE Finite
      <4>1. o = p.from
        BY <1>0, <2>3, <3>2, EndSizes
      <4>2. CASE m = o
        <5>1. flitsRx'[m] = flitsRx[m] + 1 /\ Loss(m, o) = 1
          BY <1>0, <2>9, <3>2, <4>1, <4>2 DEF CounterTypes, Loss
        <5>2. flitsTx[m] = flitsRx[m] + (Mine(m)' + 1)
          BY <2>5, <2>7, <3>2, <4>2
        <5> QED BY <2>5, <2>7, <3>2, <4>2, <5>1, <5>2
      <4>3. CASE m # o
        <5>1. flitsRx'[m] = flitsRx[m] /\ Loss(m, o) = 0
          BY <1>0, <2>9, <3>2, <4>1, <4>3 DEF CounterTypes, Loss
        <5> QED BY <2>6, <2>7, <3>2, <4>3, <5>1
      <4> QED BY <4>2, <4>3
    <3> QED BY <3>1, <3>2
  <2>13. CounterTypes'
    <3>1. flitsRx' \in [Generators -> Nat]
      <4>1. DOMAIN flitsRx' = Generators /\ flitsRx' = [m \in Generators |-> flitsRx'[m]]
        BY <1>0, <2>9 DEF CounterTypes
      <4> QED BY <2>12, <4>1
    <3>2. pendingPetitions' \in [Generators -> Nat]
      <4>1. /\ DOMAIN pendingPetitions' = Generators
            /\ pendingPetitions' = [m \in Generators |-> pendingPetitions'[m]]
        BY <1>0, <2>8 DEF CounterTypes
      <4> QED BY <2>11, <4>1
    <3>3. finishedCount' \in Nat
      BY <1>0, <2>10 DEF CounterTypes
    <3> QED BY <1>0, <3>1, <3>2, <3>3 DEF CounterTypes
  <2>14. Accounted'
    BY <1>0, <2>7, <2>11, <2>12 DEF Accounted
  <2>15. Finished'
    <3>1. CASE ~Finite
      BY <1>0, <2>10, <3>1 DEF Finished, CounterTypes
    <3>2. CASE Finite
      <4>1. o = p.from
        BY <1>0, <2>3, <3>2, EndSizes
      <4>2. flitsRx'[o] = flitsRx[o] + 1 /\ \A m \in Generators : m # o => flitsRx'[m] = flitsRx[m]
        <5>1. \A m \in Generators : flitsRx'[m] = flitsRx[m] + Loss(m, o) /\ flitsRx[m] \in Nat
          BY <2>7, <2>12, <3>2
        <5> QED BY <2>3, <5>1 DEF Loss
      <4>3. o \notin Complete
        <5>1. flitsTx[o] = flitsRx[o] + (Mine(o)' + 1)
          BY <2>3, <2>5, <2>7, <3>2
        <5>2. flitsRx[o] # FullLength
          BY <2>3, <2>5, <2>7, <5>1
        <5> QED BY <5>2 DEF Complete
      <4>4. finishedCount = Cardinality(Complete) /\ Cardinality(Complete) \in Nat
        BY <1>0, <3>2, CompleteFinite DEF Finished
      <4>5. Complete' = {m \in Generators : flitsRx'[m] = FullLength}
        BY <1>0 DEF Complete
      <4>6. CASE flitsRx'[o] = FullLength
        <5>1. Complete' = Complete \cup {o}
          BY <2>3, <4>2, <4>5, <4>6 DEF Complete
        <5>2. Cardinality(Complete') = Cardinality(Complete) + 1
          BY <4>3, <5>1, CompleteFinite, FS_AddElement
        <5> QED BY <1>0, <2>10, <3>2, <4>1, <4>4, <4>6, <5>2 DEF Finished
      <4>7. CASE flitsRx'[o] # FullLength
        <5>1. Complete' = Complete
          BY <4>2, <4>3, <4>5, <4>7 DEF Complete
        <5> QED BY <1>0, <2>10, <3>2, <4>1, <4>4, <4>7, <5>1 DEF Finished
      <4> QED BY <4>6, <4>7
    <3> QED BY <3>1, <3>2
  <2> QED BY <1>1, <2>13, <2>14, <2>15 DEF Counts
<1> QED BY <1>2, <1>3

-----------------------------------------------------------------------------
(* A node that sends no burst keeps a channel with room.                   *)
LEMMA RoomyKept ==
  ASSUME NodesTypes, NodesTypes', config' = config, Roomy, UNCHANGED <<burst, bursts>>,
         config.pattern = "BURSTY_UN" =>
            \A n \in Generators : \A vc \in InjectionVcs(OwnType) :
                Len(injection'[n][vc]) <= Len(injection[n][vc])
  PROVE  Roomy'
<1>1. InjectionVcs(OwnType)' = InjectionVcs(OwnType)
  BY DEF InjectionVcs, OwnType
<1>2. ASSUME config.pattern = "BURSTY_UN", NEW n \in Generators, NEW vc \in InjectionVcs(OwnType),
             Space(n, vc) >= 1
      PROVE  Space(n, vc)' >= 1
  <2>1. vc \in Vcs
    BY OwnTypes, DestinationChannels DEF NodesTypes
  <2>2. Len(injection[n][vc]) \in Nat
    BY <2>1, LengthsNat
  <2>3. Len(injection'[n][vc]) \in Nat
    <3>1. injection'[n][vc] \in Seq(NodePackets')
      BY <2>1 DEF NodesTypes
    <3> QED BY <3>1
  <2>4. Len(injection'[n][vc]) <= Len(injection[n][vc])
    BY <1>2
  <2> QED BY <1>2, <2>2, <2>3, <2>4, EndSizes DEF Space
<1>3. \A n \in Generators :
        config.pattern = "BURSTY_UN" /\ ~burst[n].on =>
            \E vc \in InjectionVcs(OwnType) : Space(n, vc)' >= 1
  <2> SUFFICES ASSUME NEW n \in Generators, config.pattern = "BURSTY_UN", ~burst[n].on
               PROVE  \E vc \in InjectionVcs(OwnType) : Space(n, vc)' >= 1
    OBVIOUS
  <2>1. PICK vc \in InjectionVcs(OwnType) : Space(n, vc) >= 1
    BY DEF Roomy
  <2> QED BY <1>2, <2>1
<1>4. \A n \in Generators :
        (config.pattern = "BURSTY_UN" /\ ~burst[n].on)' =>
            (\E vc \in InjectionVcs(OwnType) : Space(n, vc) >= 1)'
  BY <1>1, <1>3
<1> QED BY <1>4 DEF Roomy

(* Consuming takes room for responses only, and a burst is of packets of   *)
(* the other type.                                                         *)
LEMMA ConsumeRoomy ==
  ASSUME NodesTypes, NodesTypes', Roomy, NEW n \in Generators, NEW p \in NodePackets,
         CheckConsume(n, p), Consume(n, p)
  PROVE  Roomy'
<1>1. UNCHANGED <<config, burst, bursts>>
  BY DEF Consume, patternVars
<1>2. \A m \in Generators : \A w \in InjectionVcs(OwnType) :
        Len(injection'[m][w]) <= Len(injection[m][w])
  <2> SUFFICES ASSUME NEW m \in Generators, NEW w \in InjectionVcs(OwnType)
               PROVE  Len(injection'[m][w]) <= Len(injection[m][w])
    OBVIOUS
  <2>1. w \in Vcs /\ Len(injection[m][w]) \in Nat
    BY OwnTypes, DestinationChannels, LengthsNat DEF NodesTypes
  <2>2. CASE injection' = injection
    BY <2>1, <2>2
  <2>3. CASE p.type = "PETITION"
    <3>1. PICK vc \in InjectionVcs("RESPONSE") :
            /\ config.reactive /\ vc \in Vcs
            /\ injection' =
                  [injection EXCEPT ![n][vc] = Append(@, Packet("RESPONSE", n, p.from))]
      BY <2>3, ConsumeAnswers
    <3>2. w # vc
      BY <3>1, OwnTypes, ChannelsApart DEF NodesTypes
    <3>3. injection'[m][w] = injection[m][w]
      BY <2>1, <3>1, <3>2 DEF NodesTypes
    <3> QED BY <2>1, <3>3
  <2> QED BY <2>2, <2>3, ConsumeAnswers
<1> QED BY <1>1, <1>2, RoomyKept

(* A burst begins, goes on or ends.                                        *)
LEMMA BurstyFine ==
  ASSUME NodesTypes, NodesTypes', Counts, Roomy, NEW n \in Generators, GenerateBursty(n)
  PROVE  Counts' /\ Roomy'
<1>1. /\ UNCHANGED <<config, flitsRx, network, outBuffers, finishedCount>>
      /\ config.pattern = "BURSTY_UN" /\ sent[n] < MaxSent[n]
      /\ \/ ~burst[n].on /\ BeginBurst(n)
         \/ burst[n].on /\ HasRoom(n, burst[n].vc) /\ (BeginBurst(n) \/ GoesOn(n) \/ EndBurst(n))
  BY DEF GenerateBursty
<1>2. ~Finite
  BY <1>1, EndSizes DEF NodesTypes
<1>3. InjectionVcs(OwnType)' = InjectionVcs(OwnType) /\ InjectionVcs(OwnType) \subseteq Vcs
      /\ -1 \notin Vcs
  <2>1. InjectionVcs(OwnType)' = InjectionVcs(OwnType)
    BY <1>1 DEF InjectionVcs, OwnType
  <2>2. InjectionVcs(OwnType) \subseteq Vcs
    BY OwnTypes, DestinationChannels DEF NodesTypes
  <2>3. -1 \notin Vcs
    BY NodesSizes DEF Vcs
  <2> QED BY <2>1, <2>2, <2>3
<1>4. burst[n].on => burst[n].dest \in Generators /\ burst[n].vc \in InjectionVcs(OwnType) \cup {-1}
  BY DEF NodesTypes, Held
<1>5. burst \in [Generators -> [on : BOOLEAN, dest : Int, vc : Int]]
      /\ bursts \in [Generators -> Nat] /\ bursts[n] \in Nat
  BY DEF NodesTypes, Roomy
<1>6. \E w \in InjectionVcs(OwnType) : Space(n, w) >= 1
  <2>1. CASE burst[n].on
    BY <1>1, <1>4, <2>1 DEF HasRoom
  <2>2. CASE ~burst[n].on
    BY <1>1, <2>2 DEF Roomy
  <2> QED BY <2>1, <2>2
<1>7. ASSUME NEW m \in Generators, m # n,
             UNCHANGED injection[m], burst'[m] = burst[m], bursts'[m] = bursts[m]
      PROVE  /\ bursts'[m] <= MaxBursts /\ burst'[m].vc \in Vcs
             /\ ~burst'[m].on => \E vc \in InjectionVcs(OwnType) : Space(m, vc)' >= 1
  <2>1. \A vc : Space(m, vc)' = Space(m, vc)
    BY <1>7 DEF Space
  <2> QED BY <1>1, <1>7, <2>1 DEF Roomy
<1>8. CASE BeginBurst(n)
  <2>0. PICK dest \in OtherNodes(n) : \E vc \in InjectionVC(n, dest, OwnType) :
          /\ burst' = [burst EXCEPT ![n] = [on |-> TRUE, dest |-> dest, vc |-> vc]]
          /\ IF HasRoom(n, vc) THEN Inject(n, dest, vc) ELSE InjectsNothing
    BY <1>8 DEF BeginBurst
  <2>1. PICK vc \in InjectionVC(n, dest, OwnType) :
          /\ burst' = [burst EXCEPT ![n] = [on |-> TRUE, dest |-> dest, vc |-> vc]]
          /\ IF HasRoom(n, vc) THEN Inject(n, dest, vc) ELSE InjectsNothing
    BY <2>0
  <2>2. dest \in Generators
    BY <2>0 DEF OtherNodes
  <2>3. vc \in Vcs
    <3>1. CASE config.policy = "DEST"
      <4>1. vc \in ArrayInjVC(dest, OwnType)
        BY <2>1, <3>1 DEF InjectionVC
      <4> QED BY <2>2, <4>1, OwnTypes, DestinationChannels DEF NodesTypes
    <3>2. CASE config.policy # "DEST"
      BY <1>3, <1>6, <2>1, <3>2 DEF InjectionVC
    <3> QED BY <3>1, <3>2
  <2>4. Counts'
    <3>1. CASE HasRoom(n, vc)
      BY <1>1, <1>2, <2>1, <2>2, <2>3, <3>1, InjectCounted
    <3>2. CASE ~HasRoom(n, vc)
      BY <1>1, <2>1, <3>2, NothingCounted DEF InjectsNothing
    <3> QED BY <3>1, <3>2
  <2>5. bursts' = [bursts EXCEPT ![n] = @ + 1] /\ bursts[n] < MaxBursts
    BY <1>8 DEF BeginBurst
  <2>6. \A m \in Generators : m # n =>
            injection'[m] = injection[m] /\ burst'[m] = burst[m] /\ bursts'[m] = bursts[m]
    <3>1. injection' = injection \/ Inject(n, dest, vc)
      BY <2>1 DEF InjectsNothing
    <3>2. \A m \in Generators : m # n => injection'[m] = injection[m]
      BY <3>1 DEF Inject, NodesTypes
    <3> QED BY <1>5, <2>1, <2>5, <3>2
  <2>7. burst'[n] = [on |-> TRUE, dest |-> dest, vc |-> vc] /\ bursts'[n] = bursts[n] + 1
    BY <1>5, <2>1, <2>5
  <2>8. bursts' \in [Generators -> Nat]
    BY <1>5, <2>5
  <2>9. \A m \in Generators :
          /\ bursts'[m] <= MaxBursts /\ burst'[m].vc \in Vcs
          /\ ~burst'[m].on => \E w \in InjectionVcs(OwnType) : Space(m, w)' >= 1
    <3> SUFFICES ASSUME NEW m \in Generators
                 PROVE  /\ bursts'[m] <= MaxBursts /\ burst'[m].vc \in Vcs
                        /\ ~burst'[m].on => \E w \in InjectionVcs(OwnType) : Space(m, w)' >= 1
      OBVIOUS
    <3>1. CASE m # n
      BY <1>7, <2>6, <3>1
    <3>2. CASE m = n
      BY <1>5, <2>3, <2>5, <2>7, <3>2, EndSizes
    <3> QED BY <3>1, <3>2
  <2>10. Roomy'
    BY <1>3, <2>8, <2>9 DEF Roomy, Vcs
  <2> QED BY <2>4, <2>10
<1>9. CASE burst[n].on /\ HasRoom(n, burst[n].vc) /\ GoesOn(n)
  <2>1. burst[n].dest \in Generators /\ burst[n].vc \in Vcs
    BY <1>3, <1>4, <1>9 DEF HasRoom
  <2>2. Inject(n, burst[n].dest, burst[n].vc) /\ UNCHANGED <<burst, bursts>>
    BY <1>9 DEF GoesOn
  <2>3. Counts'
    BY <1>1, <1>2, <1>9, <2>1, <2>2, InjectCounted
  <2>4. \A m \in Generators : m # n => injection'[m] = injection[m]
    BY <2>2 DEF Inject, NodesTypes
  <2>5. \A m \in Generators :
          /\ bursts'[m] <= MaxBursts /\ burst'[m].vc \in Vcs
          /\ ~burst'[m].on => \E w \in InjectionVcs(OwnType) : Space(m, w)' >= 1
    <3> SUFFICES ASSUME NEW m \in Generators
                 PROVE  /\ bursts'[m] <= MaxBursts /\ burst'[m].vc \in Vcs
                        /\ ~burst'[m].on => \E w \in InjectionVcs(OwnType) : Space(m, w)' >= 1
      OBVIOUS
    <3>1. CASE m # n
      BY <1>7, <2>2, <2>4, <3>1
    <3>2. CASE m = n
      BY <1>9, <2>1, <2>2, <3>2 DEF Roomy
    <3> QED BY <3>1, <3>2
  <2>6. Roomy'
    BY <1>3, <1>5, <2>2, <2>5 DEF Roomy, Vcs
  <2> QED BY <2>3, <2>6
<1>10. CASE burst[n].on /\ HasRoom(n, burst[n].vc) /\ EndBurst(n)
  <2>1. /\ burst' = [burst EXCEPT ![n].on = FALSE] /\ bursts' = bursts
        /\ UNCHANGED <<injection, pendingPetitions, sent, flitsTx>>
    BY <1>10 DEF EndBurst, InjectsNothing
  <2>2. Counts'
    BY <1>1, <2>1, NothingCounted
  <2>3. \A m, w : Space(m, w)' = Space(m, w)
    BY <2>1 DEF Space
  <2>4. burst[n].vc \in InjectionVcs(OwnType) /\ Space(n, burst[n].vc) >= 1
    BY <1>4, <1>10 DEF HasRoom
  <2>5. \A m \in Generators : burst'[m].vc = burst[m].vc /\ (m # n => burst'[m] = burst[m])
    BY <1>5, <2>1
  <2>6. \A m \in Generators :
          /\ bursts'[m] <= MaxBursts /\ burst'[m].vc \in Vcs
          /\ ~burst'[m].on => \E w \in InjectionVcs(OwnType) : Space(m, w)' >= 1
    BY <1>1, <2>1, <2>3, <2>4, <2>5 DEF Roomy
  <2>7. Roomy'
    BY <1>3, <1>5, <2>1, <2>6 DEF Roomy, Vcs
  <2> QED BY <2>2, <2>7
<1> QED BY <1>1, <1>8, <1>9, <1>10

-----------------------------------------------------------------------------
(* What an all-to-all has served stays served.                             *)
LEMMA OtherPattern ==
  ASSUME AllToAll, UNCHANGED <<config, phaseCount>>, config.pattern # "ALL2ALL"
  PROVE  AllToAll'
BY DEF AllToAll

(* Sets of packets to count.                                               *)
LEMMA ResponseIn ==
  ASSUME NEW n \in Generators, NEW dest \in Generators
  PROVE  {Packet("RESPONSE", n, dest)} \in SUBSET AllPackets
BY DEF Packet, AllPackets, PetitionTypes

(* A destination is a node.                                                *)
LEMMA DestinationIn ==
  ASSUME NodesTypes, NEW n \in Generators, NEW i \in 1..(NodeCount - 1)
  PROVE  destinations[n][i] \in Generators
<1>1. destinations[n] \in [1..(NodeCount - 1) -> Generators]
  BY DEF NodesTypes
<1> QED BY <1>1

(* The packets of a node to itself are packets.                            *)
LEMMA ToItselfIn == ToItself \in SUBSET AllPackets
BY DEF ToItself

(* While there are as many packets, what is served remains served.         *)
LEMMA AllToAllSame ==
  ASSUME NodesTypes, AllToAll,
         UNCHANGED <<config, destinations, destPointer, phaseCount, flitsTx, delivered>>,
         \A C \in SUBSET AllPackets : Total(C)' = Total(C)
  PROVE  AllToAll'
<1>1. \A n, dest \in Generators : Served(n, dest)' <=> Served(n, dest)
  <2> SUFFICES ASSUME NEW n \in Generators, NEW dest \in Generators
               PROVE  Served(n, dest)' <=> Served(n, dest)
    OBVIOUS
  <2>1. PICK C \in SUBSET AllPackets : C = {Packet("RESPONSE", n, dest)}
    BY ResponseIn
  <2>2. Total(C)' = Total(C)
    OBVIOUS
  <2>3. (Total({Packet("RESPONSE", n, dest)}) > 0)' <=> Total({Packet("RESPONSE", n, dest)}) > 0
    BY <2>1, <2>2 DEF Packet
  <2> QED BY <2>3 DEF Served
<1>2. ASSUME config.pattern = "ALL2ALL", NEW n \in Generators PROVE ServesAll(n)'
  <2>1. ServesAll(n) /\ destPointer[n] \in 0..(NodeCount - 1)
    BY <1>2 DEF AllToAll, NodesTypes
  <2>2. ASSUME flitsTx[n] = destPointer[n], NEW i \in 1..destPointer[n]
        PROVE  Served(n, destinations[n][i])'
    <3>1. i \in 1..(NodeCount - 1)
      BY <2>1, EndSizes
    <3>2. Served(n, destinations[n][i]) /\ destinations[n][i] \in Generators
      BY <2>1, <2>2, <3>1, DestinationIn DEF ServesAll
    <3> QED BY <1>1, <3>2
  <2> QED BY <2>1, <2>2 DEF ServesAll, OtherNodes
<1>3. Total(ToItself)' = Total(ToItself)
  <2>1. PICK C \in SUBSET AllPackets : C = ToItself
    BY ToItselfIn
  <2>2. ToItself' = ToItself
    BY DEF ToItself, AllPackets
  <2> QED BY <2>1, <2>2
<1> QED BY <1>2, <1>3 DEF AllToAll

(* A destination is served when the packet for it is, which is not there   *)
(* any more.                                                               *)
LEMMA ConsumeServes ==
  ASSUME NodesTypes, NodesTypes', AllToAll, NEW n \in Generators, NEW p \in NodePackets, p.to = n,
         Taken(n, p), CheckConsume(n, p), Consume(n, p), config.pattern = "ALL2ALL"
  PROVE  AllToAll'
<1>1. /\ UNCHANGED <<config, destinations, destPointer, phaseCount, flitsTx>>
      /\ delivered' = delivered \cup {<<p.from, n>>}
  BY DEF Consume, patternVars
<1>2. p.type = "RESPONSE" /\ p.from \in Generators /\ p = Packet("RESPONSE", p.from, p.to)
  BY NodesSizes DEF NodesTypes, NodePackets, Packet
<1>3. injection' = injection
  BY <1>2, ConsumeAnswers
<1>4. ASSUME NEW C \in SUBSET AllPackets
      PROVE  /\ Total(C) = Total(C)' + LossIn(C, p)
             /\ Total(C) \in Nat /\ Total(C)' \in Nat /\ LossIn(C, p) \in Nat
  BY <1>1, <1>3, TotalTaken, TotalNat, TotalLater, LossNat
<1>5. \A m, dest \in Generators : Served(m, dest) => Served(m, dest)'
  <2> SUFFICES ASSUME NEW m \in Generators, NEW dest \in Generators, Served(m, dest)
               PROVE  Served(m, dest)'
    OBVIOUS
  <2>1. PICK r : r = Packet("RESPONSE", m, dest)
    OBVIOUS
  <2>2. PICK C \in SUBSET AllPackets : C = {r}
    BY <2>1, ResponseIn
  <2>3. Packet("RESPONSE", m, dest)' = r
    BY <2>1 DEF Packet
  <2>4. CASE r = p
    <3>1. m = p.from /\ dest = n
      BY <1>2, <2>1, <2>4 DEF Packet
    <3> QED BY <1>1, <3>1 DEF Served
  <2>5. CASE r # p
    <3>1. LossIn(C, p) = 0
      BY <2>2, <2>5 DEF LossIn
    <3>2. Total(C)' = Total(C)
      BY <1>4, <3>1
    <3>3. <<m, dest>> \in delivered \/ Total(C) > 0
      BY <2>1, <2>2 DEF Served
    <3>4. <<m, dest>> \in delivered' \/ Total(C)' > 0
      BY <1>1, <3>2, <3>3
    <3>5. Total({Packet("RESPONSE", m, dest)})' = Total(C)'
      BY <2>2, <2>3
    <3> QED BY <3>4, <3>5 DEF Served
  <2> QED BY <2>4, <2>5
<1>6. ASSUME NEW m \in Generators PROVE ServesAll(m)'
  <2>1. ServesAll(m) /\ destPointer[m] \in 0..(NodeCount - 1)
    BY DEF AllToAll, NodesTypes
  <2>2. ASSUME flitsTx[m] = destPointer[m], NEW i \in 1..destPointer[m]
        PROVE  Served(m, destinations[m][i])'
    <3>1. i \in 1..(NodeCount - 1)
      BY <2>1, EndSizes
    <3>2. Served(m, destinations[m][i]) /\ destinations[m][i] \in Generators
      BY <2>1, <2>2, <3>1, DestinationIn DEF ServesAll
    <3> QED BY <1>1, <1>5, <3>2
  <2> QED BY <1>1, <2>1, <2>2 DEF ServesAll, OtherNodes
<1>7. Total(ToItself)' = 0 /\ p.from # n
  <2>1. PICK C \in SUBSET AllPackets : C = ToItself
    BY ToItselfIn
  <2>2. Total(C) = 0 /\ ToItself' = C
    BY <2>1 DEF AllToAll, ToItself, AllPackets
  <2>3. Total(C)' = 0 /\ LossIn(C, p) = 0
    BY <1>4, <2>2
  <2>4. p \notin ToItself /\ p \in AllPackets
    BY <2>1, <2>3, OfAll DEF LossIn
  <2> QED BY <2>1, <2>2, <2>3, <2>4 DEF ToItself
<1>8. delivered' \subseteq {pair \in Generators \X Generators : pair[1] # pair[2]}
  BY <1>1, <1>2, <1>7 DEF AllToAll
<1> QED BY <1>1, <1>6, <1>7, <1>8 DEF AllToAll

-----------------------------------------------------------------------------
(* An all-to-all takes a destination.  It cannot when all are taken, which *)
(* with one phase, and room wherever there are credits, it never meets.    *)
LEMMA AllToAllFine ==
  ASSUME NodesTypes, NodesTypes', Counts, Roomy, AllToAll, Aborted,
         NEW n \in Generators, GenerateAllToAll(n)
  PROVE  Fine'
<1> DEFINE phase == (NodeCount - 1) * phaseCount[n]
           begins == flitsTx[n] = phase /\ flitsRx[n] = phase
           taken == IF begins THEN 0 ELSE destPointer[n]
           dest == destinations[n][taken + 1]
<1>1. /\ config.pattern = "ALL2ALL" /\ flitsTx[n] # FullLength /\ (begins \/ flitsTx[n] # phase)
      /\ PortCredits(n, 0..(Channels - 1)) >= 1
      /\ UNCHANGED <<config, destinations, burst, bursts, network, outBuffers, finishedCount,
                     delivered>>
      /\ phaseCount' = IF begins THEN [phaseCount EXCEPT ![n] = @ + 1] ELSE phaseCount
      /\ flitsRx' = IF begins THEN [flitsRx EXCEPT ![n] = 0] ELSE flitsRx
  BY Zenon DEF GenerateAllToAll, MayGenerate
<1>2. IF taken = NodeCount - 1 THEN AbortNodes /\ UNCHANGED destPointer
      ELSE /\ destPointer' = [destPointer EXCEPT ![n] = taken + 1]
           /\ \E vc \in InjectionVC(n, dest, OwnType) :
                /\ injection' = IF HasRoom(n, vc)
                        THEN [injection EXCEPT ![n][vc] = Append(@, Packet(OwnType, n, dest))]
                        ELSE injection
                /\ flitsTx' = [flitsTx EXCEPT ![n] = (IF begins THEN 0 ELSE @)
                                                    + (IF HasRoom(n, vc) THEN 1 ELSE 0)]
           /\ UNCHANGED <<pendingPetitions, sent, nodesAborted>>
  BY Zenon DEF GenerateAllToAll
<1>3. /\ CounterTypes /\ Queues /\ Accounted /\ Finished /\ config \in NodeConfigs
      /\ FullLength' = FullLength /\ Finite' = Finite /\ Finite /\ ~config.reactive
      /\ OwnType = "RESPONSE" /\ FullLength \in Nat \ {0} /\ NodeCount \in Nat /\ NodeCount > 1
      /\ config.phases \in Nat \ {0} /\ config.policy \in {"RAND", "DEST"}
      /\ FullLength = (NodeCount - 1) * config.phases
  <2>1. config \in NodeConfigs
    BY DEF NodesTypes
  <2>2. Finite /\ ~config.reactive
    BY <1>1, <2>1, EndSizes
  <2> QED BY <1>1, <2>1, <2>2, LengthsKept, EndSizes, NodesSizes DEF Counts, OwnType, FullLength
<1>4. /\ flitsTx[n] \in Nat /\ flitsRx[n] \in Nat /\ Mine(n) \in Nat /\ phaseCount[n] \in Nat
      /\ destPointer[n] \in 0..(NodeCount - 1) /\ flitsTx[n] <= FullLength
      /\ flitsTx[n] = flitsRx[n] + Mine(n) /\ flitsTx[n] <= destPointer[n]
      /\ phaseCount[n] <= config.phases
  BY <1>1, <1>3, MineNat DEF CounterTypes, Accounted, AllToAll, ServesAll, NodesTypes
<1> DEFINE base == IF begins THEN 0 ELSE flitsTx[n]
           left == IF begins THEN 0 ELSE flitsRx[n]
<1>5. /\ base \in Nat /\ left \in Nat /\ base = left + Mine(n) /\ base < FullLength
      /\ base <= taken /\ taken \in 0..(NodeCount - 1)
  <2>1. CASE begins
    <3>1. Mine(n) = 0
      BY <1>4, <2>1
    <3> QED BY <1>3, <2>1, <3>1
  <2>2. CASE ~begins
    BY <1>1, <1>3, <1>4, <2>2
  <2> QED BY <2>1, <2>2
<1>6. left # FullLength /\ flitsRx[n] # FullLength
  BY <1>1, <1>3, <1>4, <1>5
<1>7. phaseCount' \in [Generators -> Nat] /\ \A m \in Generators : phaseCount'[m] <= config.phases
  <2>1. phaseCount \in [Generators -> Nat] /\ \A m \in Generators : phaseCount[m] <= config.phases
    BY DEF AllToAll
  <2>2. CASE ~begins
    BY <1>1, <2>1, <2>2
  <2>3. CASE begins
    <3>1. phaseCount[n] # config.phases
      BY <1>1, <1>3, <2>3
    <3>2. phaseCount[n] + 1 <= config.phases
      <4>1. \A a, b \in Nat : a <= b /\ a # b => a + 1 <= b
        OBVIOUS
      <4>2. phaseCount[n] \in Nat /\ config.phases \in Nat
        BY <1>3, <1>4
      <4> QED BY ONLY <1>4, <3>1, <4>1, <4>2
    <3>3. phaseCount' = [phaseCount EXCEPT ![n] = @ + 1]
      BY <1>1, <2>3
    <3> QED BY <2>1, <3>2, <3>3
  <2> QED BY <2>2, <2>3
<1>8. flitsRx' = [flitsRx EXCEPT ![n] = left] /\ flitsRx' \in [Generators -> Nat]
  <2>1. flitsRx \in [Generators -> Nat]
    BY <1>3 DEF CounterTypes
  <2>2. flitsRx' = [flitsRx EXCEPT ![n] = left]
    BY <1>1, <2>1
  <2> QED BY <1>5, <2>1, <2>2
<1> DEFINE full == config.policy = "RAND" /\ config.phases = 1
<1>9. full => base = taken
  <2>1. full => flitsTx[n] = destPointer[n]
    BY <1>1 DEF AllToAll, ServesAll
  <2> QED BY <2>1
<1>10. Roomy'
  BY <1>1, RoomyKept
<1>11. CASE taken = NodeCount - 1
  <2>1. AbortNodes /\ destPointer' = destPointer
    BY <1>2, <1>11
  <2>2. ~begins
    BY <1>3, <1>11
  <2>3. UNCHANGED <<phaseCount, flitsRx, flitsTx, pendingPetitions, sent, injection>>
        /\ nodesAborted' = TRUE
    BY <1>1, <2>1, <2>2 DEF AbortNodes
  <2>4. Counts'
    BY <1>1, <2>3, NothingCounted
  <2>5. \A C \in SUBSET AllPackets : Total(C)' = Total(C)
    BY <1>1, <2>3, TotalSame
  <2>6. AllToAll'
    BY <1>1, <2>1, <2>3, <2>5, AllToAllSame
  <2>7. ~full
    <3>1. full => base = FullLength
      BY <1>3, <1>9, <1>11
    <3> QED BY <1>3, <1>5, <3>1
  <2>8. MayAbort'
    <3>1. MayAbort
      BY <1>1, <1>3, <2>7 DEF MayAbort
    <3> QED BY <1>1, <3>1 DEF MayAbort
  <2> QED BY <1>10, <2>3, <2>4, <2>6, <2>8 DEF Aborted, Fine
<1>12. CASE taken # NodeCount - 1
  <2>1. PICK vc \in InjectionVC(n, dest, OwnType) :
          /\ injection' = IF HasRoom(n, vc)
                  THEN [injection EXCEPT ![n][vc] = Append(@, Packet(OwnType, n, dest))]
                  ELSE injection
          /\ flitsTx' = [flitsTx EXCEPT ![n] = (IF begins THEN 0 ELSE @)
                                              + (IF HasRoom(n, vc) THEN 1 ELSE 0)]
    BY <1>2, <1>12
  <2>2. /\ destPointer' = [destPointer EXCEPT ![n] = taken + 1]
        /\ UNCHANGED <<pendingPetitions, sent, nodesAborted>>
    BY <1>2, <1>12
  <2>3. taken + 1 \in 1..(NodeCount - 1) /\ taken \in Nat
    BY <1>3, <1>5, <1>12
  <2>4. dest \in OtherNodes(n) /\ dest \in Generators /\ dest # n
    <3>1. {destinations[n][i] : i \in 1..(NodeCount - 1)} = OtherNodes(n)
      BY <1>1 DEF AllToAll, ServesAll
    <3>2. dest \in OtherNodes(n)
      BY <2>3, <3>1
    <3> QED BY <3>2 DEF OtherNodes
  <2> DEFINE k == IF HasRoom(n, vc) THEN 1 ELSE 0
  <2>5. k \in {0, 1} /\ flitsTx' = [flitsTx EXCEPT ![n] = base + k]
    BY <2>1
  <2> HIDE DEF dest, begins, taken, base, left
  <2>6. PICK p : p = Packet("RESPONSE", n, dest)
    OBVIOUS
  <2>7. p \in NodePackets /\ Owner(p) = n /\ p \notin ToItself
    BY <1>3, <2>4, <2>6, OwnTypes DEF Owner, Packet, ToItself
  <2>8. HasRoom(n, vc) => vc \in Vcs
    <3>1. vc \in InjectionVcs("RESPONSE") \cup {-1}
      BY <1>3, <2>1, <2>4, InjectedBy DEF PetitionTypes
    <3> QED BY <3>1, ResponseVcs DEF HasRoom
  <2>9. ASSUME NEW C \in SUBSET AllPackets
        PROVE  Total(C)' = Total(C) + (IF HasRoom(n, vc) THEN LossIn(C, p) ELSE 0)
    <3>1. CASE HasRoom(n, vc)
      <4>1. injection' = [injection EXCEPT ![n][vc] = Append(@, p)]
        BY <1>3, <2>1, <2>6, <3>1
      <4> QED BY <1>1, <2>7, <2>8, <3>1, <4>1, TotalInjected
    <3>2. CASE ~HasRoom(n, vc)
      <4>1. Total(C)' = Total(C)
        BY <1>1, <2>1, <3>2, TotalSame
      <4> QED BY <3>2, <4>1, TotalNat
    <3> QED BY <3>1, <3>2
  <2>10. \A m \in Generators : Mine(m)' = IF m = n THEN Mine(m) + k ELSE Mine(m)
    <3> SUFFICES ASSUME NEW m \in Generators
                 PROVE  Mine(m)' = IF m = n THEN Mine(m) + k ELSE Mine(m)
      OBVIOUS
    <3>1. PICK C \in SUBSET AllPackets :
             C = Concerning(m) /\ Mine(m) = Total(C) /\ Mine(m)' = Total(C)'
      BY <1>1, MineNow
    <3>2. LossIn(C, p) = Loss(m, n)
      BY <2>7, <3>1, Owners
    <3>3. Total(C) \in Nat
      BY TotalNat
    <3> QED BY <2>9, <3>1, <3>2, <3>3 DEF Loss
  <2>11. Queues'
    <3>1. CASE HasRoom(n, vc)
      <4>1. injection' = [injection EXCEPT ![n][vc] = Append(@, p)]
        BY <1>3, <2>1, <2>6, <3>1
      <4>2. \A m \in Generators : \A w \in Vcs : Len(injection'[m][w]) <= ChannelSpace
        BY <1>3, <2>7, <2>8, <3>1, <4>1, RoomForOne
      <4> QED BY <1>1, <1>3, <4>2 DEF Queues
    <3>2. CASE ~HasRoom(n, vc)
      BY <1>1, <1>3, <2>1, <3>2 DEF Queues
    <3> QED BY <3>1, <3>2
  <2>12. CounterTypes'
    <3>1. base + k \in Nat /\ flitsTx \in [Generators -> Nat]
      BY <1>3, <1>5, <2>5 DEF CounterTypes
    <3> HIDE DEF k
    <3>2. flitsTx' \in [Generators -> Nat]
      BY <2>5, <3>1
    <3> QED BY <1>1, <1>3, <1>8, <2>2, <3>2 DEF CounterTypes
  <2>13. \A m \in Generators :
           /\ flitsTx'[m] = IF m = n THEN base + k ELSE flitsTx[m]
           /\ flitsRx'[m] = IF m = n THEN left ELSE flitsRx[m]
           /\ destPointer'[m] = IF m = n THEN taken + 1 ELSE destPointer[m]
    BY <1>3, <1>8, <2>2, <2>5 DEF CounterTypes, NodesTypes
  <2>14. base + k \in Nat /\ base + k <= FullLength /\ base + k = left + (Mine(n) + k)
         /\ base + k <= taken + 1 /\ (base + k = taken + 1 => base = taken /\ k = 1)
    <3>1. k \in Nat /\ k <= 1 /\ taken \in Nat /\ FullLength \in Nat
      BY <1>3, <2>3, <2>5
    <3> HIDE DEF k
    <3> QED BY <1>4, <1>5, <3>1
  <2>15. Accounted'
    <3> SUFFICES ASSUME NEW m \in Generators
                 PROVE  /\ flitsTx'[m] <= FullLength /\ sent[m] <= MaxSent[m]
                        /\ flitsTx'[m] = flitsRx'[m] + Mine(m)'
                        /\ pendingPetitions[m] = 0 /\ pendingPetitions[m] <= sent[m]
      BY <1>1, <1>3, <2>2 DEF Accounted
    <3>1. /\ flitsTx[m] <= FullLength /\ sent[m] <= MaxSent[m]
          /\ flitsTx[m] = flitsRx[m] + Mine(m)
          /\ pendingPetitions[m] = 0 /\ pendingPetitions[m] <= sent[m]
      BY <1>3 DEF Accounted
    <3> HIDE DEF k
    <3>2. CASE m # n
      BY <2>10, <2>13, <3>1, <3>2
    <3>3. CASE m = n
      BY <2>10, <2>13, <2>14, <3>1, <3>3
    <3> QED BY <3>2, <3>3
  <2>16. Finished'
    <3>1. Complete' = {m \in Generators : flitsRx'[m] = FullLength}
      BY <1>3 DEF Complete
    <3>2. Complete' = Complete
      BY <1>6, <2>13, <3>1 DEF Complete
    <3> QED BY <1>1, <1>3, <3>2 DEF Finished
  <2>17. Counts'
    BY <2>11, <2>12, <2>15, <2>16 DEF Counts
  <2>18. \A m, d \in Generators : Served(m, d) => Served(m, d)'
    <3> SUFFICES ASSUME NEW m \in Generators, NEW d \in Generators, Served(m, d)
                 PROVE  Served(m, d)'
      OBVIOUS
    <3>1. PICK C \in SUBSET AllPackets : C = {Packet("RESPONSE", m, d)}
      BY ResponseIn
    <3>2. Total(C)' >= Total(C) /\ Total(C)' \in Nat /\ Total(C) \in Nat
      BY <2>9, TotalNat, LossNat
    <3>3. Total({Packet("RESPONSE", m, d)})' = Total(C)'
      BY <3>1 DEF Packet
    <3>4. <<m, d>> \in delivered \/ Total(C) > 0
      BY <3>1 DEF Served
    <3>5. <<m, d>> \in delivered' \/ Total(C)' > 0
      BY <1>1, <3>2, <3>4
    <3> QED BY <3>3, <3>5 DEF Served
  <2>19. PICK d : d = dest /\ d \in Generators /\ d = destinations[n][taken + 1]
    BY <2>4 DEF dest
  <2>20. k = 1 => Served(n, d)'
    <3> SUFFICES ASSUME HasRoom(n, vc) PROVE Served(n, d)'
      OBVIOUS
    <3>1. PICK C \in SUBSET AllPackets : C = {p}
      BY <2>7, OfAll
    <3>2. Total(C)' = Total(C) + 1 /\ Total(C) \in Nat
      BY <2>9, <3>1, TotalNat DEF LossIn
    <3>3. Total({Packet("RESPONSE", n, d)})' = Total(C)'
      BY <2>6, <2>19, <3>1 DEF Packet
    <3> QED BY <3>2, <3>3 DEF Served
  <2>21. full => k = 1
    <3> SUFFICES ASSUME full PROVE HasRoom(n, vc)
      OBVIOUS
    <3>1. ArrayInjVC(dest, "RESPONSE") = 0..(Channels - 1)
      BY <1>3 DEF ArrayInjVC, InjectionVcs
    <3> QED BY <1>1, <1>3, <2>1, <2>4, <3>1, RoomForIt DEF PetitionTypes
  <2>22. ASSUME NEW m \in Generators PROVE ServesAll(m)'
    <3>1. ServesAll(m) /\ destPointer[m] \in 0..(NodeCount - 1)
      BY <1>1 DEF AllToAll, NodesTypes
    <3>2. CASE m # n
      <4>1. flitsTx'[m] = flitsTx[m] /\ destPointer'[m] = destPointer[m]
        BY <2>13, <3>2
      <4>2. ASSUME flitsTx[m] = destPointer[m], NEW i \in 1..destPointer[m]
            PROVE  Served(m, destinations[m][i])'
        <5>1. i \in 1..(NodeCount - 1)
          BY <3>1, <4>2, EndSizes
        <5>2. Served(m, destinations[m][i]) /\ destinations[m][i] \in Generators
          BY <3>1, <4>2, <5>1, DestinationIn DEF ServesAll
        <5> QED BY <1>1, <2>18, <5>2
      <4> QED BY <1>1, <3>1, <4>1, <4>2 DEF ServesAll, OtherNodes
    <3>3. CASE m = n
      <4>1. flitsTx'[n] = base + k /\ destPointer'[n] = taken + 1
        BY <2>13
      <4>2. ASSUME base + k = taken + 1, NEW i \in 1..(taken + 1)
            PROVE  Served(n, destinations[n][i])'
        <5>1. CASE i = taken + 1
          <6>1. destinations'[n][i] = d
            BY <1>1, <2>19, <5>1
          <6>2. Served(n, d)'
            BY <2>14, <2>20, <4>2
          <6> QED BY <6>1, <6>2
        <5>2. CASE i # taken + 1
          <6>1. i \in 1..taken /\ i \in 1..(NodeCount - 1)
            BY <2>3, <4>2, <5>2, EndSizes
          <6>2. ~begins
            BY <2>3, <6>1 DEF taken
          <6>3. flitsTx[n] = destPointer[n] /\ taken = destPointer[n]
            BY <2>14, <4>2, <6>2 DEF taken, base
          <6>4. Served(n, destinations[n][i]) /\ destinations[n][i] \in Generators
            BY <3>1, <3>3, <6>1, <6>3, DestinationIn DEF ServesAll
          <6> QED BY <1>1, <2>18, <6>4
        <5> QED BY <5>1, <5>2
      <4>3. base + k <= taken + 1 /\ (full => base + k = taken + 1)
        BY <1>9, <2>14, <2>21
      <4>4. config' = config /\ destinations' = destinations
        BY <1>1
      <4>5. {destinations[n][i] : i \in 1..(NodeCount - 1)} = OtherNodes(n)
        BY <3>1, <3>3 DEF ServesAll
      <4> HIDE DEF k
      <4> QED BY <3>3, <4>1, <4>2, <4>3, <4>4, <4>5 DEF ServesAll, OtherNodes
    <3> QED BY <3>2, <3>3
  <2>23. Total(ToItself)' = 0
    <3>1. PICK C \in SUBSET AllPackets : C = ToItself
      BY ToItselfIn
    <3>2. Total(C) = 0 /\ ToItself' = C
      BY <1>1, <3>1 DEF AllToAll, ToItself, AllPackets
    <3>3. Total(C)' = 0
      BY <2>7, <2>9, <3>1, <3>2 DEF LossIn
    <3> QED BY <3>2, <3>3
  <2>24. AllToAll'
    BY <1>1, <1>7, <2>22, <2>23 DEF AllToAll
  <2>25. Aborted'
    BY <1>1, <2>2 DEF Aborted, MayAbort
  <2> QED BY <1>10, <2>17, <2>24, <2>25 DEF Fine
<1> QED BY <1>11, <1>12

-----------------------------------------------------------------------------
(* At the beginning there is no packet anywhere.                           *)
LEMMA EmptyStart ==
  ASSUME NodesInit
  PROVE  \A C \in SUBSET AllPackets : Total(C) = 0
<1>1. NodesTypes
  BY NodesStart DEF NodesIInv
<1>2. DOMAIN network = {}
  BY DEF NodesInit, EmptyBag, SetToBag
<1>3. \A n \in Generators : \A vc \in Vcs : injection[n][vc] = <<>>
  BY DEF NodesInit, Vcs
<1>4. \A n \in Generators : \A flow \in 0..1 : outBuffers[n][flow] = <<>>
  BY DEF NodesInit
<1>5. DOMAIN <<>> = {}
  OBVIOUS
<1> QED BY <1>1, <1>2, <1>3, <1>4, <1>5, TotalNat

(* The destinations of a node are all other nodes.                         *)
LEMMA AllFollow ==
  ASSUME NEW n \in Generators
  PROVE  {Following(n)[i] : i \in 1..(NodeCount - 1)} = OtherNodes(n)
<1>1. NodeCount \in Nat /\ NodeCount > 1 /\ n \in Nat /\ n < NodeCount
  BY NodesSizes DEF Generators
<1>2. \A i \in 1..(NodeCount - 1) : Following(n)[i] = (n + i) % NodeCount
  BY DEF Following
<1>3. \A m \in 0..(NodeCount - 1) : m % NodeCount = m /\ (m + NodeCount) % NodeCount = m
  BY <1>1
<1>4. ASSUME NEW i \in 1..(NodeCount - 1)
      PROVE  (n + i) % NodeCount \in OtherNodes(n)
  <2>1. CASE n + i < NodeCount
    <3>1. n + i \in 0..(NodeCount - 1) /\ n + i # n
      BY <1>1, <2>1
    <3> QED BY <1>3, <3>1 DEF OtherNodes, Generators
  <2>2. CASE n + i >= NodeCount
    <3>1. PICK m \in 0..(NodeCount - 1) : n + i = m + NodeCount /\ m # n
      <4>1. n + i - NodeCount \in 0..(NodeCount - 1) /\ n + i - NodeCount # n
        BY <1>1, <2>2
      <4> QED BY <1>1, <4>1
    <3> QED BY <1>3, <3>1 DEF OtherNodes, Generators
  <2> QED BY <1>1, <2>1, <2>2
<1>5. ASSUME NEW m \in OtherNodes(n)
      PROVE  \E i \in 1..(NodeCount - 1) : (n + i) % NodeCount = m
  <2>1. m \in 0..(NodeCount - 1) /\ m # n
    BY DEF OtherNodes, Generators
  <2>2. CASE m > n
    <3>1. m - n \in 1..(NodeCount - 1) /\ n + (m - n) = m
      BY <1>1, <2>1, <2>2
    <3> QED BY <1>3, <2>1, <3>1
  <2>3. CASE m < n
    <3>1. m + NodeCount - n \in 1..(NodeCount - 1) /\ n + (m + NodeCount - n) = m + NodeCount
      BY <1>1, <2>1, <2>3
    <3> QED BY <1>3, <2>1, <3>1
  <2> QED BY <1>1, <2>1, <2>2, <2>3
<1> QED BY <1>2, <1>4, <1>5

(* In whatever order.                                                      *)
LEMMA AllOrdered ==
  ASSUME NodesInit, NEW n \in Generators
  PROVE  {destinations[n][i] : i \in 1..(NodeCount - 1)} = OtherNodes(n)
<1>1. CASE destinations = [m \in Generators |-> Following(m)]
  <2>1. destinations[n] = Following(n)
    BY <1>1
  <2> QED BY <2>1, AllFollow
<1>2. CASE \A m \in Generators : destinations[m] \in Orders[m]
  <2>1. Orders[n] = {s \in [1..(NodeCount - 1) -> OtherNodes(n)] :
                        {s[i] : i \in DOMAIN s} = OtherNodes(n)}
    BY DEF Orders
  <2>2. PICK s : s = destinations[n]
    OBVIOUS
  <2>3. DOMAIN s = 1..(NodeCount - 1) /\ {s[i] : i \in DOMAIN s} = OtherNodes(n)
    BY <1>2, <2>1, <2>2
  <2> QED BY <2>2, <2>3
<1> QED BY <1>1, <1>2 DEF NodesInit

(* The invariant holds at the beginning.                                   *)
LEMMA EndStart ==
  ASSUME NodesInit PROVE EndIInv
<1>1. NodesIInv /\ NodesTypes
  BY NodesStart DEF NodesIInv
<1>2. config \in NodeConfigs
  BY <1>1 DEF NodesTypes
<1>3. \A C \in SUBSET AllPackets : Total(C) = 0
  BY EmptyStart
<1>4. \A n \in Generators : Mine(n) = 0
  <2>1. \A n : Concerning(n) \in SUBSET AllPackets
    BY DEF Concerning
  <2> QED BY <1>3, <2>1 DEF Mine
<1>5. /\ NodeCount \in Nat /\ ChannelSpace \in Nat \ {0} /\ OutSpace \in Nat
      /\ FullLength \in Nat \ {0} /\ config.phases \in Nat /\ MaxBursts \in Nat
      /\ \A n \in Generators : MaxSent[n] \in Nat
  BY <1>2, EndSizes
<1>6. CounterTypes
  BY DEF NodesInit, CounterTypes
<1>7. Queues
  <2>1. \A n \in Generators : \A vc \in Vcs : injection[n][vc] = <<>>
    BY DEF NodesInit, Vcs
  <2>2. \A n \in Generators : \A flow \in 0..1 : outBuffers[n][flow] = <<>>
    BY DEF NodesInit
  <2>3. Len(<<>>) = 0 /\ DOMAIN <<>> = {}
    OBVIOUS
  <2> QED BY <1>5, <2>1, <2>2, <2>3 DEF Queues
<1>8. Accounted
  <2> SUFFICES ASSUME NEW n \in Generators
               PROVE  /\ flitsTx[n] <= FullLength /\ sent[n] <= MaxSent[n]
                      /\ flitsTx[n] = flitsRx[n] + Mine(n) /\ flitsTx[n] = 0 /\ flitsRx[n] = 0
                      /\ pendingPetitions[n] = 0 /\ Mine(n) = 0 /\ sent[n] = 0
    BY DEF Accounted
  <2>1. flitsTx[n] = 0 /\ flitsRx[n] = 0 /\ pendingPetitions[n] = 0 /\ sent[n] = 0
    BY DEF NodesInit
  <2> QED BY <1>4, <1>5, <2>1
<1>9. Finished
  <2>1. Complete = {}
    BY <1>5 DEF Complete, NodesInit
  <2>2. Cardinality({}) = 0
    BY FS_EmptySet
  <2> QED BY <2>1, <2>2 DEF Finished, NodesInit
<1>10. Roomy
  <2>1. OwnType \in PetitionTypes /\ (config.reactive \/ OwnType = "RESPONSE")
    BY <1>1, OwnTypes
  <2>2. PICK low, high \in Vcs : low <= high /\ InjectionVcs(OwnType) = low..high
    BY <1>2, <2>1, ChannelRanges
  <2>3. low \in InjectionVcs(OwnType) /\ low \in Vcs
    BY <2>2 DEF Vcs
  <2>4. \A n \in Generators : Space(n, low) >= 1
    <3>1. \A n \in Generators : injection[n][low] = <<>>
      BY <2>3 DEF NodesInit, Vcs
    <3> QED BY <1>5, <3>1 DEF Space
  <2>5. 0 \in Vcs
    BY NodesSizes DEF Vcs
  <2> QED BY <1>5, <2>3, <2>4, <2>5 DEF Roomy, NodesInit, NoBurst
<1>11. AllToAll
  <2>1. \A n \in Generators : ServesAll(n)
    <3> SUFFICES ASSUME NEW n \in Generators PROVE ServesAll(n)
      OBVIOUS
    <3>1. flitsTx[n] = 0 /\ destPointer[n] = 0
      BY DEF NodesInit
    <3>2. \A i \in 1..0 : FALSE
      OBVIOUS
    <3>3. {destinations[n][i] : i \in 1..(NodeCount - 1)} = OtherNodes(n)
      BY AllOrdered
    <3> QED BY <3>1, <3>2, <3>3 DEF ServesAll
  <2>2. Total(ToItself) = 0
    BY <1>3, ToItselfIn
  <2> QED BY <1>5, <2>1, <2>2 DEF AllToAll, NodesInit
<1>12. Aborted
  BY DEF Aborted, NodesInit
<1> QED BY <1>1, <1>6, <1>7, <1>8, <1>9, <1>10, <1>11, <1>12 DEF EndIInv, Fine, Counts

-----------------------------------------------------------------------------
(* Generating from any pattern but bursts and the all-to-all.              *)
LEMMA GenerateFine ==
  ASSUME NodesTypes, NodesTypes', Fine, NEW n \in Generators, Generate(n)
  PROVE  Fine'
<1>0. Counts /\ Roomy /\ AllToAll /\ Aborted
  BY DEF Fine
<1>1. /\ config.pattern \in {"UN", "RANDOMPERMUTATION", "SINGLE_BURST"} /\ AllDrawn
      /\ config.pattern \in Endless => sent[n] < MaxSent[n]
      /\ UNCHANGED <<config, patternVars, flitsRx, network, outBuffers, finishedCount, delivered>>
  BY DEF Generate, MayGenerate, Running
<1>2. PICK dest \in SetDestination(n) : \E vc \in InjectionVC(n, dest, OwnType) :
         HasRoom(n, vc) /\ Inject(n, dest, vc)
  BY DEF Generate
<1>3. PICK vc \in InjectionVC(n, dest, OwnType) : HasRoom(n, vc) /\ Inject(n, dest, vc)
  BY <1>2
<1>4. dest \in Generators /\ (config.pattern = "SINGLE_BURST" => flitsTx[n] # BurstLength)
  <2>1. CASE config.pattern = "RANDOMPERMUTATION"
    BY <1>1, <1>2, <2>1 DEF SetDestination, AllDrawn, NodesTypes
  <2>2. CASE config.pattern \in {"UN", "SINGLE_BURST"}
    BY <1>2, <2>2 DEF SetDestination, OtherNodes
  <2> QED BY <1>1, <2>1, <2>2
<1>5. vc \in Vcs
  <2>1. /\ config \in NodeConfigs /\ OwnType \in PetitionTypes
        /\ config.reactive \/ OwnType = "RESPONSE"
    BY OwnTypes DEF NodesTypes
  <2>2. vc \in InjectionVcs(OwnType) \cup {-1} /\ vc # -1
    BY <1>3, <1>4, <2>1, InjectedBy DEF HasRoom
  <2>3. InjectionVcs(OwnType) \subseteq Vcs
    BY <1>4, <2>1, DestinationChannels
  <2> QED BY <2>2, <2>3
<1>6. (~Finite => sent[n] < MaxSent[n]) /\ (Finite => flitsTx[n] # FullLength)
  BY <1>1, <1>4 DEF Finite, Endless, FullLength
<1>7. Counts'
  BY <1>0, <1>1, <1>3, <1>4, <1>5, <1>6, InjectCounted
<1>8. Roomy'
  BY <1>0, <1>1, RoomyKept DEF patternVars
<1>9. AllToAll'
  BY <1>0, <1>1, OtherPattern DEF patternVars
<1>10. Aborted'
  BY <1>0, <1>1, <1>3 DEF Aborted, MayAbort, Inject
<1> QED BY <1>7, <1>8, <1>9, <1>10 DEF Fine

(* A burst generates a packet, or none.                                    *)
LEMMA BurstsFine ==
  ASSUME NodesTypes, NodesTypes', Fine, NEW n \in Generators, GenerateBursty(n)
  PROVE  Fine'
<1>0. Counts /\ Roomy /\ AllToAll /\ Aborted
  BY DEF Fine
<1>1. config.pattern = "BURSTY_UN" /\ UNCHANGED <<config, phaseCount>>
  BY DEF GenerateBursty
<1>2. nodesAborted' = nodesAborted
  BY Zenon DEF GenerateBursty, BeginBurst, GoesOn, EndBurst, Inject, InjectsNothing
<1>3. Counts' /\ Roomy'
  BY <1>0, BurstyFine
<1>4. AllToAll'
  BY <1>0, <1>1, OtherPattern
<1>5. Aborted'
  BY <1>0, <1>1, <1>2 DEF Aborted, MayAbort
<1> QED BY <1>3, <1>4, <1>5 DEF Fine

(* The channels of the packets of its own are channels.                    *)
LEMMA OwnVcs ==
  ASSUME NodesTypes PROVE InjectionVcs(OwnType) \subseteq Vcs
<1>1. /\ config \in NodeConfigs /\ OwnType \in PetitionTypes
      /\ config.reactive \/ OwnType = "RESPONSE"
  BY OwnTypes DEF NodesTypes
<1>2. 0 \in Generators
  BY NodesSizes DEF Generators
<1> QED BY <1>1, <1>2, DestinationChannels

(* Steps that change nothing of it.                                        *)
LEMMA NothingFine ==
  ASSUME NodesTypes, NodesTypes', Fine,
         UNCHANGED <<config, destinations, destPointer, phaseCount, flitsTx, flitsRx, burst, bursts,
                     pendingPetitions, sent, injection, network, outBuffers, finishedCount,
                     nodesAborted, delivered>>
  PROVE  Fine'
<1>0. Counts /\ Roomy /\ AllToAll /\ Aborted
  BY DEF Fine
<1>1. Counts'
  BY <1>0, NothingCounted
<1>2. Roomy'
  <2>1. InjectionVcs(OwnType) \subseteq Vcs
    BY OwnVcs
  <2>2. \A m \in Generators : \A vc \in InjectionVcs(OwnType) :
            Len(injection'[m][vc]) <= Len(injection[m][vc])
    BY <2>1, LengthsNat
  <2> QED BY <1>0, <2>2, RoomyKept
<1>3. \A C \in SUBSET AllPackets : Total(C)' = Total(C)
  BY TotalSame
<1>4. AllToAll'
  BY <1>0, <1>3, AllToAllSame
<1>5. Aborted'
  BY <1>0 DEF Aborted, MayAbort
<1> QED BY <1>1, <1>2, <1>4, <1>5 DEF Fine

(* A packet departs.                                                       *)
LEMMA DepartFine ==
  ASSUME NodesTypes, NodesTypes', Fine, NEW n \in Generators, NEW vc \in Vcs, Depart(n, vc)
  PROVE  Fine'
<1>0. Counts /\ Roomy /\ AllToAll /\ Aborted
  BY DEF Fine
<1>1. UNCHANGED <<config, patternVars, flitsTx, nodesAborted, delivered>>
  BY DEF Depart
<1>2. /\ Counts' /\ \A C \in SUBSET AllPackets : Total(C)' = Total(C)
      /\ \A m \in Generators : \A w \in Vcs : Len(injection'[m][w]) <= Len(injection[m][w])
  BY <1>0, DepartCounted
<1>3. Roomy'
  <2>1. InjectionVcs(OwnType) \subseteq Vcs
    BY OwnVcs
  <2> QED BY <1>0, <1>1, <1>2, <2>1, RoomyKept DEF patternVars
<1>4. AllToAll'
  BY <1>0, <1>1, <1>2, AllToAllSame DEF patternVars
<1>5. Aborted'
  BY <1>0, <1>1 DEF Aborted, MayAbort
<1> QED BY <1>2, <1>3, <1>4, <1>5 DEF Fine

(* A packet waits in the output buffer.                                    *)
LEMMA AcceptFine ==
  ASSUME NodesTypes, NodesTypes', Fine, NEW n \in Generators, Accept(n)
  PROVE  Fine'
<1>0. Counts /\ Roomy /\ AllToAll /\ Aborted
  BY DEF Fine
<1>1. UNCHANGED <<config, patternVars, flitsTx, injection, nodesAborted, delivered>>
  BY DEF Accept
<1>2. Counts' /\ \A C \in SUBSET AllPackets : Total(C)' = Total(C)
  BY <1>0, AcceptCounted
<1>3. Roomy'
  <2>1. InjectionVcs(OwnType) \subseteq Vcs
    BY OwnVcs
  <2>2. \A m \in Generators : \A vc \in InjectionVcs(OwnType) :
            Len(injection'[m][vc]) <= Len(injection[m][vc])
    BY <1>1, <2>1, LengthsNat
  <2> QED BY <1>0, <1>1, <2>2, RoomyKept DEF patternVars
<1>4. AllToAll'
  BY <1>0, <1>1, <1>2, AllToAllSame DEF patternVars
<1>5. Aborted'
  BY <1>0, <1>1 DEF Aborted, MayAbort
<1> QED BY <1>2, <1>3, <1>4, <1>5 DEF Fine

(* A packet is consumed, wherever it was.                                  *)
LEMMA ConsumeFine ==
  ASSUME NodesTypes, NodesTypes', Fine, NEW n \in Generators, NEW p \in NodePackets, p.to = n,
         Taken(n, p), CheckConsume(n, p), Consume(n, p)
  PROVE  Fine'
<1>0. Counts /\ Roomy /\ AllToAll /\ Aborted
  BY DEF Fine
<1>1. UNCHANGED <<config, patternVars>>
  BY DEF Consume
<1>2. Counts' /\ Roomy' /\ nodesAborted' = nodesAborted
  BY <1>0, ConsumeCounted, ConsumeRoomy, ConsumeAnswers
<1>3. AllToAll'
  <2>1. CASE config.pattern = "ALL2ALL"
    BY <1>0, <2>1, ConsumeServes
  <2>2. CASE config.pattern # "ALL2ALL"
    BY <1>0, <1>1, <2>2, OtherPattern DEF patternVars
  <2> QED BY <2>1, <2>2
<1>4. Aborted'
  BY <1>0, <1>1, <1>2 DEF Aborted, MayAbort
<1> QED BY <1>2, <1>3, <1>4 DEF Fine

(* It is consumed from the network.                                        *)
LEMMA ArriveFine ==
  ASSUME NodesTypes, NodesTypes', Fine, NEW n \in Generators, Arrive(n)
  PROVE  Fine'
<1>1. PICK p \in BagToSet(network) :
        p.to = n /\ CheckConsume(n, p) /\ Consume(n, p) /\ network' = network (-) SetToBag({p})
  BY DEF Arrive
<1>2. p \in DOMAIN network /\ p \in NodePackets /\ outBuffers' = outBuffers
  BY <1>1 DEF NodesTypes, BagToSet, Arrive
<1>3. Taken(n, p)
  BY <1>1, <1>2 DEF Taken
<1> QED BY <1>1, <1>2, <1>3, ConsumeFine

(* It is consumed from the output buffer, whose packets are all for its    *)
(* node.                                                                   *)
LEMMA ServeFine ==
  ASSUME NodesTypes, NodesTypes', Fine, NEW n \in Generators, Serve(n)
  PROVE  Fine'
<1>1. PICK flow \in 0..1 :
        /\ outBuffers[n][flow] # <<>>
        /\ CheckConsume(n, Head(outBuffers[n][flow])) /\ Consume(n, Head(outBuffers[n][flow]))
        /\ outBuffers' = [outBuffers EXCEPT ![n][flow] = Tail(@)]
  BY DEF Serve
<1>2. PICK p : p = Head(outBuffers[n][flow])
  OBVIOUS
<1>3. outBuffers[n][flow] \in Seq(NodePackets) /\ network' = network
  BY DEF NodesTypes, Serve
<1>4. 1 \in DOMAIN outBuffers[n][flow] /\ p = outBuffers[n][flow][1] /\ p \in NodePackets
  BY <1>1, <1>2, <1>3
<1>5. p.to = n
  BY <1>4 DEF Fine, Counts, Queues
<1>6. Taken(n, p)
  BY <1>1, <1>2, <1>3 DEF Taken
<1> QED BY <1>1, <1>2, <1>4, <1>5, <1>6, ConsumeFine

(* Every step keeps the invariant.                                         *)
LEMMA EndStep ==
  ASSUME EndIInv, [NodesNext]_nodesVars PROVE EndIInv'
<1>1. /\ NodesIInv' /\ NodesTypes /\ NodesTypes' /\ Fine
      /\ Counts /\ Roomy /\ AllToAll /\ Aborted
  BY NodesStep DEF EndIInv, NodesIInv, Fine
<1>2. CASE UNCHANGED nodesVars
  BY <1>1, <1>2, NothingFine DEF nodesVars, EndIInv
<1>3. ASSUME NEW n \in Generators, DrawDestination(n) PROVE Fine'
  BY <1>1, <1>3, NothingFine DEF DrawDestination
<1>4. CASE NodesNext
  BY <1>1, <1>3, <1>4, GenerateFine, AllToAllFine, BurstsFine, DepartFine, ArriveFine, AcceptFine,
     ServeFine DEF NodesNext, Vcs, EndIInv
<1> QED BY <1>2, <1>4

-----------------------------------------------------------------------------
(* The counters are in their ranges because they count packets that are    *)
(* there.                                                                  *)
LEMMA TypesFromEnd ==
  ASSUME EndIInv PROVE NodesTypeOK
<1>1. NodesTypes /\ CounterTypes /\ Queues /\ Accounted /\ Finished /\ Roomy /\ AllToAll /\ Aborted
  BY DEF EndIInv, NodesIInv, Fine, Counts
<1>2. config \in NodeConfigs
  BY <1>1 DEF NodesTypes
<1>3. /\ NodeCount \in Nat /\ FullLength \in Nat /\ config.phases \in Nat /\ MaxBursts \in Nat
      /\ \A n \in Generators : MaxSent[n] \in Nat
  BY <1>2, EndSizes
<1>4. ASSUME NEW n \in Generators
      PROVE  /\ destPointer[n] \in 0..(NodeCount - 1) /\ phaseCount[n] \in 0..config.phases
             /\ flitsTx[n] \in 0..FullLength /\ flitsRx[n] \in 0..FullLength
             /\ pendingPetitions[n] \in 0..MaxSent[n] /\ sent[n] \in 0..MaxSent[n]
             /\ burst[n].vc \in Vcs /\ bursts[n] \in 0..MaxBursts
  <2>1. /\ flitsTx[n] \in Nat /\ flitsRx[n] \in Nat /\ pendingPetitions[n] \in Nat /\ sent[n] \in Nat
        /\ Mine(n) \in Nat
    BY <1>1, MineNat DEF CounterTypes
  <2>2. flitsTx[n] \in 0..FullLength /\ flitsRx[n] \in 0..FullLength
    <3>1. CASE Finite
      BY <1>1, <1>3, <2>1, <3>1 DEF Accounted
    <3>2. CASE ~Finite
      BY <1>1, <1>3, <3>2 DEF Accounted
    <3> QED BY <3>1, <3>2
  <2>3. pendingPetitions[n] \in 0..MaxSent[n] /\ sent[n] \in 0..MaxSent[n]
    <3>1. pendingPetitions[n] <= sent[n] /\ sent[n] <= MaxSent[n]
      BY <1>1 DEF Accounted
    <3> QED BY <1>3, <2>1, <3>1
  <2>4. phaseCount[n] \in 0..config.phases
    BY <1>1, <1>3 DEF AllToAll
  <2>5. burst[n].vc \in Vcs /\ bursts[n] \in 0..MaxBursts
    BY <1>1, <1>3 DEF Roomy
  <2> QED BY <1>1, <2>2, <2>3, <2>4, <2>5 DEF NodesTypes
<1>5. finishedCount \in 0..NodeCount
  <2>1. Complete \subseteq Generators
    BY DEF Complete
  <2>2. Cardinality(Complete) \in Nat /\ Cardinality(Complete) <= NodeCount
    BY <2>1, PlacesFinite, FS_Subset, CompleteFinite
  <2> QED BY <1>1, <1>3, <2>2 DEF Finished
<1>6. \A n \in Generators :
        /\ \A vc \in Vcs : Len(injection[n][vc]) <= ChannelSpace
        /\ \A flow \in 0..1 : Len(outBuffers[n][flow]) <= OutSpace
  BY <1>1 DEF Queues
<1>7. /\ config \in NodeConfigs /\ drawn \in [Generators -> Generators \cup {-1}]
      /\ IsABag(network) /\ nodesAborted \in BOOLEAN
  BY <1>1 DEF NodesTypes, Aborted
<1> QED BY <1>4, <1>5, <1>6, <1>7, Zenon DEF NodesTypeOK, Vcs

(* The counters of the nodes stay in their ranges: no node sends more than *)
(* its packets or counts more arrivals than that, no queue holds more than *)
(* its space, whatever asks for it, and no node is counted as finished     *)
(* twice.  This is the part of Nodes in the type invariant of the runs.    *)
THEOREM NodesTypesCorrect == NodesSpec => []NodesTypeOK
<1>1. NodesInit => EndIInv
  BY EndStart
<1>2. EndIInv /\ [NodesNext]_nodesVars => EndIInv'
  BY EndStep
<1>3. EndIInv => NodesTypeOK
  BY TypesFromEnd
<1> QED BY <1>1, <1>2, <1>3, PTL DEF NodesSpec

(* When all nodes are finished there is no packet of theirs left.          *)
LEMMA NothingLeft ==
  ASSUME EndIInv, NodesEnded, NEW n \in Generators
  PROVE  flitsTx[n] = FullLength /\ \A C \in SUBSET Concerning(n) : Total(C) = 0
<1>1. NodesTypes /\ CounterTypes /\ Accounted /\ Finished
  BY DEF EndIInv, NodesIInv, Fine, Counts
<1>2. Finite /\ FullLength \in Nat /\ NodeCount \in Nat
  BY <1>1, EndSizes DEF NodesEnded, Finite, NodesTypes
<1>3. Complete = Generators
  <2>1. Complete \subseteq Generators
    BY DEF Complete
  <2>2. Cardinality(Complete) \in Nat /\ Cardinality(Complete) <= NodeCount
    BY <2>1, PlacesFinite, FS_Subset, CompleteFinite
  <2>3. Cardinality(Complete) = Cardinality(Generators)
    BY <1>1, <1>2, <2>2, PlacesFinite DEF NodesEnded, Finished
  <2> QED BY <2>1, <2>3, PlacesFinite, FS_Subset
<1>4. flitsRx[n] = FullLength
  BY <1>3 DEF Complete
<1>5. flitsTx[n] = FullLength /\ Mine(n) = 0
  <2>1. flitsTx[n] \in Nat /\ Mine(n) \in Nat
    BY <1>1, MineNat DEF CounterTypes
  <2>2. flitsTx[n] <= FullLength /\ flitsTx[n] = flitsRx[n] + Mine(n)
    BY <1>1, <1>2 DEF Accounted
  <2> QED BY <1>2, <1>4, <2>1, <2>2
<1>6. ASSUME NEW C \in SUBSET Concerning(n) PROVE Total(C) = 0
  <2>1. PICK D \in SUBSET AllPackets : D = Concerning(n)
    BY DEF Concerning
  <2>2. Total(D) = 0 /\ C \in SUBSET AllPackets /\ C \subseteq D
    BY <1>5, <2>1 DEF Mine
  <2>3. /\ \A m \in Generators : \A vc \in Vcs :
              \A i \in DOMAIN injection[m][vc] : injection[m][vc][i] \notin D
        /\ \A m \in Generators : \A flow \in 0..1 :
              \A i \in DOMAIN outBuffers[m][flow] : outBuffers[m][flow][i] \notin D
        /\ \A p \in D : p \notin DOMAIN network
    BY <1>1, <2>2, TotalNat
  <2>4. /\ \A m \in Generators : \A vc \in Vcs :
              \A i \in DOMAIN injection[m][vc] : injection[m][vc][i] \notin C
        /\ \A m \in Generators : \A flow \in 0..1 :
              \A i \in DOMAIN outBuffers[m][flow] : outBuffers[m][flow][i] \notin C
        /\ \A p \in C : p \notin DOMAIN network
    BY <2>2, <2>3
  <2> QED BY <1>1, <2>2, <2>4, TotalNat
<1> QED BY <1>5, <1>6

(* When all are complete, nothing is left and all are served.              *)
LEMMA CompleteFromEnd ==
  ASSUME EndIInv PROVE CompleteEnd
<1>1. NodesTypes /\ Accounted /\ AllToAll /\ Aborted
  BY DEF EndIInv, NodesIInv, Fine, Counts
<1>2. CASE nodesAborted
  BY <1>1, <1>2 DEF CompleteEnd, NodesDone, Aborted
<1>3. CASE ~nodesAborted /\ NodesEnded
  <2>1. config \in NodeConfigs /\ Finite /\ ~config.reactive
    BY <1>1, <1>3, EndSizes DEF NodesTypes, NodesEnded, Finite
  <2>2. CASE config.pattern = "ALL2ALL"
    <3>1. delivered \subseteq {pair \in Generators \X Generators : pair[1] # pair[2]}
      BY <1>1, <2>2 DEF AllToAll
    <3>2. ASSUME NEW n \in Generators, NEW m \in Generators, n # m
          PROVE  <<n, m>> \in delivered
      <4>1. ServesAll(n) /\ destPointer[n] \in 0..(NodeCount - 1) /\ flitsTx[n] = FullLength
        BY <1>1, <1>3, <2>2, NothingLeft DEF AllToAll, NodesTypes
      <4>2. flitsTx[n] >= NodeCount - 1
        <5>1. FullLength = (NodeCount - 1) * config.phases
          BY <2>2 DEF FullLength
        <5>2. NodeCount - 1 \in Nat /\ config.phases \in Nat \ {0}
          BY <2>1, EndSizes
        <5>3. \A a \in Nat : \A b \in Nat \ {0} : a * b >= a
          OBVIOUS
        <5>4. (NodeCount - 1) * config.phases >= NodeCount - 1
          BY <5>2, <5>3
        <5> QED BY <4>1, <5>1, <5>4
      <4>3. flitsTx[n] = destPointer[n] /\ destPointer[n] = NodeCount - 1
        <5>1. flitsTx[n] <= destPointer[n] /\ NodeCount \in Nat
          BY <4>1, EndSizes DEF ServesAll
        <5>2. flitsTx[n] \in Nat
          BY <2>1, <4>1, EndSizes
        <5> QED BY <4>1, <4>2, <5>1, <5>2
      <4>4. PICK i \in 1..(NodeCount - 1) : m = destinations[n][i]
        BY <3>2, <4>1 DEF ServesAll, OtherNodes
      <4>5. Served(n, m)
        BY <4>1, <4>3, <4>4 DEF ServesAll
      <4>6. PICK C \in SUBSET AllPackets : C = {Packet("RESPONSE", n, m)}
        BY ResponseIn
      <4>7. C \in SUBSET Concerning(n)
        BY <2>1, <4>6 DEF Concerning, Owner, Packet
      <4>8. Total(C) = 0
        BY <1>3, <4>7, NothingLeft
      <4> QED BY <4>5, <4>6, <4>8 DEF Served
    <3>3. delivered = {pair \in Generators \X Generators : pair[1] # pair[2]}
      BY <3>1, <3>2
    <3> QED BY <1>3, <2>2, <3>3 DEF CompleteEnd, NodesDone
  <2>3. CASE config.pattern # "ALL2ALL"
    <3>1. \A p \in DOMAIN network : FALSE
      <4> SUFFICES ASSUME NEW p \in DOMAIN network PROVE FALSE
        OBVIOUS
      <4>1. p \in NodePackets /\ p \in AllPackets
        BY <1>1, OfAll DEF NodesTypes
      <4>2. Owner(p) \in Generators
        BY <1>1, <4>1, Owners
      <4>3. PICK C \in SUBSET AllPackets : C = {p} /\ C \in SUBSET Concerning(Owner(p))
        BY <4>1 DEF Concerning
      <4>4. Total(C) = 0
        BY <1>3, <4>2, <4>3, NothingLeft
      <4>5. p \notin DOMAIN network
        BY <1>1, <4>3, <4>4, TotalNat
      <4> QED BY <4>5
    <3>2. network = EmptyBag
      BY <1>1, <3>1 DEF NodesTypes, IsABag, EmptyBag, SetToBag
    <3>3. \A n \in Generators : pendingPetitions[n] = 0
      BY <1>1, <2>1 DEF Accounted
    <3> QED BY <1>3, <2>3, <3>2, <3>3 DEF CompleteEnd, NodesDone
  <2> QED BY <2>2, <2>3
<1> QED BY <1>2, <1>3 DEF CompleteEnd

(* The program ends a burst or an all-to-all (finishedCount, a plain count *)
(* of nodes) only when all that was sent has arrived and each node has had *)
(* the packet of each other; and it fails the assertion of the pattern     *)
(* only when a destination has a channel of its own or there is a second   *)
(* phase.  The runs also check that it does end.                           *)
THEOREM TrafficComplete == NodesSpec => []CompleteEnd
<1>1. NodesInit => EndIInv
  BY EndStart
<1>2. EndIInv /\ [NodesNext]_nodesVars => EndIInv'
  BY EndStep
<1>3. EndIInv => CompleteEnd
  BY CompleteFromEnd
<1> QED BY <1>1, <1>2, <1>3, PTL DEF NodesSpec

=============================================================================
