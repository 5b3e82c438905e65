----------------------------- MODULE HostProofs -----------------------------
(***************************************************************************)
(* Proofs about Host, for every value of its constants: no sequence of     *)
(* requests refuses a protected port, no two enabled forwards listen on a  *)
(* common port, and a start of the panel whose replay met no error leaves  *)
(* in the kernel what the rows say; a request that fails half-way leaves   *)
(* no timer, script, process or SSH setting that cannot be seen, stopped   *)
(* or undone, and a failed update of a task or a unit is undone. Each of   *)
(* the seven parts has an inductive invariant, with lemmas for the steps   *)
(* of a request, for the request with any one of them failing, and for the *)
(* action. The loops of the code (over rules, ids, ports and files) are    *)
(* recursive functions in the model; the first section says what they      *)
(* compute. The last section puts the parts together.                      *)
(***************************************************************************)
EXTENDS Host, FiniteSetTheorems, SequenceTheorems, WellFoundedInduction, TLAPS

-----------------------------------------------------------------------------
(* Loops. A recursive function over 0 .. n has the values its equations     *)
(* give, and keeps to a set that every turn of the loop keeps to. The       *)
(* argument takes the first number at which that fails.                     *)
LEMMA Smallest ==
    ASSUME NEW T \in SUBSET Nat, T # {}
    PROVE  \E m \in T : \A k \in T : m <= k
<1>1. \E m \in T : \A k \in T : <<k, m>> \notin OpToRel(<, Nat)
    BY WFMin, NatLessThanWellFounded
<1>2. ASSUME NEW k \in Nat, NEW m \in Nat, k < m PROVE <<k, m>> \in OpToRel(<, Nat)
  <2>1. <<k, m>> \in Nat \X Nat /\ <<k, m>>[1] < <<k, m>>[2]
      BY <1>2
  <2> QED
      BY <2>1 DEF OpToRel
<1>3. \E m \in T : \A k \in T : ~ (k < m)
    BY <1>1, <1>2, Zenon
<1> QED
    BY <1>3

(* Such a function exists, whatever a turn does.                            *)
LEMMA LoopEnds ==
    ASSUME NEW V, NEW b \in V, NEW n \in Nat, NEW G \in [1 .. n -> [V -> V]]
    PROVE  \E f \in [0 .. n -> V] : f[0] = b /\ \A i \in 1 .. n : f[i] = G[i][f[i - 1]]
<1> DEFINE Upto(m) == {f \in [0 .. m -> V] :
                         \A i \in 0 .. m : f[i] = IF i = 0 THEN b ELSE G[i][f[i - 1]]}
           T == {m \in 0 .. n : Upto(m) = {}}
<1>1. T = {}
  <2> SUFFICES ASSUME T # {} PROVE FALSE
      OBVIOUS
  <2>1. T \in SUBSET Nat
      OBVIOUS
  <2>2. PICK m \in T : \A k \in T : m <= k
    <3> HIDE DEF T
    <3> QED
      BY <2>1, Smallest
  <2>3. m \in 0 .. n /\ Upto(m) = {}
      OBVIOUS
  <2>4. CASE m = 0
    <3>1. [i \in 0 .. 0 |-> b] \in Upto(0)
        OBVIOUS
    <3> QED
        BY <2>3, <2>4, <3>1
  <2>5. CASE m # 0
    <3>1. m - 1 \in 0 .. n /\ ~ (m <= m - 1)
        BY <2>3, <2>5
    <3>0. m - 1 \notin T
      <4> HIDE DEF T
      <4> QED
        BY <2>2, <3>1
    <3>2. PICK g : g \in Upto(m - 1)
        BY <3>0, <3>1
    <3> DEFINE f == [i \in 0 .. m |-> IF i = m THEN G[m][g[m - 1]] ELSE g[i]]
    <3>3. g[m - 1] \in V /\ G[m][g[m - 1]] \in V
        BY <2>3, <2>5, <3>2
    <3>4. f \in [0 .. m -> V]
        BY <2>3, <2>5, <3>2, <3>3
    <3>5. ASSUME NEW i \in 0 .. m PROVE f[i] = IF i = 0 THEN b ELSE G[i][f[i - 1]]
      <4>1. CASE i = m
        <5>1. m - 1 \in 0 .. m /\ m - 1 # m
            BY <2>3, <2>5
        <5>2. f[m - 1] = g[m - 1] /\ f[m] = G[m][g[m - 1]]
            BY <5>1, <2>3
        <5> QED
            BY <4>1, <5>2, <2>5
      <4>2. CASE i # m
        <5>1. i \in 0 .. m - 1
            BY <4>2, <2>3
        <5>2. g[i] = IF i = 0 THEN b ELSE G[i][g[i - 1]]
            BY <5>1, <3>2
        <5>3. f[i] = g[i] /\ (i # 0 => f[i - 1] = g[i - 1])
            BY <4>2, <2>3
        <5> QED
            BY <5>2, <5>3
      <4> QED
        BY <4>1, <4>2
    <3> HIDE DEF f
    <3>6. f \in Upto(m)
        BY <3>4, <3>5
    <3> QED
        BY <2>3, <3>6
  <2> QED
      BY <2>4, <2>5
<1>2. PICK f : f \in Upto(n)
    BY <1>1
<1>3. f[0] = b /\ \A i \in 1 .. n : f[i] = G[i][f[i - 1]]
    BY <1>2
<1> QED
    BY <1>2, <1>3

(* Induction over the turns of a loop.                                      *)
LEMMA LoopSteps ==
    ASSUME NEW n \in Nat, NEW S, 0 \in S, \A i \in 1 .. n : i - 1 \in S => i \in S
    PROVE  \A i \in 0 .. n : i \in S
<1> DEFINE T == {i \in 0 .. n : i \notin S}
<1> SUFFICES ASSUME T # {} PROVE FALSE
    OBVIOUS
<1>1. T \in SUBSET Nat
    OBVIOUS
<1>2. PICK m \in T : \A k \in T : m <= k
  <2> HIDE DEF T
  <2> QED
    BY <1>1, Smallest
<1>3. m \in 1 .. n /\ m \notin S /\ m - 1 \in 0 .. n /\ ~ (m <= m - 1)
    OBVIOUS
<1>4. m - 1 \notin T
  <2> HIDE DEF T
  <2> QED
    BY <1>2, <1>3
<1> QED
    BY <1>3, <1>4

(* A function of which the loop's equations hold as far as it stays in the  *)
(* set: it stays in the set.                                                *)
LoopOf(V, b, n, G, F) ==
    /\ b \in V /\ n \in Nat /\ G \in [1 .. n -> [V -> V]]
    /\ \A f \in [0 .. n -> V] :
          (f[0] = b /\ \A i \in 1 .. n : f[i] = G[i][f[i - 1]]) =>
          (F[0] = b /\ \A i \in 1 .. n : F[i - 1] \in V => F[i] = G[i][F[i - 1]])

(* It stays in the set.                                                     *)
LEMMA LoopKeeps ==
    ASSUME NEW V, NEW b, NEW n, NEW G, NEW F, LoopOf(V, b, n, G, F)
    PROVE  \A i \in 0 .. n : F[i] \in V
<1> USE DEF LoopOf
<1>1. \E f \in [0 .. n -> V] : f[0] = b /\ \A i \in 1 .. n : f[i] = G[i][f[i - 1]]
    BY LoopEnds, SMTT(60)
<1>2. F[0] = b /\ \A i \in 1 .. n : F[i - 1] \in V => F[i] = G[i][F[i - 1]]
    BY <1>1
<1> DEFINE S == {j \in 0 .. n : F[j] \in V}
<1>3. 0 \in S
    BY <1>2
<1>4. ASSUME NEW i \in 1 .. n, i - 1 \in S PROVE i \in S
    BY <1>2, <1>4
<1>5. \A i \in 0 .. n : i \in S
  <2> HIDE DEF S
  <2> QED
    BY <1>3, <1>4, LoopSteps
<1> QED
    BY <1>5

(* It follows its equations.                                                *)
LEMMA LoopRuns ==
    ASSUME NEW V, NEW b, NEW n, NEW G, NEW F, LoopOf(V, b, n, G, F)
    PROVE  F[0] = b /\ \A i \in 1 .. n : F[i - 1] \in V /\ F[i] = G[i][F[i - 1]]
<1>1. \A i \in 0 .. n : F[i] \in V
    BY LoopKeeps
<1> USE DEF LoopOf
<1>2. \E f \in [0 .. n -> V] : f[0] = b /\ \A i \in 1 .. n : f[i] = G[i][f[i - 1]]
    BY LoopEnds, SMTT(60)
<1>3. F[0] = b /\ \A i \in 1 .. n : F[i - 1] \in V => F[i] = G[i][F[i - 1]]
    BY <1>2
<1> QED
    BY <1>1, <1>3

-----------------------------------------------------------------------------
(* Firewall rules. No row and no rule of the tool refuses a protected port. *)
FwPorts == {r.port : r \in Specs} \cup FwProtected
FwActs == {r.act : r \in Specs} \cup {"ACCEPT"}
FwOk(r) == r.port \in FwProtected => r.act = "ACCEPT"
FwGood == {e \in [port : FwPorts, act : FwActs, fam : {"any", "ipv4", "ipv6"}] : FwOk(e)}
FwRow == {r \in [port : FwPorts, act : FwActs, ver : Rules!Versions, on : BOOLEAN, prio : Nat] :
             FwOk(r) /\ Rules!Spec1(r) \in Specs}
FwTables == UNION {[D -> FwRow] : D \in SUBSET Nat}
FwStores == {s \in [rows : FwTables, lastId : Nat, chain : Seq(FwGood)] :
                DOMAIN s.rows \subseteq 1 .. s.lastId}
FwInv ==
    /\ tool \in Tools /\ Rules!Store \in FwStores
    /\ lastId <= FwMaxId /\ Len(chain) <= MaxChain

(* The bounds are numbers.                                                  *)
LEMMA FwNumbers ==
    FwMaxId \in Nat /\ MaxChain \in Nat /\ MaxChecks \in Nat /\ FwMaxFaults \in Nat
BY FirewallAssumption DEF Rules!FirewallBounds

(* The invariant holds at the start.                                        *)
LEMMA FwInit == Init => FwInv
<1> SUFFICES ASSUME Init PROVE FwInv
    OBVIOUS
<1>1. tool \in Tools /\ rows = <<>> /\ lastId = 0 /\ chain = <<>>
    BY DEF Init, Rules!Init, Rules!DetectTool
<1>2. rows \in [{} -> FwRow]
    BY <1>1
<1>3. rows \in FwTables
    BY <1>2 DEF FwTables
<1>4. <<>> \in Seq(FwGood)
    OBVIOUS
<1>5. Len(<<>>) = 0
    OBVIOUS
<1> QED
    BY <1>1, <1>3, <1>4, <1>5, FwNumbers DEF FwInv, FwStores, Rules!Store

(* The tool is one of the three.                                            *)
LEMMA FwTool ==
    ASSUME FwInv
    PROVE  tool \in {"ufw", "nft", "iptables"}
BY FirewallAssumption DEF FwInv, Rules!FirewallBounds

(* What nft keeps: the rules that do not match.                             *)
LEMMA FwNftRemoves ==
    ASSUME NEW c \in Seq(FwGood), NEW r
    PROVE  Rules!removeNftRule(c, r) \in Seq(FwGood) /\ Len(Rules!removeNftRule(c, r)) <= Len(c)
<1> DEFINE n == Len(c)
           V == Seq(FwGood)
           b == <<>>
           Turn(i, kept) == IF Rules!MatchesNft(c[i], r) THEN kept ELSE Append(kept, c[i])
           G == [i \in 1 .. n |-> [v \in V |-> Turn(i, v)]]
           F == CHOOSE f : f = [i \in 0 .. n |-> IF i = 0 THEN b ELSE Turn(i, f[i - 1])]
<1>1. n \in Nat /\ b \in V
    OBVIOUS
<1>2. ASSUME NEW i \in 1 .. n, NEW v \in V PROVE Turn(i, v) \in V
    OBVIOUS
<1>3. Rules!removeNftRule(c, r) = F[n]
    BY DEF Rules!removeNftRule, Rules!ForEach
<1> HIDE DEF V, Turn, n, b
<1>4. G \in [1 .. n -> [V -> V]]
    BY <1>2
<1>5. ASSUME NEW f \in [0 .. n -> V], f[0] = b, \A i \in 1 .. n : f[i] = G[i][f[i - 1]]
      PROVE  f = [i \in 0 .. n |-> IF i = 0 THEN b ELSE Turn(i, f[i - 1])]
  <2>1. ASSUME NEW i \in 1 .. n PROVE f[i] = Turn(i, f[i - 1])
    <3>1. f[i - 1] \in V
        BY <1>1
    <3> QED
        BY <1>5, <3>1
  <2>2. \A i \in 0 .. n : f[i] = IF i = 0 THEN b ELSE Turn(i, f[i - 1])
      BY <1>1, <1>5, <2>1
  <2> QED
      BY <2>2
<1>6. ASSUME NEW f, f = [i \in 0 .. n |-> IF i = 0 THEN b ELSE Turn(i, f[i - 1])]
      PROVE  F = [i \in 0 .. n |-> IF i = 0 THEN b ELSE Turn(i, F[i - 1])]
    BY <1>6
<1> HIDE DEF F
<1>7. ASSUME NEW f \in [0 .. n -> V], f[0] = b, \A i \in 1 .. n : f[i] = G[i][f[i - 1]]
      PROVE  F[0] = b /\ \A i \in 1 .. n : F[i - 1] \in V => F[i] = G[i][F[i - 1]]
  <2>1. F = [i \in 0 .. n |-> IF i = 0 THEN b ELSE Turn(i, F[i - 1])]
      BY <1>5, <1>6, <1>7
  <2>2. F[0] = b /\ \A i \in 1 .. n : F[i] = Turn(i, F[i - 1])
      BY <1>1, <2>1
  <2> QED
      BY <2>2
<1> HIDE DEF G
<1>8. LoopOf(V, b, n, G, F)
    BY <1>1, <1>4, <1>7 DEF LoopOf
<1>9. \A i \in 0 .. n : F[i] \in V
    BY <1>8, LoopKeeps
<1>10. F[0] = b /\ \A i \in 1 .. n : F[i - 1] \in V /\ F[i] = G[i][F[i - 1]]
    BY <1>8, LoopRuns
<1>11. \A i \in 1 .. n : F[i - 1] \in V /\ F[i] = Turn(i, F[i - 1])
    BY <1>10 DEF G
<1> DEFINE Fine == {i \in 0 .. n : Len(F[i]) <= i}
<1>12. 0 \in Fine
  <2>1. Len(b) = 0
      BY DEF b
  <2> QED
      BY <1>1, <1>10, <2>1
<1>13. ASSUME NEW i \in 1 .. n, i - 1 \in Fine PROVE i \in Fine
  <2>1. F[i - 1] \in Seq(FwGood) /\ (F[i] = F[i - 1] \/ F[i] = Append(F[i - 1], c[i]))
      BY <1>11 DEF V, Turn
  <2>2. Len(F[i - 1]) \in Nat /\ Len(F[i - 1]) <= i - 1
      BY <1>13, <2>1
  <2>3. Len(F[i]) = Len(F[i - 1]) \/ Len(F[i]) = Len(F[i - 1]) + 1
      BY <2>1
  <2>4. Len(F[i]) <= i
      BY ONLY <2>2, <2>3, i \in 1 .. n
  <2> QED
      BY <1>1, <2>4
<1>14. \A i \in 0 .. n : i \in Fine
  <2> HIDE DEF Fine
  <2> QED
      BY <1>1, <1>12, <1>13, LoopSteps
<1>15. Len(F[n]) <= n
    BY <1>1, <1>14
<1> QED
    BY <1>1, <1>3, <1>9, <1>15 DEF V, n

(* iptables and ufw remove the first equal rule, if there is one.           *)
LEMMA FwRemovesFirst ==
    ASSUME NEW c \in Seq(FwGood), NEW e
    PROVE  Rules!RemoveFirst(c, e) \in Seq(FwGood) /\ Len(Rules!RemoveFirst(c, e)) <= Len(c)
<1>1. CASE ~ \E i \in 1 .. Len(c) : c[i] = e
    BY <1>1 DEF Rules!RemoveFirst
<1>2. CASE \E i \in 1 .. Len(c) : c[i] = e
  <2> DEFINE I == {i \in 1 .. Len(c) : c[i] = e}
             m == Rules!Min(I)
  <2>1. I # {} /\ I \in SUBSET Nat
      BY <1>2
  <2>2. PICK k \in I : \A j \in I : k <= j
    <3> HIDE DEF I
    <3> QED
      BY <2>1, Smallest
  <2>3. m \in I
    <3> HIDE DEF I
    <3> QED
      BY <2>2 DEF Rules!Min
  <2>4. m \in 1 .. Len(c)
      BY <2>3
  <2>5. Rules!RemoveFirst(c, e) = SubSeq(c, 1, m - 1) \o SubSeq(c, m + 1, Len(c))
      BY <1>2, <2>1 DEF Rules!RemoveFirst, Rules!SelectInSeq, Rules!RemoveAt
  <2> HIDE DEF m, I
  <2>6. /\ SubSeq(c, 1, m - 1) \in Seq(FwGood) /\ SubSeq(c, m + 1, Len(c)) \in Seq(FwGood)
        /\ Len(SubSeq(c, 1, m - 1)) = m - 1 /\ Len(SubSeq(c, m + 1, Len(c))) = Len(c) - m
      BY <2>4
  <2>7. Len(SubSeq(c, 1, m - 1) \o SubSeq(c, m + 1, Len(c))) = (m - 1) + (Len(c) - m)
      BY ONLY <2>6
  <2>8. (m - 1) + (Len(c) - m) <= Len(c)
      BY <2>4
  <2> QED
      BY <2>5, <2>6, <2>7, <2>8
<1> QED
    BY <1>1, <1>2

(* Rules are removed for one version of IP.                                 *)
LEMMA FwRemovesVersion ==
    ASSUME FwInv, NEW c \in Seq(FwGood), NEW r, NEW v
    PROVE  /\ Rules!removeRuleForVersion(c, r, v).chain \in Seq(FwGood)
           /\ Len(Rules!removeRuleForVersion(c, r, v).chain) <= Len(c)
<1>1. CASE tool = "nft"
    BY <1>1, FwNftRemoves DEF Rules!removeRuleForVersion
<1>2. CASE tool = "ufw"
    BY <1>2, FwRemovesFirst DEF Rules!removeRuleForVersion, Rules!removeUfwRule
<1>3. CASE tool = "iptables"
    BY <1>3, FwRemovesFirst DEF Rules!removeRuleForVersion, Rules!removeIptablesRule
<1> QED
    BY <1>1, <1>2, <1>3, FwTool

(* Rules are removed for all versions of a rule.                            *)
LEMMA FwRemoves ==
    ASSUME FwInv, NEW c \in Seq(FwGood), NEW r
    PROVE  /\ Rules!removeRule(c, r).chain \in Seq(FwGood)
           /\ Len(Rules!removeRule(c, r).chain) <= Len(c)
<1> DEFINE first == Rules!removeRuleForVersion(c, r, Rules!FamiliesOf(r)[1])
<1>1. first.chain \in Seq(FwGood) /\ Len(first.chain) <= Len(c)
    BY FwRemovesVersion
<1>2. \/ Rules!removeRule(c, r) = first
      \/ Rules!removeRule(c, r) = Rules!removeRuleForVersion(first.chain, r, "ipv6")
    BY DEF Rules!removeRule
<1> HIDE DEF first
<1>3. LET w == Rules!removeRuleForVersion(first.chain, r, "ipv6")
      IN w.chain \in Seq(FwGood) /\ Len(w.chain) <= Len(first.chain)
    BY <1>1, FwRemovesVersion
<1>4. Len(c) \in Nat /\ Len(first.chain) \in Nat
    BY <1>1
<1>5. CASE Rules!removeRule(c, r) = first
    BY <1>1, <1>5
<1>6. CASE Rules!removeRule(c, r) = Rules!removeRuleForVersion(first.chain, r, "ipv6")
  <2> DEFINE w == Rules!removeRuleForVersion(first.chain, r, "ipv6")
  <2>1. w.chain \in Seq(FwGood) /\ Len(w.chain) <= Len(first.chain)
      BY <1>3
  <2> HIDE DEF w
  <2>2. Len(w.chain) \in Nat
      BY <2>1
  <2>3. Len(w.chain) <= Len(c)
      BY ONLY <1>1, <1>4, <2>1, <2>2
  <2> QED
      BY <1>6, <2>1, <2>3 DEF w
<1> QED
    BY <1>2, <1>5, <1>6

(* What a rule puts into the tool.                                          *)
FwSpec(r) ==
    /\ r.port \in FwPorts /\ r.act \in FwActs /\ r.ver \in Rules!Versions /\ FwOk(r)
    /\ Rules!Spec1(r) \in Specs

(* The entry of a rule that may be installed is a good one.                 *)
LEMMA FwEntry ==
    ASSUME FwInv, NEW r, FwSpec(r), NEW v \in {"ipv4", "ipv6"}
    PROVE  Rules!Entry(r, v) \in FwGood
BY DEF FwSpec, FwGood, FwOk, Rules!Entry, Rules!iptablesTool

(* A rule is applied for one version of IP.                                 *)
LEMMA FwAppliesVersion ==
    ASSUME FwInv, NEW r, FwSpec(r), NEW v \in {"ipv4", "ipv6"}, NEW c \in Seq(FwGood)
    PROVE  Rules!applyRuleForVersion(c, r, v) \in Seq(FwGood)
<1> DEFINE e == Rules!Entry(r, v)
<1>1. e \in FwGood
    BY FwEntry
<1>2. \/ Rules!applyRuleForVersion(c, r, v) = c
      \/ Rules!applyRuleForVersion(c, r, v) = Append(c, e)
    BY FwTool DEF Rules!applyRuleForVersion, Rules!applyUfwRule, Rules!applyNftRule,
       Rules!applyIptablesRule
<1> HIDE DEF e
<1> QED
    BY <1>1, <1>2

(* A rule is applied, as far as the commands succeed.                       *)
LEMMA FwApplies ==
    ASSUME FwInv, NEW st \in FwStores, NEW r, FwSpec(r), NEW n \in Rules!Versioned(r)
    PROVE  /\ Rules!applyRule(st, r, n) \in FwStores
           /\ Rules!applyRule(st, r, n).lastId = st.lastId
<1> DEFINE v == Rules!FamiliesOf(r)[1]
           first == Rules!applyRuleForVersion(st.chain, r, v)
<1>1. v \in {"ipv4", "ipv6"}
    BY DEF FwSpec, Rules!FamiliesOf, Rules!Versions
<1>2. n \in {0, 1, 2}
    BY DEF FwSpec, Rules!FamiliesOf, Rules!Versions, Rules!Versioned
<1>3. st.chain \in Seq(FwGood)
    BY DEF FwStores
<1>4. first \in Seq(FwGood)
  <2> HIDE DEF v
  <2> QED
    BY <1>1, <1>3, FwAppliesVersion
<1>5. Rules!applyRuleForVersion(first, r, "ipv6") \in Seq(FwGood)
  <2> HIDE DEF first
  <2> QED
    BY <1>4, FwAppliesVersion
<1>6. \/ Rules!applyRule(st, r, n) = st
      \/ Rules!applyRule(st, r, n) = [st EXCEPT !.chain = first]
      \/ Rules!applyRule(st, r, n) =
            [st EXCEPT !.chain = Rules!applyRuleForVersion(first, r, "ipv6")]
    BY <1>2 DEF Rules!applyRule
<1> HIDE DEF first
<1> QED
    BY <1>4, <1>5, <1>6 DEF FwStores

(* The statements on the table.                                             *)
LEMMA FwInserts ==
    ASSUME NEW st \in FwStores, NEW r, FwSpec(r)
    PROVE  /\ Rules!repoCreateRule(st, r) \in FwStores
           /\ Rules!repoCreateRule(st, r).lastId = st.lastId + 1
<1> DEFINE id == st.lastId + 1
           row == [port |-> r.port, act |-> r.act, ver |-> r.ver, on |-> TRUE, prio |-> 0]
           new == [i \in DOMAIN st.rows \cup {id} |-> IF i = id THEN row ELSE st.rows[i]]
<1>1. PICK D \in SUBSET Nat : st.rows \in [D -> FwRow]
    BY DEF FwStores, FwTables
<1>2. id \in Nat /\ st.lastId \in Nat /\ st.chain \in Seq(FwGood)
    BY DEF FwStores
<1>3. row \in FwRow
    BY DEF FwRow, FwSpec, FwOk, Rules!Spec1
<1>5. Rules!repoCreateRule(st, r) = [st EXCEPT !.lastId = id, !.rows = new]
    BY DEF Rules!repoCreateRule
<1> HIDE DEF row
<1>6. new \in [D \cup {id} -> FwRow]
    BY <1>1, <1>3
<1>7. new \in FwTables
    BY <1>1, <1>2, <1>6 DEF FwTables
<1>8. DOMAIN new \subseteq 1 .. id
    BY <1>2 DEF FwStores
<1> HIDE DEF new
<1> QED
    BY <1>2, <1>5, <1>7, <1>8 DEF FwStores

(* A row gets the fields of a request.                                      *)
LEMMA FwRewrites ==
    ASSUME NEW st \in FwStores, NEW r, FwSpec(r), NEW id
    PROVE  /\ Rules!repoUpdateRule(st, id, r) \in FwStores
           /\ Rules!repoUpdateRule(st, id, r).lastId = st.lastId
<1> DEFINE row(i) == [st.rows[i] EXCEPT !.port = r.port, !.act = r.act, !.ver = r.ver]
           new == [i \in DOMAIN st.rows |-> IF i = id THEN row(i) ELSE st.rows[i]]
<1>1. PICK D \in SUBSET Nat : st.rows \in [D -> FwRow]
    BY DEF FwStores, FwTables
<1>2. ASSUME NEW i \in D PROVE row(i) \in FwRow
    BY <1>1 DEF FwRow, FwSpec, FwOk, Rules!Spec1
<1>3. Rules!repoUpdateRule(st, id, r) = [st EXCEPT !.rows = new]
    BY <1>1 DEF Rules!repoUpdateRule, FwRow
<1> HIDE DEF row
<1>4. new \in [D -> FwRow]
    BY <1>1, <1>2
<1>5. new \in FwTables /\ DOMAIN new \subseteq 1 .. st.lastId
    BY <1>4 DEF FwTables, FwStores
<1> HIDE DEF new
<1> QED
    BY <1>3, <1>5 DEF FwStores

(* A row is deleted.                                                        *)
LEMMA FwErases ==
    ASSUME NEW st \in FwStores, NEW id
    PROVE  /\ Rules!repoDeleteRule(st, id) \in FwStores
           /\ Rules!repoDeleteRule(st, id).lastId = st.lastId
<1> DEFINE new == [i \in DOMAIN st.rows \ {id} |-> st.rows[i]]
<1>1. PICK D \in SUBSET Nat : st.rows \in [D -> FwRow]
    BY DEF FwStores, FwTables
<1>2. Rules!repoDeleteRule(st, id) = [st EXCEPT !.rows = new]
    BY DEF Rules!repoDeleteRule
<1>3. new \in [D \ {id} -> FwRow]
    BY <1>1
<1>4. new \in FwTables /\ DOMAIN new \subseteq 1 .. st.lastId
    BY <1>1, <1>3 DEF FwTables, FwStores
<1> HIDE DEF new
<1> QED
    BY <1>2, <1>4 DEF FwStores

(* A row is switched on or off.                                             *)
LEMMA FwSwitches ==
    ASSUME NEW st \in FwStores, NEW id, NEW on \in BOOLEAN
    PROVE  /\ Rules!repoSetEnabled(st, id, on) \in FwStores
           /\ Rules!repoSetEnabled(st, id, on).lastId = st.lastId
<1> DEFINE row(i) == [st.rows[i] EXCEPT !.on = on]
           new == [i \in DOMAIN st.rows |-> IF i = id THEN row(i) ELSE st.rows[i]]
<1>1. PICK D \in SUBSET Nat : st.rows \in [D -> FwRow]
    BY DEF FwStores, FwTables
<1>2. ASSUME NEW i \in D PROVE row(i) \in FwRow
    BY <1>1 DEF FwRow, FwOk, Rules!Spec1
<1>3. Rules!repoSetEnabled(st, id, on) = [st EXCEPT !.rows = new]
    BY DEF Rules!repoSetEnabled
<1> HIDE DEF row
<1>4. new \in [D -> FwRow]
    BY <1>1, <1>2
<1>5. new \in FwTables /\ DOMAIN new \subseteq 1 .. st.lastId
    BY <1>4 DEF FwTables, FwStores
<1> HIDE DEF new
<1> QED
    BY <1>3, <1>5 DEF FwStores

(* The rules of the tool are replaced.                                      *)
LEMMA FwChains ==
    ASSUME NEW st \in FwStores, NEW c \in Seq(FwGood)
    PROVE  [st EXCEPT !.chain = c] \in FwStores /\ [st EXCEPT !.chain = c].lastId = st.lastId
BY DEF FwStores

(* A row is a rule.                                                         *)
LEMMA FwRows ==
    ASSUME NEW st \in FwStores, NEW id \in DOMAIN st.rows
    PROVE  st.rows[id] \in FwRow /\ FwSpec(Rules!Spec1(st.rows[id]))
<1>1. st.rows[id] \in FwRow
    BY DEF FwStores, FwTables
<1> QED
    BY <1>1 DEF FwRow, FwSpec, FwOk, Rules!Spec1

(* All versions of a rule can be applied.                                   *)
LEMMA FwAll ==
    ASSUME NEW r, FwSpec(r)
    PROVE  Len(Rules!FamiliesOf(r)) \in Rules!Versioned(r)
BY DEF FwSpec, Rules!Versions, Rules!FamiliesOf, Rules!Versioned

(* CreateRule, with a command that fails or without.                        *)
LEMMA FwCreatesRule ==
    ASSUME FwInv, NEW st \in FwStores, NEW r, FwSpec(r), NEW n \in Rules!Versioned(r)
    PROVE  Rules!CreateRule(st, r, n) \in FwStores /\ Rules!CreateRule(st, r, n).lastId = st.lastId + 1
<1> DEFINE saved == Rules!repoCreateRule(st, r)
           done == Rules!applyRule(saved, r, n)
<1>1. saved \in FwStores /\ saved.lastId = st.lastId + 1
    BY FwInserts
<1>2. done \in FwStores /\ done.lastId = saved.lastId
  <2> HIDE DEF saved
  <2> QED
    BY <1>1, FwApplies
<1>3. \/ Rules!CreateRule(st, r, n) = done
      \/ Rules!CreateRule(st, r, n) = Rules!repoDeleteRule(done, saved.lastId)
    BY DEF Rules!CreateRule
<1> HIDE DEF done, saved
<1> QED
    BY <1>1, <1>2, <1>3, FwErases

(* UpdateRule removes the old rule and applies the new one.                 *)
LEMMA FwUpdatesRule ==
    ASSUME FwInv, NEW st \in FwStores, NEW id \in DOMAIN st.rows,
           NEW r, FwSpec(r), NEW n \in Rules!Versioned(r), NEW ok \in BOOLEAN
    PROVE  Rules!UpdateRule(st, id, r, n, ok) \in FwStores /\ Rules!UpdateRule(st, id, r, n, ok).lastId = st.lastId
<1> DEFINE old == st.rows[id]
           gone == [st EXCEPT !.chain = Rules!removeRule(@, Rules!Spec1(old)).chain]
           removed == IF old.on /\ ok THEN gone ELSE st
           updated == Rules!repoUpdateRule(removed, id, r)
<1>1. gone \in FwStores /\ gone.lastId = st.lastId
  <2>1. st.chain \in Seq(FwGood)
      BY DEF FwStores
  <2>2. Rules!removeRule(st.chain, Rules!Spec1(old)).chain \in Seq(FwGood)
      BY <2>1, FwRemoves
  <2> QED
      BY <2>2, FwChains
<1>2. removed \in FwStores /\ removed.lastId = st.lastId
    BY <1>1
<1>3. updated \in FwStores /\ updated.lastId = st.lastId
  <2> HIDE DEF removed
  <2> QED
    BY <1>2, FwRewrites
<1>4. \/ Rules!UpdateRule(st, id, r, n, ok) = Rules!applyRule(updated, r, n)
      \/ Rules!UpdateRule(st, id, r, n, ok) = updated
    BY DEF Rules!UpdateRule
<1> HIDE DEF updated
<1>5. /\ Rules!applyRule(updated, r, n) \in FwStores
      /\ Rules!applyRule(updated, r, n).lastId = updated.lastId
    BY ONLY FwInv, FwSpec(r), n \in Rules!Versioned(r), <1>3, FwApplies
<1> QED
    BY ONLY <1>3, <1>4, <1>5

(* DeleteRule.                                                              *)
LEMMA FwDeletesRule ==
    ASSUME FwInv, NEW st \in FwStores, NEW id, NEW ok \in BOOLEAN
    PROVE  Rules!DeleteRule(st, id, ok) \in FwStores /\ Rules!DeleteRule(st, id, ok).lastId = st.lastId
<1> DEFINE gone == IF ok THEN [st EXCEPT !.chain = Rules!removeRule(@, Rules!Spec1(st.rows[id])).chain]
                   ELSE st
<1>1. gone \in FwStores /\ gone.lastId = st.lastId
  <2>1. st.chain \in Seq(FwGood)
      BY DEF FwStores
  <2>2. Rules!removeRule(st.chain, Rules!Spec1(st.rows[id])).chain \in Seq(FwGood)
      BY <2>1, FwRemoves
  <2> QED
      BY <2>2, FwChains
<1>2. Rules!DeleteRule(st, id, ok) = Rules!repoDeleteRule(gone, id)
    BY DEF Rules!DeleteRule
<1> HIDE DEF gone
<1> QED
    BY <1>1, <1>2, FwErases

(* EnableRule applies the rule of the row.                                  *)
LEMMA FwEnablesRule ==
    ASSUME FwInv, NEW st \in FwStores, NEW id \in DOMAIN st.rows,
           NEW n \in Rules!Versioned(Rules!Spec1(st.rows[id]))
    PROVE  /\ Rules!EnableRule(st, id, n) \in FwStores
           /\ Rules!EnableRule(st, id, n).lastId = st.lastId
           /\ DOMAIN Rules!EnableRule(st, id, n).rows = DOMAIN st.rows
<1> DEFINE r == Rules!Spec1(st.rows[id])
           done == Rules!applyRule(st, r, n)
<1>1. FwSpec(r)
    BY FwRows
<1>2. done \in FwStores /\ done.lastId = st.lastId
  <2>1. n \in Rules!Versioned(r)
    OBVIOUS
  <2> HIDE DEF r
  <2> QED
    BY <1>1, <2>1, FwApplies
<1>3. done.rows = st.rows
  <2>1. n \in {0, 1, 2}
    BY <1>1 DEF FwSpec, Rules!FamiliesOf, Rules!Versions, Rules!Versioned
  <2> HIDE DEF r
  <2> QED
    BY <2>1 DEF Rules!applyRule, FwStores
<1>4. \/ Rules!EnableRule(st, id, n) = Rules!repoSetEnabled(done, id, TRUE)
      \/ Rules!EnableRule(st, id, n) = done
    BY DEF Rules!EnableRule
<1> HIDE DEF done, r
<1>5. DOMAIN Rules!repoSetEnabled(done, id, TRUE).rows = DOMAIN done.rows
    BY <1>2 DEF Rules!repoSetEnabled, FwStores
<1>6. /\ Rules!repoSetEnabled(done, id, TRUE) \in FwStores
      /\ Rules!repoSetEnabled(done, id, TRUE).lastId = done.lastId
    BY <1>2, FwSwitches
<1> QED
    BY <1>2, <1>3, <1>4, <1>5, <1>6

(* DisableRule.                                                             *)
LEMMA FwDisablesRule ==
    ASSUME FwInv, NEW st \in FwStores, NEW id, NEW ok \in BOOLEAN
    PROVE  Rules!DisableRule(st, id, ok) \in FwStores /\ Rules!DisableRule(st, id, ok).lastId = st.lastId
<1> DEFINE res == Rules!removeRule(st.chain, Rules!Spec1(st.rows[id]))
           gone == [st EXCEPT !.chain = res.chain]
<1>1. gone \in FwStores /\ gone.lastId = st.lastId
  <2>1. st.chain \in Seq(FwGood)
      BY DEF FwStores
  <2>2. res.chain \in Seq(FwGood)
      BY <2>1, FwRemoves
  <2> QED
      BY <2>2, FwChains
<1>2. \/ Rules!DisableRule(st, id, ok) = st
      \/ Rules!DisableRule(st, id, ok) = gone
      \/ Rules!DisableRule(st, id, ok) = Rules!repoSetEnabled(gone, id, FALSE)
  <2> HIDE DEF res
  <2>1. CASE ~ok
      BY <2>1 DEF Rules!DisableRule
  <2>2. CASE ok /\ ~res.ok
      BY <2>2 DEF Rules!DisableRule, res
  <2>3. CASE ok /\ res.ok
      BY <2>3 DEF Rules!DisableRule, res
  <2> QED
      BY <2>1, <2>2, <2>3
<1> HIDE DEF gone
<1>3. /\ Rules!repoSetEnabled(gone, id, FALSE) \in FwStores
      /\ Rules!repoSetEnabled(gone, id, FALSE).lastId = gone.lastId
    BY <1>1, FwSwitches
<1> QED
    BY <1>1, <1>2, <1>3

(* A request takes the rules from a good state to a good state.             *)
LEMMA FwStore ==
    ASSUME FwInv
    PROVE  /\ Rules!Store \in FwStores /\ Rules!Store.rows = rows /\ Rules!Store.lastId = lastId
           /\ lastId <= FwMaxId
BY DEF FwInv, Rules!Store

(* The state that a request ends in is good.                                *)
LEMMA FwBecomes ==
    ASSUME FwInv, NEW st \in FwStores, Rules!Becomes(st), st.lastId <= FwMaxId, tool' = tool
    PROVE  FwInv'
<1>1. rows' = st.rows /\ lastId' = st.lastId /\ chain' = st.chain /\ Len(st.chain) <= MaxChain
    BY DEF Rules!Becomes
<1>2. Rules!Store' = st
    BY <1>1 DEF Rules!Store, FwStores
<1>3. /\ tool' \in Tools /\ Rules!Store' \in FwStores
      /\ lastId' <= FwMaxId /\ Len(chain') <= MaxChain
    BY <1>1, <1>2 DEF FwInv
<1> QED
    BY <1>3 DEF FwInv, FwStores, FwTables, FwRow, FwGood, FwOk, FwPorts, FwActs, Rules!Versions, Rules!Spec1

(* What the handlers let through.                                           *)
LEMMA FwAllowed ==
    ASSUME NEW r \in Specs, ~Rules!Blocks(r), r.ver \in Rules!Versions
    PROVE  FwSpec(r)
<1>1. NoPort \notin FwProtected
    BY FirewallAssumption DEF Rules!FirewallBounds
<1>2. FwOk(r)
    BY <1>1 DEF Rules!Blocks, Rules!IsProtectedPort, FwOk
<1>3. r.port \in FwPorts /\ r.act \in FwActs
    BY DEF FwPorts, FwActs
<1>4. Rules!Spec1(r) \in Specs
    BY FirewallAssumption DEF Rules!FirewallBounds, Rules!Spec1
<1> QED
    BY <1>2, <1>3, <1>4 DEF FwSpec

(* The single requests.                                                     *)
LEMMA FwRequests ==
    ASSUME FwInv,
           \/ Rules!HCreateRule \/ Rules!HUpdateRule \/ Rules!HDeleteRule
           \/ Rules!HEnableRule \/ Rules!HDisableRule \/ Rules!ApplyTemplate
    PROVE  FwInv'
<1> DEFINE st == Rules!Store
<1>1. /\ st \in FwStores /\ st.rows = rows /\ st.lastId = lastId
      /\ lastId \in Nat /\ FwMaxId \in Nat /\ lastId <= FwMaxId
    BY FwStore, FwNumbers DEF FwStores
<1> HIDE DEF st
<1>2. CASE Rules!HCreateRule
  <2>1. PICK r \in Specs : \E n \in Rules!Versioned(r) :
          /\ Rules!ValidSpec(r) /\ ~Rules!Blocks(r) /\ lastId < FwMaxId
          /\ Rules!Becomes(Rules!CreateRule(st, r, n)) /\ tool' = tool
      BY <1>2 DEF Rules!HCreateRule, Rules!Untouched, st
  <2>2. FwSpec(r)
      BY <2>1, FwAllowed DEF Rules!ValidSpec
  <2>3. PICK n \in Rules!Versioned(r) : Rules!Becomes(Rules!CreateRule(st, r, n))
      BY <2>1
  <2>4. Rules!CreateRule(st, r, n) \in FwStores /\ Rules!CreateRule(st, r, n).lastId = lastId + 1
      BY <1>1, <2>2, <2>3, FwCreatesRule
  <2>5. lastId + 1 <= FwMaxId
      BY <1>1, <2>1
  <2> QED
      BY <2>1, <2>3, <2>4, <2>5, FwBecomes
<1>3. CASE Rules!HUpdateRule
  <2>1. PICK id \in DOMAIN rows, r \in Specs, ok \in BOOLEAN : \E n \in Rules!Versioned(r) :
          /\ Rules!ValidSpec(r) /\ ~Rules!Blocks(r)
          /\ Rules!Becomes(Rules!UpdateRule(st, id, r, n, ok)) /\ tool' = tool
      BY <1>3 DEF Rules!HUpdateRule, Rules!Untouched, st
  <2>2. FwSpec(r)
      BY <2>1, FwAllowed DEF Rules!ValidSpec
  <2>3. PICK n \in Rules!Versioned(r) : Rules!Becomes(Rules!UpdateRule(st, id, r, n, ok))
      BY <2>1
  <2> QED
      BY <1>1, <2>1, <2>2, <2>3, FwUpdatesRule, FwBecomes
<1>4. CASE Rules!HDeleteRule
  <2>1. PICK id \in DOMAIN rows, ok \in BOOLEAN :
          Rules!Becomes(Rules!DeleteRule(st, id, ok)) /\ tool' = tool
      BY <1>4 DEF Rules!HDeleteRule, Rules!Untouched, st
  <2> QED
      BY <1>1, <2>1, FwDeletesRule, FwBecomes
<1>5. CASE Rules!HEnableRule
  <2>1. PICK id \in DOMAIN rows : \E n \in Rules!Versioned(rows[id]) :
          Rules!Becomes(Rules!EnableRule(st, id, n)) /\ tool' = tool
      BY <1>5 DEF Rules!HEnableRule, Rules!Untouched, st
  <2>2. PICK n \in Rules!Versioned(rows[id]) :
          Rules!Becomes(Rules!EnableRule(st, id, n)) /\ tool' = tool
      BY <2>1
  <2>3. n \in Rules!Versioned(Rules!Spec1(st.rows[id])) /\ id \in DOMAIN st.rows
      BY <1>1, <2>2 DEF Rules!Versioned, Rules!FamiliesOf, Rules!Spec1
  <2> QED
      BY <1>1, <2>2, <2>3, FwEnablesRule, FwBecomes
<1>6. CASE Rules!HDisableRule
  <2>1. PICK id \in DOMAIN rows, ok \in BOOLEAN :
          Rules!Becomes(Rules!DisableRule(st, id, ok)) /\ tool' = tool
      BY <1>6 DEF Rules!HDisableRule, Rules!Untouched, st
  <2> QED
      BY <1>1, <2>1, FwDisablesRule, FwBecomes
<1>7. CASE Rules!ApplyTemplate
  <2>1. PICK r \in Specs : /\ r.ver = "ipv4"
                           /\ \E n \in Rules!Versioned(r) :
                                /\ ~Rules!Blocks(r) /\ lastId < FwMaxId
                                /\ Rules!Becomes(Rules!CreateRule(st, r, n)) /\ tool' = tool
      BY <1>7 DEF Rules!ApplyTemplate, Rules!Untouched, st
  <2>2. FwSpec(r)
      BY <2>1, FwAllowed DEF Rules!Versions
  <2>3. PICK n \in Rules!Versioned(r) :
          Rules!Becomes(Rules!CreateRule(st, r, n)) /\ tool' = tool
      BY <2>1
  <2>4. Rules!CreateRule(st, r, n) \in FwStores /\ Rules!CreateRule(st, r, n).lastId = lastId + 1
      BY <1>1, <2>2, <2>3, FwCreatesRule
  <2>5. lastId + 1 <= FwMaxId
      BY <1>1, <2>1
  <2> QED
      BY <2>3, <2>4, <2>5, FwBecomes
<1> QED
    BY <1>2, <1>3, <1>4, <1>5, <1>6, <1>7

(* The ids a request goes through are those of rows.                        *)
LEMMA FwIds ==
    ASSUME FwInv, NEW S \in SUBSET DOMAIN rows, NEW ids \in Rules!SetToSeqs(S)
    PROVE  ids \in Seq(S)
<1>1. DOMAIN rows \subseteq 1 .. lastId /\ lastId \in Nat
    BY FwStore DEF FwStores
<1>2. IsFiniteSet(1 .. lastId)
    BY <1>1, FS_Interval
<1>3. IsFiniteSet(S)
    BY <1>1, <1>2, FS_Subset
<1>4. Cardinality(S) \in Nat
    BY <1>3, FS_CardinalityType
<1>5. Rules!Cardinality(S) = Cardinality(S)
    BY DEF Rules!Cardinality, Cardinality
<1>6. ids \in [1 .. Cardinality(S) -> S]
    BY <1>5 DEF Rules!SetToSeqs
<1> QED
    BY <1>4, <1>6

(* The bulk requests.                                                       *)
LEMMA FwBulkEnables ==
    ASSUME FwInv, Rules!BulkEnableRules
    PROVE  FwInv'
<1> DEFINE Turn0(st, id) == IF Rules!Blocks(st.rows[id]) THEN st
                            ELSE Rules!EnableRule(st, id, Len(Rules!FamiliesOf(st.rows[id])))
<1>a. PICK ids \in Rules!IdLists :
          Rules!Becomes(Rules!ForEach(Turn0, Rules!Store, ids)) /\ tool' = tool
    BY DEF Rules!BulkEnableRules, Rules!ForEach, Rules!Untouched
<1>b. ids \in Seq(DOMAIN rows)
  <2>1. PICK S \in SUBSET DOMAIN rows : ids \in Rules!SetToSeqs(S)
      BY DEF Rules!IdLists
  <2> QED
      BY <2>1, FwIds
<1> DEFINE n == Len(ids)
           V == {s \in FwStores : DOMAIN s.rows = DOMAIN rows /\ s.lastId = lastId}
           b == Rules!Store
           Turn(i, st) == Turn0(st, ids[i])
           G == [i \in 1 .. n |-> [v \in V |-> Turn(i, v)]]
           F == CHOOSE f : f = [i \in 0 .. n |-> IF i = 0 THEN b ELSE Turn(i, f[i - 1])]
<1>1. n \in Nat /\ b \in V
    BY <1>b, FwStore
<1>2. ASSUME NEW i \in 1 .. n, NEW v \in V PROVE Turn(i, v) \in V
  <2>1. ids[i] \in DOMAIN v.rows /\ v \in FwStores
      BY <1>b
  <2>2. v.rows[ids[i]] \in FwRow
      BY <2>1, FwRows
  <2>3. Len(Rules!FamiliesOf(v.rows[ids[i]])) \in Rules!Versioned(Rules!Spec1(v.rows[ids[i]]))
      BY <2>2 DEF FwRow, Rules!Versions, Rules!Spec1, Rules!FamiliesOf, Rules!Versioned
  <2>4. LET w == Rules!EnableRule(v, ids[i], Len(Rules!FamiliesOf(v.rows[ids[i]])))
        IN w \in FwStores /\ DOMAIN w.rows = DOMAIN v.rows /\ w.lastId = v.lastId
      BY <2>1, <2>3, FwEnablesRule
  <2> QED
      BY <2>4
<1>3. Rules!ForEach(Turn0, Rules!Store, ids) = F[n]
    BY DEF Rules!ForEach
<1> HIDE DEF V, Turn, n, b
<1>4. G \in [1 .. n -> [V -> V]]
    BY <1>2
<1>5. ASSUME NEW f \in [0 .. n -> V], f[0] = b, \A i \in 1 .. n : f[i] = G[i][f[i - 1]]
      PROVE  f = [i \in 0 .. n |-> IF i = 0 THEN b ELSE Turn(i, f[i - 1])]
  <2>1. ASSUME NEW i \in 1 .. n PROVE f[i] = Turn(i, f[i - 1])
    <3>1. f[i - 1] \in V
        BY <1>1
    <3> QED
        BY <1>5, <3>1
  <2>2. \A i \in 0 .. n : f[i] = IF i = 0 THEN b ELSE Turn(i, f[i - 1])
      BY <1>1, <1>5, <2>1
  <2> QED
      BY <2>2
<1>6. ASSUME NEW f, f = [i \in 0 .. n |-> IF i = 0 THEN b ELSE Turn(i, f[i - 1])]
      PROVE  F = [i \in 0 .. n |-> IF i = 0 THEN b ELSE Turn(i, F[i - 1])]
    BY <1>6
<1> HIDE DEF F
<1>7. ASSUME NEW f \in [0 .. n -> V], f[0] = b, \A i \in 1 .. n : f[i] = G[i][f[i - 1]]
      PROVE  F[0] = b /\ \A i \in 1 .. n : F[i - 1] \in V => F[i] = G[i][F[i - 1]]
  <2>1. F = [i \in 0 .. n |-> IF i = 0 THEN b ELSE Turn(i, F[i - 1])]
      BY <1>5, <1>6, <1>7
  <2>2. F[0] = b /\ \A i \in 1 .. n : F[i] = Turn(i, F[i - 1])
      BY <1>1, <2>1
  <2> QED
      BY <2>2
<1> HIDE DEF G
<1>8. LoopOf(V, b, n, G, F)
    BY <1>1, <1>4, <1>7 DEF LoopOf
<1>9. \A i \in 0 .. n : F[i] \in V
    BY <1>8, LoopKeeps
<1>10. F[n] \in FwStores /\ F[n].lastId = lastId /\ lastId <= FwMaxId
    BY <1>1, <1>9, FwStore DEF V
<1> QED
    BY <1>a, <1>3, <1>10, FwBecomes, Zenon

(* BulkDisableRules goes through the ids.                                   *)
LEMMA FwBulkDisables ==
    ASSUME FwInv, Rules!BulkDisableRules
    PROVE  FwInv'
<1> DEFINE Turn0(st, id) == Rules!DisableRule(st, id, TRUE)
<1>a. PICK ids \in Rules!IdLists :
          Rules!Becomes(Rules!ForEach(Turn0, Rules!Store, ids)) /\ tool' = tool
    BY DEF Rules!BulkDisableRules, Rules!ForEach, Rules!Untouched
<1>b. ids \in Seq(DOMAIN rows)
  <2>1. PICK S \in SUBSET DOMAIN rows : ids \in Rules!SetToSeqs(S)
      BY DEF Rules!IdLists
  <2> QED
      BY <2>1, FwIds
<1> DEFINE n == Len(ids)
           V == {s \in FwStores : s.lastId = lastId}
           b == Rules!Store
           Turn(i, st) == Turn0(st, ids[i])
           G == [i \in 1 .. n |-> [v \in V |-> Turn(i, v)]]
           F == CHOOSE f : f = [i \in 0 .. n |-> IF i = 0 THEN b ELSE Turn(i, f[i - 1])]
<1>1. n \in Nat /\ b \in V
    BY <1>b, FwStore
<1>2. ASSUME NEW i \in 1 .. n, NEW v \in V PROVE Turn(i, v) \in V
    BY FwDisablesRule
<1>3. Rules!ForEach(Turn0, Rules!Store, ids) = F[n]
    BY DEF Rules!ForEach
<1> HIDE DEF V, Turn, n, b
<1>4. G \in [1 .. n -> [V -> V]]
    BY <1>2
<1>5. ASSUME NEW f \in [0 .. n -> V], f[0] = b, \A i \in 1 .. n : f[i] = G[i][f[i - 1]]
      PROVE  f = [i \in 0 .. n |-> IF i = 0 THEN b ELSE Turn(i, f[i - 1])]
  <2>1. ASSUME NEW i \in 1 .. n PROVE f[i] = Turn(i, f[i - 1])
    <3>1. f[i - 1] \in V
        BY <1>1
    <3> QED
        BY <1>5, <3>1
  <2>2. \A i \in 0 .. n : f[i] = IF i = 0 THEN b ELSE Turn(i, f[i - 1])
      BY <1>1, <1>5, <2>1
  <2> QED
      BY <2>2
<1>6. ASSUME NEW f, f = [i \in 0 .. n |-> IF i = 0 THEN b ELSE Turn(i, f[i - 1])]
      PROVE  F = [i \in 0 .. n |-> IF i = 0 THEN b ELSE Turn(i, F[i - 1])]
    BY <1>6
<1> HIDE DEF F
<1>7. ASSUME NEW f \in [0 .. n -> V], f[0] = b, \A i \in 1 .. n : f[i] = G[i][f[i - 1]]
      PROVE  F[0] = b /\ \A i \in 1 .. n : F[i - 1] \in V => F[i] = G[i][F[i - 1]]
  <2>1. F = [i \in 0 .. n |-> IF i = 0 THEN b ELSE Turn(i, F[i - 1])]
      BY <1>5, <1>6, <1>7
  <2>2. F[0] = b /\ \A i \in 1 .. n : F[i] = Turn(i, F[i - 1])
      BY <1>1, <2>1
  <2> QED
      BY <2>2
<1> HIDE DEF G
<1>8. LoopOf(V, b, n, G, F)
    BY <1>1, <1>4, <1>7 DEF LoopOf
<1>9. \A i \in 0 .. n : F[i] \in V
    BY <1>8, LoopKeeps
<1>10. F[n] \in FwStores /\ F[n].lastId = lastId /\ lastId <= FwMaxId
    BY <1>1, <1>9, FwStore DEF V
<1> QED
    BY <1>a, <1>3, <1>10, FwBecomes, Zenon

(* BulkDeleteRules goes through the ids.                                    *)
LEMMA FwBulkDeletes ==
    ASSUME FwInv, Rules!BulkDeleteRules
    PROVE  FwInv'
<1> DEFINE Turn0(st, id) == Rules!DeleteRule(st, id, TRUE)
<1>a. PICK ids \in Rules!IdLists :
          Rules!Becomes(Rules!ForEach(Turn0, Rules!Store, ids)) /\ tool' = tool
    BY DEF Rules!BulkDeleteRules, Rules!ForEach, Rules!Untouched
<1>b. ids \in Seq(DOMAIN rows)
  <2>1. PICK S \in SUBSET DOMAIN rows : ids \in Rules!SetToSeqs(S)
      BY DEF Rules!IdLists
  <2> QED
      BY <2>1, FwIds
<1> DEFINE n == Len(ids)
           V == {s \in FwStores : s.lastId = lastId}
           b == Rules!Store
           Turn(i, st) == Turn0(st, ids[i])
           G == [i \in 1 .. n |-> [v \in V |-> Turn(i, v)]]
           F == CHOOSE f : f = [i \in 0 .. n |-> IF i = 0 THEN b ELSE Turn(i, f[i - 1])]
<1>1. n \in Nat /\ b \in V
    BY <1>b, FwStore
<1>2. ASSUME NEW i \in 1 .. n, NEW v \in V PROVE Turn(i, v) \in V
    BY FwDeletesRule
<1>3. Rules!ForEach(Turn0, Rules!Store, ids) = F[n]
    BY DEF Rules!ForEach
<1> HIDE DEF V, Turn, n, b
<1>4. G \in [1 .. n -> [V -> V]]
    BY <1>2
<1>5. ASSUME NEW f \in [0 .. n -> V], f[0] = b, \A i \in 1 .. n : f[i] = G[i][f[i - 1]]
      PROVE  f = [i \in 0 .. n |-> IF i = 0 THEN b ELSE Turn(i, f[i - 1])]
  <2>1. ASSUME NEW i \in 1 .. n PROVE f[i] = Turn(i, f[i - 1])
    <3>1. f[i - 1] \in V
        BY <1>1
    <3> QED
        BY <1>5, <3>1
  <2>2. \A i \in 0 .. n : f[i] = IF i = 0 THEN b ELSE Turn(i, f[i - 1])
      BY <1>1, <1>5, <2>1
  <2> QED
      BY <2>2
<1>6. ASSUME NEW f, f = [i \in 0 .. n |-> IF i = 0 THEN b ELSE Turn(i, f[i - 1])]
      PROVE  F = [i \in 0 .. n |-> IF i = 0 THEN b ELSE Turn(i, F[i - 1])]
    BY <1>6
<1> HIDE DEF F
<1>7. ASSUME NEW f \in [0 .. n -> V], f[0] = b, \A i \in 1 .. n : f[i] = G[i][f[i - 1]]
      PROVE  F[0] = b /\ \A i \in 1 .. n : F[i - 1] \in V => F[i] = G[i][F[i - 1]]
  <2>1. F = [i \in 0 .. n |-> IF i = 0 THEN b ELSE Turn(i, F[i - 1])]
      BY <1>5, <1>6, <1>7
  <2>2. F[0] = b /\ \A i \in 1 .. n : F[i] = Turn(i, F[i - 1])
      BY <1>1, <2>1
  <2> QED
      BY <2>2
<1> HIDE DEF G
<1>8. LoopOf(V, b, n, G, F)
    BY <1>1, <1>4, <1>7 DEF LoopOf
<1>9. \A i \in 0 .. n : F[i] \in V
    BY <1>8, LoopKeeps
<1>10. F[n] \in FwStores /\ F[n].lastId = lastId /\ lastId <= FwMaxId
    BY <1>1, <1>9, FwStore DEF V
<1> QED
    BY <1>a, <1>3, <1>10, FwBecomes, Zenon

(* ImportRules goes through the rules of a file.                            *)
LEMMA FwImports ==
    ASSUME FwInv, Rules!ImportRules
    PROVE  FwInv'
<1> DEFINE Turn0(st, r) == IF Rules!ValidSpec(r) /\ ~Rules!Blocks(r)
                           THEN Rules!CreateRule(st, r, Len(Rules!FamiliesOf(r))) ELSE st
<1>a. PICK m \in 1 .. 2 : \E list \in [1 .. m -> Specs] :
          /\ Rules!Becomes(Rules!ForEach(Turn0, Rules!Store, list)) /\ tool' = tool
          /\ lastId' <= FwMaxId
    BY DEF Rules!ImportRules, Rules!ForEach, Rules!Untouched
<1>b. PICK ids \in [1 .. m -> Specs] :
          /\ Rules!Becomes(Rules!ForEach(Turn0, Rules!Store, ids)) /\ tool' = tool
          /\ lastId' <= FwMaxId
    BY <1>a, Zenon
<1>c. ids \in Seq(Specs)
    OBVIOUS
<1> DEFINE n == Len(ids)
           V == FwStores
           b == Rules!Store
           Turn(i, st) == Turn0(st, ids[i])
           G == [i \in 1 .. n |-> [v \in V |-> Turn(i, v)]]
           F == CHOOSE f : f = [i \in 0 .. n |-> IF i = 0 THEN b ELSE Turn(i, f[i - 1])]
<1>1. n \in Nat /\ b \in V
    BY <1>c, FwStore
<1>2. ASSUME NEW i \in 1 .. n, NEW v \in V PROVE Turn(i, v) \in V
  <2>1. ids[i] \in Specs
      BY <1>c
  <2>2. ASSUME Rules!ValidSpec(ids[i]), ~Rules!Blocks(ids[i])
        PROVE  Rules!CreateRule(v, ids[i], Len(Rules!FamiliesOf(ids[i]))) \in FwStores
    <3>1. FwSpec(ids[i])
        BY <2>1, <2>2, FwAllowed DEF Rules!ValidSpec
    <3> QED
        BY <3>1, FwAll, FwCreatesRule
  <2> QED
      BY <2>2
<1>3. Rules!ForEach(Turn0, Rules!Store, ids) = F[n]
    BY DEF Rules!ForEach
<1> HIDE DEF V, Turn, n, b
<1>4. G \in [1 .. n -> [V -> V]]
    BY <1>2
<1>5. ASSUME NEW f \in [0 .. n -> V], f[0] = b, \A i \in 1 .. n : f[i] = G[i][f[i - 1]]
      PROVE  f = [i \in 0 .. n |-> IF i = 0 THEN b ELSE Turn(i, f[i - 1])]
  <2>1. ASSUME NEW i \in 1 .. n PROVE f[i] = Turn(i, f[i - 1])
    <3>1. f[i - 1] \in V
        BY <1>1
    <3> QED
        BY <1>5, <3>1
  <2>2. \A i \in 0 .. n : f[i] = IF i = 0 THEN b ELSE Turn(i, f[i - 1])
      BY <1>1, <1>5, <2>1
  <2> QED
      BY <2>2
<1>6. ASSUME NEW f, f = [i \in 0 .. n |-> IF i = 0 THEN b ELSE Turn(i, f[i - 1])]
      PROVE  F = [i \in 0 .. n |-> IF i = 0 THEN b ELSE Turn(i, F[i - 1])]
    BY <1>6
<1> HIDE DEF F
<1>7. ASSUME NEW f \in [0 .. n -> V], f[0] = b, \A i \in 1 .. n : f[i] = G[i][f[i - 1]]
      PROVE  F[0] = b /\ \A i \in 1 .. n : F[i - 1] \in V => F[i] = G[i][F[i - 1]]
  <2>1. F = [i \in 0 .. n |-> IF i = 0 THEN b ELSE Turn(i, F[i - 1])]
      BY <1>5, <1>6, <1>7
  <2>2. F[0] = b /\ \A i \in 1 .. n : F[i] = Turn(i, F[i - 1])
      BY <1>1, <2>1
  <2> QED
      BY <2>2
<1> HIDE DEF G
<1>8. LoopOf(V, b, n, G, F)
    BY <1>1, <1>4, <1>7 DEF LoopOf
<1>9. \A i \in 0 .. n : F[i] \in V
    BY <1>8, LoopKeeps
<1>10. F[n] \in FwStores
    BY <1>1, <1>9 DEF V
<1>11. Rules!Becomes(F[n]) /\ tool' = tool /\ lastId' <= FwMaxId
    BY <1>b, <1>3, Zenon
<1>12. F[n].lastId <= FwMaxId
    BY <1>11 DEF Rules!Becomes
<1> QED
    BY <1>10, <1>11, <1>12, FwBecomes, Zenon

(* EnableFirewall applies every enabled row again.                          *)
LEMMA FwReenables ==
    ASSUME FwInv, Rules!EnableFirewall
    PROVE  FwInv'
<1> DEFINE Turn0(st, id) == IF rows[id].on
                            THEN Rules!applyRule(st, Rules!Spec1(rows[id]),
                                                 Len(Rules!FamiliesOf(rows[id])))
                            ELSE st
<1>0. CASE tool = "ufw"
  <2>1. UNCHANGED <<tool, rows, lastId, chain>>
      BY <1>0 DEF Rules!EnableFirewall
  <2> QED
      BY <2>1 DEF FwInv, Rules!Store, FwStores, FwTables, FwRow, FwGood, FwOk, FwPorts,
         FwActs, Rules!Versions, Rules!Spec1
<1>d. CASE tool # "ufw"
  <2>a. PICK ids \in Rules!ListRules :
            Rules!Becomes(Rules!ForEach(Turn0, Rules!Store, ids)) /\ tool' = tool
      BY <1>d DEF Rules!EnableFirewall, Rules!ForEach
  <2>b. ids \in Seq(DOMAIN rows)
      BY FwIds DEF Rules!ListRules
  <2> DEFINE n == Len(ids)
             V == {s \in FwStores : s.lastId = lastId}
             b == Rules!Store
             Turn(i, st) == Turn0(st, ids[i])
             G == [i \in 1 .. n |-> [v \in V |-> Turn(i, v)]]
             F == CHOOSE f : f = [i \in 0 .. n |-> IF i = 0 THEN b ELSE Turn(i, f[i - 1])]
  <2>1. n \in Nat /\ b \in V
      BY <2>b, FwStore
  <2>2. ASSUME NEW i \in 1 .. n, NEW v \in V PROVE Turn(i, v) \in V
    <3>1. ids[i] \in DOMAIN rows
        BY <2>b
    <3>2. FwSpec(Rules!Spec1(rows[ids[i]]))
        BY <3>1, FwStore, FwRows
    <3>3. Len(Rules!FamiliesOf(rows[ids[i]])) \in Rules!Versioned(Rules!Spec1(rows[ids[i]]))
        BY <3>2, FwAll DEF Rules!Spec1, Rules!FamiliesOf
    <3>4. Rules!applyRule(v, Rules!Spec1(rows[ids[i]]), Len(Rules!FamiliesOf(rows[ids[i]])))
            \in {s \in FwStores : s.lastId = v.lastId}
        BY <3>2, <3>3, FwApplies
    <3> QED
        BY <3>4
  <2>3. Rules!ForEach(Turn0, Rules!Store, ids) = F[n]
      BY DEF Rules!ForEach
  <2> HIDE DEF V, Turn, n, b
  <2>4. G \in [1 .. n -> [V -> V]]
      BY <2>2
  <2>5. ASSUME NEW f \in [0 .. n -> V], f[0] = b, \A i \in 1 .. n : f[i] = G[i][f[i - 1]]
        PROVE  f = [i \in 0 .. n |-> IF i = 0 THEN b ELSE Turn(i, f[i - 1])]
    <3>1. ASSUME NEW i \in 1 .. n PROVE f[i] = Turn(i, f[i - 1])
      <4>1. f[i - 1] \in V
          BY <2>1
      <4> QED
          BY <2>5, <4>1
    <3>2. \A i \in 0 .. n : f[i] = IF i = 0 THEN b ELSE Turn(i, f[i - 1])
        BY <2>1, <2>5, <3>1
    <3> QED
        BY <3>2
  <2>6. ASSUME NEW f, f = [i \in 0 .. n |-> IF i = 0 THEN b ELSE Turn(i, f[i - 1])]
        PROVE  F = [i \in 0 .. n |-> IF i = 0 THEN b ELSE Turn(i, F[i - 1])]
      BY <2>6
  <2> HIDE DEF F
  <2>7. ASSUME NEW f \in [0 .. n -> V], f[0] = b, \A i \in 1 .. n : f[i] = G[i][f[i - 1]]
        PROVE  F[0] = b /\ \A i \in 1 .. n : F[i - 1] \in V => F[i] = G[i][F[i - 1]]
    <3>1. F = [i \in 0 .. n |-> IF i = 0 THEN b ELSE Turn(i, F[i - 1])]
        BY <2>5, <2>6, <2>7
    <3>2. F[0] = b /\ \A i \in 1 .. n : F[i] = Turn(i, F[i - 1])
        BY <2>1, <3>1
    <3> QED
        BY <3>2
  <2> HIDE DEF G
  <2>8. LoopOf(V, b, n, G, F)
      BY <2>1, <2>4, <2>7 DEF LoopOf
  <2>9. \A i \in 0 .. n : F[i] \in V
      BY <2>8, LoopKeeps
  <2>10. F[n] \in FwStores /\ F[n].lastId = lastId /\ lastId <= FwMaxId
      BY <2>1, <2>9, FwStore DEF V
  <2> QED
      BY <2>a, <2>3, <2>10, FwBecomes, Zenon
<1> QED
    BY <1>0, <1>d

(* Before a DROP policy the protected ports get a rule that accepts them.   *)
LEMMA FwListed ==
    Rules!SetToSeq(FwProtected) \in Seq(FwProtected)
<1>1. IsFiniteSet(FwProtected)
    BY FirewallAssumption DEF Rules!FirewallBounds, Rules!IsFiniteSet, IsFiniteSet
<1>2. Cardinality(FwProtected) \in Nat
    BY <1>1, FS_CardinalityType
<1>3. Rules!Cardinality(FwProtected) = Cardinality(FwProtected)
    BY DEF Rules!Cardinality, Cardinality
<1> DEFINE k == Cardinality(FwProtected)
<1>4. \E f \in [1 .. k -> FwProtected] : Rules!IsInjective(f)
  <2>1. ExistsBijection(1 .. k, FwProtected)
      BY <1>1, FS_CardinalityType
  <2>2. PICK f : f \in Bijection(1 .. k, FwProtected)
      BY <2>1 DEF ExistsBijection
  <2>3. f \in [1 .. k -> FwProtected] /\ IsInjective(f)
      BY <2>2 DEF Bijection, Injection
  <2> QED
      BY <2>3 DEF IsInjective, Rules!IsInjective
<1> HIDE DEF k
<1>5. Rules!SetToSeq(FwProtected) = CHOOSE f \in [1 .. k -> FwProtected] : Rules!IsInjective(f)
    BY <1>3 DEF Rules!SetToSeq, k
<1>6. Rules!SetToSeq(FwProtected) \in [1 .. k -> FwProtected]
    BY <1>4, <1>5
<1> QED
    BY <1>2, <1>6 DEF k

(* Each of them is added at most once, accepting.                           *)
LEMMA FwProtects ==
    ASSUME FwInv, NEW c \in Seq(FwGood), NEW ok
    PROVE  Rules!ensureProtectedPortsBeforeDrop(c, ok) \in Seq(FwGood)
<1> DEFINE ids == Rules!SetToSeq(FwProtected)
           Turn0(acc, p) == IF ~ok \/ Rules!hasAcceptRuleForPort(acc, p) THEN acc
                            ELSE Rules!addAcceptRuleForPort(acc, p)
           n == Len(ids)
           V == Seq(FwGood)
           b == c
           Turn(i, v) == Turn0(v, ids[i])
           G == [i \in 1 .. n |-> [v \in V |-> Turn(i, v)]]
           F == CHOOSE f : f = [i \in 0 .. n |-> IF i = 0 THEN b ELSE Turn(i, f[i - 1])]
<1>1. n \in Nat /\ b \in V
    BY FwListed
<1>2. ASSUME NEW i \in 1 .. n, NEW v \in V PROVE Turn(i, v) \in V
  <2>1. ids[i] \in FwProtected
      BY FwListed
  <2> DEFINE p == ids[i]
             e(fam) == [port |-> p, act |-> "ACCEPT", fam |-> fam]
  <2>2. e("ipv6") \in FwGood /\ e("ipv4") \in FwGood /\ e("any") \in FwGood
      BY <2>1 DEF FwGood, FwPorts, FwActs, FwOk
  <2>3. \/ Rules!addAcceptRuleForPort(v, p) = <<e("ipv6"), e("ipv4")>> \o v
        \/ Rules!addAcceptRuleForPort(v, p) = Append(v, e("any"))
        \/ Rules!addAcceptRuleForPort(v, p) = v
      BY FwTool DEF Rules!addAcceptRuleForPort, Rules!applyUfwRule
  <2>4. Rules!addAcceptRuleForPort(v, p) \in V
    <3> HIDE DEF e
    <3>1. <<e("ipv6"), e("ipv4")>> \in Seq(FwGood)
        BY <2>2
    <3>2. <<e("ipv6"), e("ipv4")>> \o v \in Seq(FwGood)
        BY ONLY <3>1, v \in Seq(FwGood)
    <3>3. Append(v, e("any")) \in Seq(FwGood)
        BY <2>2
    <3> QED
        BY <2>3, <3>2, <3>3
  <2> HIDE DEF V, p
  <2> QED
      BY <2>4 DEF p
<1>3. Rules!ensureProtectedPortsBeforeDrop(c, ok) = F[n]
    BY DEF Rules!ensureProtectedPortsBeforeDrop, Rules!ForEach
<1> HIDE DEF V, Turn, n, b
<1>4. G \in [1 .. n -> [V -> V]]
    BY <1>2
<1>5. ASSUME NEW f \in [0 .. n -> V], f[0] = b, \A i \in 1 .. n : f[i] = G[i][f[i - 1]]
      PROVE  f = [i \in 0 .. n |-> IF i = 0 THEN b ELSE Turn(i, f[i - 1])]
  <2>1. ASSUME NEW i \in 1 .. n PROVE f[i] = Turn(i, f[i - 1])
    <3>1. f[i - 1] \in V
        BY <1>1
    <3> QED
        BY <1>5, <3>1
  <2>2. \A i \in 0 .. n : f[i] = IF i = 0 THEN b ELSE Turn(i, f[i - 1])
      BY <1>1, <1>5, <2>1
  <2> QED
      BY <2>2
<1>6. ASSUME NEW f, f = [i \in 0 .. n |-> IF i = 0 THEN b ELSE Turn(i, f[i - 1])]
      PROVE  F = [i \in 0 .. n |-> IF i = 0 THEN b ELSE Turn(i, F[i - 1])]
    BY <1>6
<1> HIDE DEF F
<1>7. ASSUME NEW f \in [0 .. n -> V], f[0] = b, \A i \in 1 .. n : f[i] = G[i][f[i - 1]]
      PROVE  F[0] = b /\ \A i \in 1 .. n : F[i - 1] \in V => F[i] = G[i][F[i - 1]]
  <2>1. F = [i \in 0 .. n |-> IF i = 0 THEN b ELSE Turn(i, F[i - 1])]
      BY <1>5, <1>6, <1>7
  <2>2. F[0] = b /\ \A i \in 1 .. n : F[i] = Turn(i, F[i - 1])
      BY <1>1, <2>1
  <2> QED
      BY <2>2
<1> HIDE DEF G
<1>8. LoopOf(V, b, n, G, F)
    BY <1>1, <1>4, <1>7 DEF LoopOf
<1>9. \A i \in 0 .. n : F[i] \in V
    BY <1>8, LoopKeeps
<1> QED
    BY <1>1, <1>3, <1>9 DEF V

(* The rules of the tool change and the rows do not.                        *)
LEMMA FwRetools ==
    ASSUME FwInv, chain' \in Seq(FwGood), Len(chain') <= MaxChain, UNCHANGED <<tool, rows, lastId>>
    PROVE  FwInv'
<1>1. Rules!Store' = [Rules!Store EXCEPT !.chain = chain']
    BY DEF Rules!Store
<1>2. tool' \in Tools /\ Rules!Store' \in FwStores
    BY <1>1, FwStore, FwChains DEF FwInv
<1> QED
    BY <1>2 DEF FwInv, FwStores, FwTables, FwRow, FwGood, FwOk, FwPorts, FwActs, Rules!Versions, Rules!Spec1

(* A policy is set, by a request or by the verification.                    *)
LEMMA FwPoliced ==
    ASSUME FwInv, NEW p, NEW ok, NEW pending, Rules!Policed(p, ok, pending)
    PROVE  FwInv'
<1>1. chain \in Seq(FwGood)
    BY DEF FwInv, FwStores, Rules!Store
<1>2. /\ \/ chain' = chain
         \/ chain' = Rules!ensureProtectedPortsBeforeDrop(chain, ok)
      /\ UNCHANGED <<tool, rows, lastId>> /\ Len(chain') <= MaxChain
    BY DEF Rules!Policed
<1>3. chain' \in Seq(FwGood)
    BY <1>1, <1>2, FwProtects
<1> QED
    BY <1>2, <1>3, FwRetools

(* MoveRuleUp and MoveRuleDown swap two priorities.                         *)
LEMMA FwMoves ==
    ASSUME FwInv, NEW a \in DOMAIN rows, NEW d \in DOMAIN rows, Rules!Move(a, d)
    PROVE  FwInv'
<1> DEFINE pri(i) == IF i = d THEN rows[a].prio ELSE IF i = a THEN rows[d].prio ELSE rows[i].prio
           row(i) == [rows[i] EXCEPT !.prio = pri(i)]
           new == [i \in DOMAIN rows |-> row(i)]
<1>1. PICK D \in SUBSET Nat : rows \in [D -> FwRow]
    BY DEF FwInv, FwStores, FwTables, Rules!Store
<1>2. \A i \in D : pri(i) \in Nat
    BY <1>1 DEF FwRow
<1>3. ASSUME NEW i \in D PROVE row(i) \in FwRow
  <2> HIDE DEF pri
  <2> QED
    BY <1>1, <1>2 DEF FwRow, FwOk, Rules!Spec1
<1>4. rows' = new /\ UNCHANGED <<tool, lastId, chain>>
    BY <1>1 DEF Rules!Move, Rules!SwapPriorities, Rules!Untouched, FwRow
<1> HIDE DEF row
<1>5. new \in [D -> FwRow]
    BY <1>1, <1>3
<1>6. new \in FwTables /\ DOMAIN new \subseteq 1 .. lastId
    BY <1>1, <1>5, FwStore DEF FwTables, FwStores
<1> HIDE DEF new
<1>7. /\ Rules!Store' \in FwStores /\ tool' \in Tools
      /\ lastId' <= FwMaxId /\ Len(chain') <= MaxChain
    BY <1>4, <1>6 DEF FwInv, FwStores, Rules!Store
<1> QED
    BY <1>7 DEF FwInv, FwStores, FwTables, FwRow, FwGood, FwOk, FwPorts, FwActs, Rules!Versions, Rules!Spec1

(* Nothing happens to the rules.                                            *)
LEMMA FwStutter ==
    ASSUME FwInv, UNCHANGED <<tool, rows, lastId, chain>>
    PROVE  FwInv'
BY DEF FwInv, Rules!Store, FwStores, FwTables, FwRow, FwGood, FwOk, FwPorts, FwActs, Rules!Versions, Rules!Spec1

(* Every step of the firewall keeps the invariant.                          *)
LEMMA FwStep ==
    ASSUME FwInv, Rules!Next
    PROVE  FwInv'
<1>1. CASE \/ Rules!HCreateRule \/ Rules!HUpdateRule \/ Rules!HDeleteRule
           \/ Rules!HEnableRule \/ Rules!HDisableRule \/ Rules!ApplyTemplate
    BY <1>1, FwRequests
<1>2. CASE Rules!BulkEnableRules
    BY <1>2, FwBulkEnables
<1>3. CASE Rules!BulkDisableRules
    BY <1>3, FwBulkDisables
<1>4. CASE Rules!BulkDeleteRules
    BY <1>4, FwBulkDeletes
<1>5. CASE Rules!ImportRules
    BY <1>5, FwImports
<1>6. CASE Rules!EnableFirewall
    BY <1>6, FwReenables
<1>7. CASE Rules!MoveRuleUp
  <2>1. PICK ids \in Rules!ListRules : \E i \in 2 .. Len(ids) : Rules!Move(ids[i], ids[i - 1])
      BY <1>7 DEF Rules!MoveRuleUp
  <2>2. ids \in Seq(DOMAIN rows)
      BY FwIds DEF Rules!ListRules
  <2>3. PICK i \in 2 .. Len(ids) : Rules!Move(ids[i], ids[i - 1])
      BY <2>1
  <2>4. ids[i] \in DOMAIN rows /\ ids[i - 1] \in DOMAIN rows
      BY <2>2
  <2> QED
      BY <2>3, <2>4, FwMoves
<1>8. CASE Rules!MoveRuleDown
  <2>1. PICK ids \in Rules!ListRules : \E i \in 1 .. Len(ids) - 1 : Rules!Move(ids[i], ids[i + 1])
      BY <1>8 DEF Rules!MoveRuleDown
  <2>2. ids \in Seq(DOMAIN rows)
      BY FwIds DEF Rules!ListRules
  <2>3. PICK i \in 1 .. Len(ids) - 1 : Rules!Move(ids[i], ids[i + 1])
      BY <2>1
  <2>4. ids[i] \in DOMAIN rows /\ ids[i + 1] \in DOMAIN rows
      BY <2>2
  <2> QED
      BY <2>3, <2>4, FwMoves
<1>9. CASE Rules!DeleteSystemRule
  <2>1. PICK e \in Rules!GetSystemRules :
            /\ chain' = Rules!removeRule(chain, Rules!ParsedRule(e)).chain
            /\ UNCHANGED <<tool, rows, lastId>>
      BY <1>9 DEF Rules!DeleteSystemRule, Rules!Untouched
  <2>2. chain \in Seq(FwGood) /\ Len(chain) <= MaxChain
      BY DEF FwInv, FwStores, Rules!Store
  <2>3. chain' \in Seq(FwGood) /\ Len(chain') <= Len(chain)
      BY <2>1, <2>2, FwRemoves
  <2>4. Len(chain') <= MaxChain
      BY <2>2, <2>3, FwNumbers
  <2> QED
      BY <2>1, <2>3, <2>4, FwRetools
<1>10. CASE Rules!DisableFirewall
  <2>1. (chain' = chain \/ chain' = <<>>) /\ UNCHANGED <<tool, rows, lastId>>
      BY <1>10 DEF Rules!DisableFirewall
  <2>2. chain \in Seq(FwGood) /\ Len(chain) <= MaxChain
      BY DEF FwInv, FwStores, Rules!Store
  <2>3. <<>> \in Seq(FwGood) /\ Len(<<>>) <= MaxChain
      BY FwNumbers
  <2>4. chain' \in Seq(FwGood) /\ Len(chain') <= MaxChain
      BY ONLY <2>1, <2>2, <2>3, Zenon
  <2> QED
      BY <2>1, <2>4, FwRetools
<1>11. CASE Rules!SetDefaultPolicy
    BY <1>11, FwPoliced DEF Rules!SetDefaultPolicy
<1>12. CASE \E old \in Rules!Policies : Rules!verifyAndRollback(old)
  <2>1. PICK old : Rules!verifyAndRollback(old)
      BY <1>12
  <2>2. \/ UNCHANGED <<tool, rows, lastId, chain>>
        \/ \E rest : Rules!Policed(old, TRUE, rest)
      BY <2>1 DEF Rules!verifyAndRollback
  <2> QED
      BY <2>2, FwPoliced, FwStutter
<1> QED
    BY <1>1, <1>2, <1>3, <1>4, <1>5, <1>6, <1>7, <1>8, <1>9, <1>10, <1>11, <1>12 DEF Rules!Next

(* What the invariant says of the tool's rules.                             *)
LEMMA FwShows ==
    ASSUME FwInv
    PROVE  Rules!NeverBlocksProtected
<1>1. chain \in Seq(FwGood)
    BY DEF FwInv, FwStores, Rules!Store
<1>2. \A i \in DOMAIN chain : chain[i] \in FwGood
    BY <1>1
<1> QED
    BY <1>2 DEF Rules!NeverBlocksProtected, FwGood, FwOk

(* The rest of what a state of the firewall is made of.                     *)
FwMore ==
    /\ fwActive \in BOOLEAN /\ policy \in Rules!Policies
    /\ fwFaults \in 0 .. FwMaxFaults
    /\ checks \in [Rules!Policies -> 0 .. MaxChecks]

(* It holds at the start.                                                   *)
LEMMA FwMoreInit == Init => FwMore
<1> SUFFICES ASSUME Init PROVE FwMore
    OBVIOUS
<1>1. /\ fwActive = FALSE /\ policy = "ACCEPT" /\ fwFaults = 0
      /\ checks = [o \in Rules!Policies |-> 0]
    BY DEF Init, Rules!Init
<1>2. fwActive \in BOOLEAN
    BY <1>1, Zenon
<1> QED
    BY <1>1, <1>2, FwNumbers DEF FwMore, Rules!Policies

(* It holds on while nothing happens.                                       *)
LEMMA FwMoreStutter ==
    ASSUME FwMore, UNCHANGED <<fwActive, policy, checks, fwFaults>>
    PROVE  FwMore'
BY DEF FwMore, Rules!Policies

(* A command that fails is counted.                                         *)
FwCounted == fwFaults' \in 0 .. FwMaxFaults

(* It is counted within the bound.                                          *)
LEMMA FwFailing ==
    ASSUME FwMore, NEW b, Rules!Fails(b)
    PROVE  FwCounted
<1>1. \/ fwFaults' = fwFaults
      \/ fwFaults' = fwFaults + 1 /\ fwFaults < FwMaxFaults
    BY DEF Rules!Fails
<1> QED
    BY <1>1, FwNumbers DEF FwMore, FwCounted

(* A request that leaves the policy alone.                                  *)
LEMMA FwPlain ==
    ASSUME FwMore, Rules!Untouched, FwCounted, fwActive' \in BOOLEAN
    PROVE  FwMore'
BY DEF FwMore, Rules!Untouched, Rules!Policies, FwCounted

(* The tool is active or not.                                               *)
LEMMA FwAwake ==
    ASSUME FwMore, Rules!TableMade \/ UNCHANGED fwActive
    PROVE  fwActive' \in BOOLEAN
<1>1. CASE Rules!TableMade
    BY <1>1, Zenon DEF Rules!TableMade
<1>2. CASE UNCHANGED fwActive
    BY <1>2, Zenon DEF FwMore
<1> QED
    BY <1>1, <1>2

(* No command fails.                                                        *)
LEMMA FwSame ==
    ASSUME FwMore, UNCHANGED fwFaults
    PROVE  FwCounted
BY DEF FwMore, FwCounted

(* The policy and the verifications that wait.                              *)
LEMMA FwWatched ==
    ASSUME FwMore, NEW p \in Rules!Policies, NEW ok,
           NEW pending \in [Rules!Policies -> Nat], Rules!Policed(p, ok, pending), FwCounted
    PROVE  FwMore'
<1> DEFINE P == Rules!Policies
<1>1. /\ policy' = p
      /\ \/ checks' = pending
         \/ checks' = [pending EXCEPT ![policy] = @ + 1]
      /\ \A o \in P : checks'[o] <= MaxChecks
    BY DEF Rules!Policed, Rules!ApplyDefaultPolicy
<1>2. fwActive' \in BOOLEAN
  <2>1. fwActive' = (fwActive \/ tool = "nft")
      BY DEF Rules!Policed, Rules!ApplyDefaultPolicy
  <2> QED
      BY ONLY <2>1, Zenon
<1>3. policy \in P
    BY DEF FwMore
<1> HIDE DEF P
<1>4. checks' \in [P -> Nat]
  <2>1. pending \in [P -> Nat]
      BY DEF P
  <2>2. CASE checks' = pending
      BY <2>1, <2>2
  <2>3. CASE checks' = [pending EXCEPT ![policy] = @ + 1]
      BY ONLY <2>1, <2>3, <1>3
  <2> QED
      BY <1>1, <2>2, <2>3
<1>5. checks' \in [P -> 0 .. MaxChecks]
    BY ONLY <1>1, <1>4, FwNumbers
<1> QED
    BY <1>1, <1>2, <1>5 DEF FwMore, FwCounted, Rules!Policies, P

(* Every step of the firewall keeps it.                                     *)
LEMMA FwMoreStep ==
    ASSUME FwMore, Rules!Next
    PROVE  FwMore'
<1>0. UNCHANGED fwFaults => FwCounted
    BY FwSame
<1>1. CASE Rules!HCreateRule \/ Rules!ApplyTemplate \/ Rules!HEnableRule
  <2>1. Rules!Untouched /\ Rules!TableMade /\ \E b : Rules!Fails(b)
      BY <1>1 DEF Rules!HCreateRule, Rules!ApplyTemplate, Rules!HEnableRule
  <2> QED
      BY <2>1, FwFailing, FwAwake, FwPlain
<1>2. CASE Rules!HUpdateRule
  <2>1. PICK id : Rules!Untouched /\ (\E b : Rules!Fails(b))
                  /\ fwActive' = (fwActive \/ (tool = "nft" /\ rows[id].on))
      BY <1>2 DEF Rules!HUpdateRule
  <2>2. fwActive' \in BOOLEAN
      BY ONLY <2>1, Zenon
  <2> QED
      BY <2>1, <2>2, FwFailing, FwPlain
<1>3. CASE Rules!HDeleteRule \/ Rules!HDisableRule
  <2>1. Rules!Untouched /\ UNCHANGED fwActive /\ \E b : Rules!Fails(b)
      BY <1>3 DEF Rules!HDeleteRule, Rules!HDisableRule
  <2> QED
      BY <2>1, FwFailing, FwAwake, FwPlain
<1>4. CASE \/ Rules!MoveRuleUp \/ Rules!MoveRuleDown \/ Rules!DeleteSystemRule
           \/ Rules!BulkDisableRules \/ Rules!BulkDeleteRules
  <2>1. Rules!Untouched /\ UNCHANGED <<fwActive, fwFaults>>
    <3>1. CASE Rules!MoveRuleUp \/ Rules!MoveRuleDown
        BY <3>1 DEF Rules!MoveRuleUp, Rules!MoveRuleDown, Rules!Move
    <3>2. CASE Rules!DeleteSystemRule
        BY <3>2 DEF Rules!DeleteSystemRule
    <3>3. CASE Rules!BulkDisableRules \/ Rules!BulkDeleteRules
        BY <3>3 DEF Rules!BulkDisableRules, Rules!BulkDeleteRules
    <3> QED
        BY <1>4, <3>1, <3>2, <3>3
  <2> QED
      BY <2>1, <1>0, FwAwake, FwPlain
<1>5. CASE Rules!BulkEnableRules
  <2>1. Rules!Untouched /\ Rules!TableMade /\ UNCHANGED fwFaults
      BY <1>5 DEF Rules!BulkEnableRules
  <2> QED
      BY <2>1, <1>0, FwAwake, FwPlain
<1>6. CASE Rules!ImportRules
  <2>1. Rules!Untouched /\ UNCHANGED fwFaults
      BY <1>6 DEF Rules!ImportRules
  <2>2. PICK x : fwActive' = (fwActive \/ (tool = "nft" /\ x))
      BY <1>6, Zenon DEF Rules!ImportRules
  <2>3. fwActive' \in BOOLEAN
      BY ONLY <2>2, Zenon
  <2> QED
      BY <2>1, <2>3, <1>0, FwPlain
<1>7. CASE Rules!EnableFirewall
  <2>1. fwActive' = TRUE /\ UNCHANGED <<policy, checks, fwFaults>>
      BY <1>7 DEF Rules!EnableFirewall
  <2>2. fwActive' \in BOOLEAN
      BY ONLY <2>1, Zenon
  <2> QED
      BY <2>1, <2>2 DEF FwMore, Rules!Policies
<1>8. CASE Rules!DisableFirewall
  <2>1. fwActive' = FALSE /\ UNCHANGED <<checks, fwFaults>>
      BY <1>8 DEF Rules!DisableFirewall
  <2>2. fwActive' \in BOOLEAN
      BY ONLY <2>1, Zenon
  <2>3. policy' = policy \/ policy' = "ACCEPT"
      BY <1>8 DEF Rules!DisableFirewall
  <2> QED
      BY <2>1, <2>2, <2>3 DEF FwMore, Rules!Policies
<1>9. checks \in [Rules!Policies -> Nat]
    BY FwNumbers DEF FwMore
<1>10. CASE Rules!SetDefaultPolicy
  <2>1. PICK p \in Rules!Policies, ok \in BOOLEAN :
            Rules!Policed(p, ok, checks) /\ \E b : Rules!Fails(b)
      BY <1>10 DEF Rules!SetDefaultPolicy
  <2> QED
      BY <2>1, <1>9, FwFailing, FwWatched
<1>11. CASE \E old \in Rules!Policies : Rules!verifyAndRollback(old)
  <2>1. PICK old \in Rules!Policies : Rules!verifyAndRollback(old)
      BY <1>11
  <2> DEFINE rest == [checks EXCEPT ![old] = @ - 1]
  <2>2. /\ checks[old] > 0 /\ UNCHANGED fwFaults
        /\ \/ checks' = rest /\ UNCHANGED <<fwActive, policy>>
           \/ Rules!Policed(old, TRUE, rest)
      BY <2>1 DEF Rules!verifyAndRollback
  <2>3. rest \in [Rules!Policies -> Nat]
      BY <1>9, <2>2
  <2>4. CASE checks' = rest /\ UNCHANGED <<fwActive, policy>>
    <3>1. rest \in [Rules!Policies -> 0 .. MaxChecks]
        BY <2>2, FwNumbers DEF FwMore
    <3> HIDE DEF rest
    <3> QED
        BY <2>2, <2>4, <3>1 DEF FwMore, Rules!Policies
  <2>5. CASE Rules!Policed(old, TRUE, rest)
    <3> HIDE DEF rest
    <3> QED
        BY <2>2, <2>3, <2>5, <1>0, FwWatched
  <2> QED
      BY <2>2, <2>4, <2>5
<1> QED
    BY <1>1, <1>2, <1>3, <1>4, <1>5, <1>6, <1>7, <1>8, <1>10, <1>11 DEF Rules!Next

(* The parts of a state of the firewall are what they should be.            *)
LEMMA FwTypes ==
    ASSUME FwInv, FwMore
    PROVE  Rules!TypeOK
<1>1. Rules!Store \in FwStores
    BY DEF FwInv
<1>2. lastId \in Nat /\ DOMAIN rows \subseteq 1 .. lastId
    BY <1>1 DEF FwStores, Rules!Store
<1>3. \A id \in DOMAIN rows : Rules!Spec1(rows[id]) \in Specs
  <2>1. PICK D \in SUBSET Nat : rows \in [D -> FwRow]
      BY <1>1 DEF FwStores, FwTables, Rules!Store
  <2> QED
      BY <2>1 DEF FwRow
<1> QED
    BY <1>2, <1>3, FwNumbers DEF FwInv, FwMore, Rules!TypeOK

-----------------------------------------------------------------------------
(* Access lists. After a start the chain holds a row's rules once.          *)
AclRow == [id : Nat, cidrs : SUBSET Cidrs]
AclRule == [id : Nat, from : Cidrs \cup {"deny"}]
AclOf(id) == {r \in AclRule : r.id = id}
AclTables == UNION {[D -> AclRow] : D \in SUBSET Ports}
AclAligned(a, chains) ==
    \A p \in DOMAIN a :
        Acl!Those(chains[p], LAMBDA r : r.id = a[p].id) = Acl!aclRules(a[p].id, a[p].cidrs)
AclInv ==
    /\ acl \in AclTables /\ aclId \in Nat /\ input \in [Ports -> Seq(AclRule)]
    /\ aclStarted => AclAligned(acl, input)

(* The invariant holds at the start.                                        *)
LEMMA AclInit == Init => AclInv
<1> SUFFICES ASSUME Init PROVE AclInv
    OBVIOUS
<1>1. acl = <<>> /\ aclId = 0 /\ input = [p \in Ports |-> <<>>] /\ aclStarted = FALSE
    BY DEF Init, Acl!Init
<1>2. acl \in [{} -> AclRow]
    BY <1>1
<1>3. acl \in AclTables
    BY <1>2 DEF AclTables
<1> QED
    BY <1>1, <1>3 DEF AclInv

(* A set of sources in some order.                                          *)
LEMMA AclSources ==
    ASSUME NEW S \in SUBSET Cidrs
    PROVE  Acl!Cardinality(S) \in Nat /\ Acl!SetToSeq(S) \in [1 .. Acl!Cardinality(S) -> S]
<1>1. IsFiniteSet(Cidrs)
    BY AclAssumption DEF Acl!AclBounds, Acl!IsFiniteSet, IsFiniteSet
<1>2. IsFiniteSet(S)
    BY <1>1, FS_Subset
<1> DEFINE k == Cardinality(S)
<1>3. Acl!Cardinality(S) = k /\ k \in Nat
    BY <1>2, FS_CardinalityType DEF Acl!Cardinality, Cardinality
<1>4. \E f \in [1 .. k -> S] : Acl!IsInjective(f)
  <2>1. ExistsBijection(1 .. k, S)
      BY <1>2, FS_CardinalityType
  <2>2. PICK f : f \in Bijection(1 .. k, S)
      BY <2>1 DEF ExistsBijection
  <2>3. f \in [1 .. k -> S] /\ IsInjective(f)
      BY <2>2 DEF Bijection, Injection
  <2> QED
      BY <2>3 DEF IsInjective, Acl!IsInjective
<1> HIDE DEF k
<1>5. Acl!SetToSeq(S) = CHOOSE f \in [1 .. k -> S] : Acl!IsInjective(f)
    BY <1>3 DEF Acl!SetToSeq
<1>6. Acl!SetToSeq(S) \in [1 .. k -> S]
    BY <1>4, <1>5
<1> QED
    BY <1>3, <1>6

(* What apply appends.                                                      *)
LEMMA AclApplies ==
    ASSUME NEW id \in Nat, NEW S \in SUBSET Cidrs
    PROVE  /\ Acl!aclRules(id, S) \in Seq(AclOf(id))
           /\ Len(Acl!aclRules(id, S)) = Acl!Cardinality(S) + 1
           /\ Acl!Cardinality(S) \in Nat
<1> DEFINE k == Acl!Cardinality(S)
           s == Acl!SetToSeq(S)
           e(i) == [id |-> id, from |-> IF i <= k THEN s[i] ELSE "deny"]
<1>1. k \in Nat /\ s \in [1 .. k -> S]
    BY AclSources
<1>2. Acl!aclRules(id, S) = [i \in 1 .. k + 1 |-> e(i)]
    BY DEF Acl!aclRules
<1> HIDE DEF k, s
<1>3. ASSUME NEW i \in 1 .. k + 1 PROVE e(i) \in AclOf(id)
    BY <1>1 DEF AclOf, AclRule
<1> HIDE DEF e
<1> QED
    BY <1>1, <1>2, <1>3 DEF k

(* What remove leaves has none of the tag.                                  *)
LEMMA AclRemoves ==
    ASSUME NEW c \in Seq(AclRule), NEW id
    PROVE  Acl!aclRemove(c, id) \in Seq(AclRule \ AclOf(id))
<1> DEFINE n == Len(c)
           V == Seq(AclRule \ AclOf(id))
           b == <<>>
           Turn(i, v) == IF c[i].id # id THEN Append(v, c[i]) ELSE v
           G == [i \in 1 .. n |-> [v \in V |-> Turn(i, v)]]
           F == CHOOSE f : f = [i \in 0 .. n |-> IF i = 0 THEN b ELSE Turn(i, f[i - 1])]
<1>1. n \in Nat /\ b \in V
    OBVIOUS
<1>2. ASSUME NEW i \in 1 .. n, NEW v \in V PROVE Turn(i, v) \in V
    BY DEF AclOf
<1>3. Acl!aclRemove(c, id) = F[n]
    BY DEF Acl!aclRemove, Acl!Those
<1> HIDE DEF V, Turn, n, b
<1>4. G \in [1 .. n -> [V -> V]]
    BY <1>2
<1>5. ASSUME NEW f \in [0 .. n -> V], f[0] = b, \A i \in 1 .. n : f[i] = G[i][f[i - 1]]
      PROVE  f = [i \in 0 .. n |-> IF i = 0 THEN b ELSE Turn(i, f[i - 1])]
  <2>1. ASSUME NEW i \in 1 .. n PROVE f[i] = Turn(i, f[i - 1])
    <3>1. f[i - 1] \in V
        BY <1>1
    <3> QED
        BY <1>5, <3>1
  <2>2. \A i \in 0 .. n : f[i] = IF i = 0 THEN b ELSE Turn(i, f[i - 1])
      BY <1>1, <1>5, <2>1
  <2> QED
      BY <2>2
<1>6. ASSUME NEW f, f = [i \in 0 .. n |-> IF i = 0 THEN b ELSE Turn(i, f[i - 1])]
      PROVE  F = [i \in 0 .. n |-> IF i = 0 THEN b ELSE Turn(i, F[i - 1])]
    BY <1>6
<1> HIDE DEF F
<1>7. ASSUME NEW f \in [0 .. n -> V], f[0] = b, \A i \in 1 .. n : f[i] = G[i][f[i - 1]]
      PROVE  F[0] = b /\ \A i \in 1 .. n : F[i - 1] \in V => F[i] = G[i][F[i - 1]]
  <2>1. F = [i \in 0 .. n |-> IF i = 0 THEN b ELSE Turn(i, F[i - 1])]
      BY <1>5, <1>6, <1>7
  <2>2. F[0] = b /\ \A i \in 1 .. n : F[i] = Turn(i, F[i - 1])
      BY <1>1, <2>1
  <2> QED
      BY <2>2
<1> HIDE DEF G
<1>8. LoopOf(V, b, n, G, F)
    BY <1>1, <1>4, <1>7 DEF LoopOf
<1>9. \A i \in 0 .. n : F[i] \in V
    BY <1>8, LoopKeeps
<1> QED
    BY <1>1, <1>3, <1>9 DEF V

(* Looking for a tag finds the rules that carry it.                         *)
LEMMA AclFinds ==
    ASSUME NEW id, NEW s \in Seq(AclRule \ AclOf(id)), NEW t \in Seq(AclOf(id))
    PROVE  Acl!Those(s \o t, LAMBDA r : r.id = id) = t
<1> DEFINE c == s \o t
           n == Len(c)
           V == Seq(AclRule)
           b == <<>>
           Turn(i, v) == IF c[i].id = id THEN Append(v, c[i]) ELSE v
           G == [i \in 1 .. n |-> [v \in V |-> Turn(i, v)]]
           F == CHOOSE f : f = [i \in 0 .. n |-> IF i = 0 THEN b ELSE Turn(i, f[i - 1])]
<1>0. /\ Len(s) \in Nat /\ Len(t) \in Nat /\ n = Len(s) + Len(t)
      /\ \A i \in 1 .. Len(s) : c[i] = s[i] /\ s[i] \in AclRule /\ s[i].id # id
      /\ \A i \in 1 .. Len(t) : c[i + Len(s)] = t[i] /\ t[i] \in AclRule /\ t[i].id = id
    BY DEF AclOf
<1> HIDE DEF c
<1>1. n \in Nat /\ b \in V
    BY <1>0
<1>2. ASSUME NEW i \in 1 .. n, NEW v \in V PROVE Turn(i, v) \in V
  <2>1. CASE i \in 1 .. Len(s)
      BY <1>0, <2>1
  <2>2. CASE i - Len(s) \in 1 .. Len(t)
    <3> DEFINE k == i - Len(s)
    <3>1. k \in 1 .. Len(t) /\ k + Len(s) = i
        BY <1>0, <2>2
    <3> HIDE DEF k
    <3>2. c[k + Len(s)] \in AclRule
        BY ONLY <1>0, <3>1
    <3>3. c[i] \in AclRule
        BY <3>1, <3>2
    <3> QED
        BY <3>3
  <2> QED
      BY <1>0, <2>1, <2>2
<1>3. Acl!Those(c, LAMBDA r : r.id = id) = F[n]
    BY DEF Acl!Those
<1> HIDE DEF V, Turn, n, b
<1>4. G \in [1 .. n -> [V -> V]]
    BY <1>2
<1>5. ASSUME NEW f \in [0 .. n -> V], f[0] = b, \A i \in 1 .. n : f[i] = G[i][f[i - 1]]
      PROVE  f = [i \in 0 .. n |-> IF i = 0 THEN b ELSE Turn(i, f[i - 1])]
  <2>1. ASSUME NEW i \in 1 .. n PROVE f[i] = Turn(i, f[i - 1])
    <3>1. f[i - 1] \in V
        BY <1>1
    <3> QED
        BY <1>5, <3>1
  <2>2. \A i \in 0 .. n : f[i] = IF i = 0 THEN b ELSE Turn(i, f[i - 1])
      BY <1>1, <1>5, <2>1
  <2> QED
      BY <2>2
<1>6. ASSUME NEW f, f = [i \in 0 .. n |-> IF i = 0 THEN b ELSE Turn(i, f[i - 1])]
      PROVE  F = [i \in 0 .. n |-> IF i = 0 THEN b ELSE Turn(i, F[i - 1])]
    BY <1>6
<1> HIDE DEF F
<1>7. ASSUME NEW f \in [0 .. n -> V], f[0] = b, \A i \in 1 .. n : f[i] = G[i][f[i - 1]]
      PROVE  F[0] = b /\ \A i \in 1 .. n : F[i - 1] \in V => F[i] = G[i][F[i - 1]]
  <2>1. F = [i \in 0 .. n |-> IF i = 0 THEN b ELSE Turn(i, F[i - 1])]
      BY <1>5, <1>6, <1>7
  <2>2. F[0] = b /\ \A i \in 1 .. n : F[i] = Turn(i, F[i - 1])
      BY <1>1, <2>1
  <2> QED
      BY <2>2
<1> HIDE DEF G
<1>8. LoopOf(V, b, n, G, F)
    BY <1>1, <1>4, <1>7 DEF LoopOf
<1>9. \A i \in 0 .. n : F[i] \in V
    BY <1>8, LoopKeeps
<1>10. F[0] = <<>> /\ \A i \in 1 .. n : F[i - 1] \in V /\ F[i] = G[i][F[i - 1]]
    BY <1>8, LoopRuns DEF b
<1>11. ASSUME NEW i \in 1 .. n
       PROVE  F[i] = IF c[i].id = id THEN Append(F[i - 1], c[i]) ELSE F[i - 1]
    BY <1>10 DEF G, Turn
<1> DEFINE Part(i) == IF i <= Len(s) THEN <<>> ELSE SubSeq(t, 1, i - Len(s))
           S == {i \in 0 .. n : F[i] = Part(i)}
<1>12. 0 \in S
    BY <1>0, <1>1, <1>10
<1>13. ASSUME NEW i \in 1 .. n, i - 1 \in S PROVE i \in S
  <2>0. i - 1 \in 0 .. n /\ F[i - 1] = Part(i - 1)
      BY <1>13
  <2>1. CASE i <= Len(s)
    <3>1. i \in 1 .. Len(s) /\ i - 1 <= Len(s) /\ i \in 0 .. n
        BY <1>0, <1>1, <2>1
    <3>2. c[i].id # id /\ F[i - 1] = <<>>
        BY <1>0, <2>0, <3>1
    <3>3. F[i] = Part(i)
        BY <1>11, <2>1, <3>2
    <3> QED
        BY <3>1, <3>3
  <2>2. CASE i > Len(s)
    <3> DEFINE k == i - Len(s)
    <3>1. k \in 1 .. Len(t) /\ c[i] = t[k] /\ t[k].id = id
      <4>1. k \in 1 .. Len(t) /\ k + Len(s) = i
          BY <1>0, <1>1, <2>2
      <4> QED
          BY <1>0, <4>1
    <3>2. F[i] = Append(F[i - 1], t[k])
        BY <1>11, <3>1
    <3>3. F[i - 1] = SubSeq(t, 1, k - 1)
      <4>1. F[i - 1] = Part(i - 1)
          BY <1>13
      <4>2. CASE i - 1 <= Len(s)
        <5>1. k = 1 /\ F[i - 1] = <<>>
            BY <1>0, <1>1, <2>2, <4>1, <4>2
        <5> QED
            BY <5>1
      <4>3. CASE ~(i - 1 <= Len(s))
          BY <1>0, <1>1, <4>1, <4>3
      <4> QED
          BY <4>2, <4>3
    <3>4. Append(SubSeq(t, 1, k - 1), t[k]) = SubSeq(t, 1, k)
      <4>1. k \in 1 .. Len(t)
          BY <3>1
      <4> HIDE DEF k
      <4> QED
          BY ONLY <4>1, t \in Seq(AclOf(id))
    <3>5. F[i] = SubSeq(t, 1, k)
        BY <3>2, <3>3, <3>4
    <3>6. ~ (i <= Len(s)) /\ i \in 0 .. n
        BY <1>0, <1>1, <2>2
    <3>7. F[i] = Part(i)
        BY <3>5, <3>6
    <3> QED
        BY <3>6, <3>7
  <2> QED
      BY <1>0, <1>1, <2>1, <2>2
<1>14. \A i \in 0 .. n : i \in S
  <2> HIDE DEF S
  <2> QED
    BY <1>1, <1>12, <1>13, LoopSteps
<1>15. F[n] = Part(n)
    BY <1>1, <1>14
<1>16. Part(n) = t
  <2>1. CASE Len(t) = 0
      BY <1>0, <2>1 DEF n
  <2>2. CASE Len(t) > 0
    <3>1. Part(n) = SubSeq(t, 1, Len(t))
        BY <1>0, <2>2 DEF n
    <3>2. SubSeq(t, 1, Len(t)) = t
        BY ONLY t \in Seq(AclOf(id))
    <3> QED
        BY <3>1, <3>2
  <2> QED
      BY <1>0, <2>1, <2>2
<1> QED
    BY <1>3, <1>15, <1>16 DEF c

(* A step after which no start has just ended.                              *)
LEMMA AclMoves ==
    ASSUME AclInv, acl' \in AclTables, aclId' \in Nat, input' \in [Ports -> Seq(AclRule)],
           aclStarted' = FALSE
    PROVE  AclInv'
BY DEF AclInv, AclTables, AclRow, AclRule

(* Expose writes the row and appends its rules.                             *)
LEMMA AclExposes ==
    ASSUME AclInv, Acl!Expose
    PROVE  AclInv'
<1>1. PICK port \in Ports, cidrs \in SUBSET Cidrs :
        \E n \in 0 .. Acl!Cardinality(cidrs) + 1 :
          /\ Acl!aclUpsert(port, cidrs)
          /\ input' = [input EXCEPT ![port] = Acl!aclApply(@, acl'[port].id, cidrs, n)]
          /\ aclStarted' = FALSE
    BY DEF Acl!Expose
<1>2. PICK n \in 0 .. Acl!Cardinality(cidrs) + 1 :
          input' = [input EXCEPT ![port] = Acl!aclApply(@, acl'[port].id, cidrs, n)]
    BY <1>1
<1> DEFINE id == IF port \in DOMAIN acl THEN acl[port].id ELSE aclId + 1
           row == [id |-> id, cidrs |-> cidrs]
           new == [p \in DOMAIN acl \cup {port} |-> IF p = port THEN row ELSE acl[p]]
<1>3. PICK D \in SUBSET Ports : acl \in [D -> AclRow]
    BY DEF AclInv, AclTables
<1>4. id \in Nat /\ aclId + 1 \in Nat
    BY <1>3 DEF AclInv, AclRow
<1>5. acl' = new /\ (aclId' = aclId \/ aclId' = id)
    BY <1>1 DEF Acl!aclUpsert
<1> HIDE DEF id
<1>6. row \in AclRow
    BY <1>4 DEF AclRow
<1>7. acl'[port].id = id
    BY <1>5
<1> HIDE DEF row
<1>8. new \in [D \cup {port} -> AclRow]
    BY <1>3, <1>6
<1>9. acl' \in AclTables /\ aclId' \in Nat
  <2>1. aclId' \in Nat
      BY <1>4, <1>5 DEF AclInv
  <2> HIDE DEF new
  <2>2. acl' \in AclTables
      BY <1>5, <1>8 DEF AclTables
  <2> QED
      BY <2>1, <2>2
<1> HIDE DEF new
<1>10. /\ Acl!aclRules(id, cidrs) \in Seq(AclRule)
       /\ Len(Acl!aclRules(id, cidrs)) = Acl!Cardinality(cidrs) + 1
       /\ Acl!Cardinality(cidrs) \in Nat
  <2>1. Acl!aclRules(id, cidrs) \in Seq(AclOf(id)) /\ AclOf(id) \subseteq AclRule
      BY <1>4, AclApplies DEF AclOf
  <2> QED
      BY <1>4, <2>1, AclApplies
<1> DEFINE t == Acl!aclRules(id, cidrs)
<1>11. SubSeq(t, 1, n) \in Seq(AclRule)
  <2>1. n \in 0 .. Len(t) /\ t \in Seq(AclRule)
      BY <1>10
  <2> HIDE DEF t
  <2> QED
      BY ONLY <2>1
<1>12. Acl!aclApply(input[port], id, cidrs, n) \in Seq(AclRule)
  <2>1. input[port] \in Seq(AclRule)
      BY DEF AclInv
  <2>2. Acl!aclApply(input[port], id, cidrs, n) = input[port] \o SubSeq(t, 1, n)
      BY DEF Acl!aclApply
  <2> HIDE DEF t
  <2> QED
      BY <1>11, <2>1, <2>2
<1>13. input' \in [Ports -> Seq(AclRule)]
    BY <1>2, <1>7, <1>12 DEF AclInv
<1> QED
    BY <1>1, <1>9, <1>13, AclMoves

(* Revoke removes the rules, if they can be listed, and the row.            *)
LEMMA AclRevokes ==
    ASSUME AclInv, Acl!Revoke
    PROVE  AclInv'
<1>1. PICK port \in DOMAIN acl :
          /\ \/ input' = [input EXCEPT ![port] = Acl!aclRemove(@, acl[port].id)]
             \/ input' = input
          /\ acl' = [p \in DOMAIN acl \ {port} |-> acl[p]]
          /\ aclStarted' = FALSE /\ aclId' = aclId
    BY DEF Acl!Revoke, Acl!aclGet, Acl!aclDelete
<1>2. PICK D \in SUBSET Ports : acl \in [D -> AclRow]
    BY DEF AclInv, AclTables
<1>3. acl' \in [D \ {port} -> AclRow]
    BY <1>1, <1>2
<1>4. acl' \in AclTables
    BY <1>3 DEF AclTables
<1>5. input[port] \in Seq(AclRule)
    BY <1>2 DEF AclInv
<1>6. Acl!aclRemove(input[port], acl[port].id) \in Seq(AclRule)
  <2> DEFINE id == acl[port].id
  <2>1. Acl!aclRemove(input[port], id) \in Seq(AclRule \ AclOf(id))
      BY <1>5, AclRemoves
  <2> QED
      BY <2>1
<1>7. input' \in [Ports -> Seq(AclRule)]
    BY <1>1, <1>6 DEF AclInv
<1> QED
    BY <1>1, <1>4, <1>7, AclMoves DEF AclInv

(* The panel starts: what ReapplyAll makes of one port.                     *)
LEMMA AclReplays ==
    ASSUME AclInv, NEW c \in [Ports -> Seq(AclRule)], NEW listed \in BOOLEAN,
           NEW done \in SUBSET DOMAIN acl, NEW p \in Ports
    PROVE  /\ Acl!ReapplyAll(c, listed, done)[p] \in Seq(AclRule)
           /\ listed /\ p \in done =>
                 Acl!Those(Acl!ReapplyAll(c, listed, done)[p], LAMBDA r : r.id = acl[p].id)
                    = Acl!aclRules(acl[p].id, acl[p].cidrs)
<1> DEFINE left == IF listed THEN Acl!aclRemove(c[p], acl[p].id) ELSE c[p]
           res == Acl!ReapplyAll(c, listed, done)[p]
<1>1. \A q \in DOMAIN acl : acl[q] \in AclRow
    BY DEF AclInv, AclTables
<1>2. c[p] \in Seq(AclRule)
    OBVIOUS
<1>3. left \in Seq(AclRule) /\ (listed => left \in Seq(AclRule \ AclOf(acl[p].id)))
  <2>1. Acl!aclRemove(c[p], acl[p].id) \in Seq(AclRule \ AclOf(acl[p].id))
      BY <1>2, AclRemoves
  <2> QED
      BY <1>2, <2>1
<1>4. CASE p \notin DOMAIN acl
  <2>1. res = c[p] /\ p \notin done
      BY <1>4 DEF Acl!ReapplyAll
  <2> QED
      BY <1>2, <2>1
<1>5. CASE p \in DOMAIN acl /\ p \notin done
  <2>1. res = left
      BY <1>5 DEF Acl!ReapplyAll
  <2> HIDE DEF left
  <2> QED
      BY <1>3, <1>5, <2>1
<1>6. CASE p \in DOMAIN acl /\ p \in done
  <2> DEFINE id == acl[p].id
             S == acl[p].cidrs
             t == Acl!aclRules(id, S)
  <2>1. id \in Nat /\ S \in SUBSET Cidrs
      BY <1>1, <1>6 DEF AclRow
  <2>2. res = Acl!aclApply(left, id, S, Acl!Cardinality(S) + 1)
      BY <1>6 DEF Acl!ReapplyAll
  <2> HIDE DEF left, id, S
  <2>3. t \in Seq(AclOf(id)) /\ Len(t) = Acl!Cardinality(S) + 1
      BY <2>1, AclApplies
  <2> HIDE DEF t
  <2>4. SubSeq(t, 1, Len(t)) = t /\ t \in Seq(AclRule)
    <3>1. AclOf(id) \subseteq AclRule
        BY DEF AclOf
    <3> QED
        BY ONLY <2>3, <3>1
  <2>5. res = left \o t
      BY <2>2, <2>3, <2>4 DEF Acl!aclApply, t
  <2>6. left \o t \in Seq(AclRule)
      BY <1>3, <2>4
  <2>7. left \in Seq(AclRule \ AclOf(id)) => Acl!Those(left \o t, LAMBDA r : r.id = id) = t
      BY <2>3, AclFinds
  <2>8. listed => left \in Seq(AclRule \ AclOf(id))
      BY <1>3 DEF id
  <2>9. listed => Acl!Those(left \o t, LAMBDA r : r.id = id) = t
      BY <2>7, <2>8, Zenon
  <2> QED
      BY <2>5, <2>6, <2>9, Zenon DEF t, id, S
<1> QED
    BY <1>4, <1>5, <1>6, Zenon

(* PanelStart: when the replay met no error, every row has its rules.       *)
LEMMA AclStarts ==
    ASSUME AclInv, Acl!PanelStart
    PROVE  AclInv'
<1>1. PICK c \in [Ports -> Seq(AclRule)], listed \in BOOLEAN, done \in SUBSET DOMAIN acl :
          /\ input' = Acl!ReapplyAll(c, listed, done)
          /\ aclStarted' = (listed /\ done = DOMAIN acl)
          /\ UNCHANGED <<acl, aclId>>
  <2>1. PICK rebooted \in BOOLEAN, listed \in BOOLEAN, done \in SUBSET DOMAIN acl :
          /\ input' = Acl!ReapplyAll(IF rebooted THEN [p \in Ports |-> <<>>] ELSE input,
                                     listed, done)
          /\ aclStarted' = (listed /\ done = DOMAIN acl)
          /\ UNCHANGED <<acl, aclId>>
      BY DEF Acl!PanelStart
  <2>2. (IF rebooted THEN [p \in Ports |-> <<>>] ELSE input) \in [Ports -> Seq(AclRule)]
      BY DEF AclInv
  <2> QED
      BY <2>1, <2>2
<1>2. \A p \in Ports : input'[p] \in Seq(AclRule)
    BY <1>1, AclReplays
<1>3. input' = [p \in Ports |-> input'[p]]
    BY <1>1 DEF Acl!ReapplyAll
<1>4. input' \in [Ports -> Seq(AclRule)]
    BY <1>2, <1>3
<1>5. aclStarted' => AclAligned(acl', input')
  <2> SUFFICES ASSUME aclStarted' PROVE AclAligned(acl, input')
      BY <1>1
  <2>1. listed /\ done = DOMAIN acl /\ DOMAIN acl \subseteq Ports
      BY <1>1 DEF AclInv, AclTables
  <2>2. \A p \in DOMAIN acl : Acl!Those(input'[p], LAMBDA r : r.id = acl[p].id)
                                = Acl!aclRules(acl[p].id, acl[p].cidrs)
      BY <1>1, <2>1, AclReplays
  <2> QED
      BY <2>2, Zenon DEF AclAligned
<1> QED
    BY <1>1, <1>4, <1>5 DEF AclInv, AclTables, AclRow, AclRule

(* The invariant holds on while the part does nothing.                      *)
LEMMA AclStutter ==
    ASSUME AclInv, UNCHANGED aclVars
    PROVE  AclInv'
BY DEF AclInv, aclVars, AclTables, AclRow, AclRule

(* Every step of the access lists keeps the invariant.                      *)
LEMMA AclStep ==
    ASSUME AclInv, Acl!Next
    PROVE  AclInv'
<1>1. CASE Acl!FlushRuleset
  <2>1. input' = [p \in Ports |-> <<>>] /\ aclStarted' = FALSE /\ UNCHANGED <<acl, aclId>>
      BY <1>1 DEF Acl!FlushRuleset
  <2>2. input' \in [Ports -> Seq(AclRule)]
      BY <2>1
  <2> QED
      BY <2>1, <2>2, AclMoves DEF AclInv
<1> QED
    BY <1>1, AclExposes, AclRevokes, AclStarts DEF Acl!Next

(* What the invariant says of a start.                                      *)
LEMMA AclShows ==
    ASSUME AclInv
    PROVE  Acl!StartAligns
BY Zenon DEF AclInv, AclAligned, Acl!StartAligns

-----------------------------------------------------------------------------
(* The rest of what a state of the access lists is made of.                 *)
AclMore ==
    /\ \A p \in DOMAIN acl : acl[p].id \in 1 .. aclId
    /\ aclId \in 0 .. AclMaxId /\ aclFaults \in 0 .. AclMaxFaults

(* The bounds are numbers.                                                  *)
LEMMA AclNumbers ==
    AclMaxId \in Nat /\ AclMaxFaults \in Nat
BY AclAssumption DEF Acl!AclBounds

(* It holds at the start.                                                   *)
LEMMA AclMoreInit == Init => AclMore
<1> SUFFICES ASSUME Init PROVE AclMore
    OBVIOUS
<1>1. acl = <<>> /\ aclId = 0 /\ aclFaults = 0
    BY DEF Init, Acl!Init
<1> QED
    BY <1>1, AclNumbers DEF AclMore

(* It holds on while nothing happens.                                       *)
LEMMA AclMoreStutter ==
    ASSUME AclMore, UNCHANGED aclVars
    PROVE  AclMore'
BY DEF AclMore, aclVars

(* A failing command is counted.                                            *)
LEMMA AclCharge ==
    ASSUME AclMore, NEW b, Acl!Fails(b)
    PROVE  aclFaults' \in 0 .. AclMaxFaults
<1>1. \/ aclFaults' = aclFaults
      \/ aclFaults' = aclFaults + 1 /\ aclFaults < AclMaxFaults
    BY DEF Acl!Fails
<1> QED
    BY <1>1, AclNumbers DEF AclMore

(* Every step of the access lists keeps it.                                 *)
LEMMA AclMoreStep ==
    ASSUME AclInv, AclMore, Acl!Next
    PROVE  AclMore'
<1>0. \A p \in DOMAIN acl : acl[p].id \in 1 .. aclId
    BY DEF AclMore
<1>1. CASE Acl!Expose
  <2>1. PICK port \in Ports, cidrs \in SUBSET Cidrs :
            Acl!aclUpsert(port, cidrs) /\ \E b : Acl!Fails(b)
      BY <1>1 DEF Acl!Expose
  <2> DEFINE id == IF port \in DOMAIN acl THEN acl[port].id ELSE aclId + 1
             row == [id |-> id, cidrs |-> cidrs]
             new == [p \in DOMAIN acl \cup {port} |-> IF p = port THEN row ELSE acl[p]]
             last == IF port \in DOMAIN acl THEN aclId ELSE id
  <2>2. acl' = new /\ aclId' = last /\ last <= AclMaxId
      BY <2>1 DEF Acl!aclUpsert
  <2>3. aclId \in Nat /\ last \in Nat /\ aclId <= last /\ id \in 1 .. last
      BY <1>0 DEF AclInv
  <2>4. \A p \in DOMAIN new : new[p].id = IF p = port THEN id ELSE acl[p].id
      BY DEF row
  <2>5. DOMAIN new = DOMAIN acl \cup {port}
      OBVIOUS
  <2> HIDE DEF id, row, new, last
  <2>6. \A p \in DOMAIN new : new[p].id \in 1 .. last
      BY <1>0, <2>3, <2>4, <2>5
  <2>7. last \in 0 .. AclMaxId
      BY <2>2, <2>3, AclNumbers
  <2>8. aclFaults' \in 0 .. AclMaxFaults
      BY <2>1, AclCharge
  <2> QED
      BY <2>2, <2>6, <2>7, <2>8 DEF AclMore
<1>2. CASE Acl!Revoke
  <2>1. PICK port \in DOMAIN acl :
            /\ acl' = [p \in DOMAIN acl \ {port} |-> acl[p]]
            /\ aclId' = aclId /\ \E b : Acl!Fails(b)
      BY <1>2 DEF Acl!Revoke, Acl!aclDelete
  <2>2. aclFaults' \in 0 .. AclMaxFaults
      BY <2>1, AclCharge
  <2> QED
      BY <1>0, <2>1, <2>2 DEF AclMore
<1>3. CASE Acl!FlushRuleset
    BY <1>3 DEF Acl!FlushRuleset, AclMore
<1>4. CASE Acl!PanelStart
  <2>1. UNCHANGED <<acl, aclId>> /\ \E b : Acl!Fails(b)
      BY <1>4 DEF Acl!PanelStart
  <2>2. aclFaults' \in 0 .. AclMaxFaults
      BY <2>1, AclCharge
  <2> QED
      BY <2>1, <2>2 DEF AclMore
<1> QED
    BY <1>1, <1>2, <1>3, <1>4 DEF Acl!Next

(* The parts of a state of the access lists are what they should be.        *)
LEMMA AclTypes ==
    ASSUME AclInv, AclMore
    PROVE  Acl!TypeOK
<1>1. DOMAIN acl \subseteq Ports /\ \A p \in DOMAIN acl : acl[p] \in AclRow
    BY DEF AclInv, AclTables
<1> QED
    BY <1>1 DEF AclMore, AclRow, Acl!TypeOK

-----------------------------------------------------------------------------
(* Port forwards. Every row has a number that was given, a number that was  *)
(* not given yet has no rules, enabled rows do not share a port, and after  *)
(* a start without an error the rules are those of the rows.                *)
FwdTypes ==
    /\ fwdId \in 0 .. FwdMaxId /\ fwdFaults \in 0 .. FwdMaxFaults
    /\ DOMAIN fwd \subseteq 1 .. fwdId
    /\ \A i \in DOMAIN fwd : fwd[i] \in Forwards!Forwards
    /\ nat \in [1 .. FwdMaxId -> [Forwards!FwdParts -> 0 .. MaxCopies]]
    /\ \A i \in 1 .. FwdMaxId : i > fwdId => nat[i] = Forwards!NoRules
FwdInv == FwdTypes /\ Forwards!NoListenConflict /\ Forwards!StartAligns

(* The bounds are numbers.                                                  *)
LEMMA FwdNumbers ==
    /\ FwdMaxId \in Nat /\ MaxCopies \in Nat /\ 1 <= MaxCopies /\ FwdMaxFaults \in Nat
    /\ Forwards!NoRules \in [Forwards!FwdParts -> 0 .. MaxCopies]
<1>1. FwdMaxId \in Nat /\ MaxCopies \in Nat /\ 1 <= MaxCopies /\ FwdMaxFaults \in Nat
    BY ForwardAssumption DEF Forwards!ForwardBounds
<1> QED
    BY <1>1 DEF Forwards!NoRules

(* The invariant holds at the start.                                        *)
LEMMA FwdInit == Init => FwdInv
<1> SUFFICES ASSUME Init PROVE FwdInv
    OBVIOUS
<1>1. /\ fwd = <<>> /\ fwdId = 0 /\ nat = [i \in 1 .. FwdMaxId |-> Forwards!NoRules]
      /\ fwdStarted = FALSE /\ fwdFaults = 0
    BY DEF Init, Forwards!Init
<1>2. DOMAIN fwd = {}
    BY <1>1
<1>3. FwdTypes
    BY <1>1, <1>2, FwdNumbers DEF FwdTypes
<1> QED
    BY <1>1, <1>2, <1>3 DEF FwdInv, Forwards!NoListenConflict, Forwards!StartAligns

(* A failing command is counted.                                            *)
LEMMA FwdCharge ==
    ASSUME FwdTypes, NEW b, Forwards!Fails(b)
    PROVE  fwdFaults' \in 0 .. FwdMaxFaults
<1>1. CASE b
    BY <1>1, FwdNumbers DEF Forwards!Fails, FwdTypes
<1>2. CASE ~b
    BY <1>2 DEF Forwards!Fails, FwdTypes
<1> QED
    BY <1>1, <1>2

(* Without a row there are no rules.                                        *)
LEMMA FwdRemoves ==
    ASSUME NEW k \in [Forwards!FwdParts -> 0 .. MaxCopies], NEW listed
    PROVE  Forwards!removeForward(k, listed) \in [Forwards!FwdParts -> 0 .. MaxCopies]
BY FwdNumbers DEF Forwards!removeForward

(* One more copy of some rules.                                             *)
LEMMA FwdApplies ==
    ASSUME NEW k \in [Forwards!FwdParts -> 0 .. MaxCopies], NEW r, NEW n
    PROVE  /\ Forwards!applyForward(k, r, n) \in [Forwards!FwdParts -> Nat]
           /\ k = Forwards!NoRules =>
                Forwards!applyForward(k, r, n) \in [Forwards!FwdParts -> 0 .. MaxCopies]
<1>1. \A p \in Forwards!FwdParts : k[p] \in 0 .. MaxCopies /\ k[p] \in Nat
    BY FwdNumbers
<1>2. Forwards!applyForward(k, r, n) \in [Forwards!FwdParts -> Nat]
    BY <1>1 DEF Forwards!applyForward
<1>3. ASSUME k = Forwards!NoRules
      PROVE  Forwards!applyForward(k, r, n) \in [Forwards!FwdParts -> 0 .. MaxCopies]
  <2>1. \A p \in Forwards!FwdParts : k[p] = 0
      BY <1>3 DEF Forwards!NoRules
  <2> QED
      BY <2>1, FwdNumbers DEF Forwards!applyForward
<1> QED
    BY <1>2, <1>3

(* The rules of one row are set within the bound on copies.                 *)
LEMMA FwdSets ==
    ASSUME FwdTypes, NEW id \in 1 .. FwdMaxId, NEW k \in [Forwards!FwdParts -> 0 .. MaxCopies],
           nat' = [nat EXCEPT ![id] = k], id <= fwdId', fwdId' >= fwdId, fwdId' \in Nat
    PROVE  /\ nat' \in [1 .. FwdMaxId -> [Forwards!FwdParts -> 0 .. MaxCopies]]
           /\ \A i \in 1 .. FwdMaxId : i > fwdId' => nat'[i] = Forwards!NoRules
<1>1. nat' \in [1 .. FwdMaxId -> [Forwards!FwdParts -> 0 .. MaxCopies]]
    BY DEF FwdTypes
<1>2. ASSUME NEW i \in 1 .. FwdMaxId, i > fwdId' PROVE nat'[i] = Forwards!NoRules
  <2>1. i # id /\ i > fwdId
      BY <1>2, FwdNumbers DEF FwdTypes
  <2> QED
      BY <2>1 DEF FwdTypes
<1> QED
    BY <1>1, <1>2

(* A row that conflicts with no other is set.                               *)
LEMMA FwdFits ==
    ASSUME FwdTypes, Forwards!NoListenConflict, NEW id \in Nat, NEW r,
           r.on => \A e \in Forwards!ListEnabled \ {id} :
                      ~Forwards!pfRangesOverlap(fwd[e].span, r.span),
           \A i \in DOMAIN fwd' : i # id => i \in DOMAIN fwd /\ fwd'[i] = fwd[i],
           id \in DOMAIN fwd' => fwd'[id] = r
    PROVE  Forwards!NoListenConflict'
<1> SUFFICES ASSUME NEW i \in DOMAIN fwd', NEW j \in DOMAIN fwd',
                    i # j, fwd'[i].on, fwd'[j].on
             PROVE  ~Forwards!pfRangesOverlap(fwd'[i].span, fwd'[j].span)
    BY DEF Forwards!NoListenConflict, Forwards!pfRangesOverlap
<1>1. CASE i # id /\ j # id
    BY <1>1 DEF Forwards!NoListenConflict
<1>2. CASE i = id
  <2>1. j \in DOMAIN fwd /\ fwd'[j] = fwd[j] /\ fwd'[i] = r
      BY <1>2
  <2>2. j \in Forwards!ListEnabled \ {id}
      BY <1>2, <2>1 DEF Forwards!ListEnabled
  <2> QED
      BY <2>1, <2>2 DEF Forwards!pfRangesOverlap
<1>3. CASE j = id
  <2>1. i \in DOMAIN fwd /\ fwd'[i] = fwd[i] /\ fwd'[j] = r
      BY <1>3
  <2>2. i \in Forwards!ListEnabled \ {id}
      BY <1>3, <2>1 DEF Forwards!ListEnabled
  <2> QED
      BY <2>1, <2>2 DEF Forwards!pfRangesOverlap
<1> QED
    BY <1>1, <1>2, <1>3

(* CreateForward: the row, then the rules.                                  *)
LEMMA FwdCreates ==
    ASSUME FwdInv, Forwards!CreatePortForward
    PROVE  FwdInv'
<1>1. PICK r \in Forwards!Forwards : \E n \in 0 .. Len(Forwards!fwdParts(r)) :
        /\ Forwards!checkConflict(0, r) /\ fwdId < FwdMaxId /\ fwdId' = fwdId + 1
        /\ nat' = [nat EXCEPT ![fwdId + 1] = Forwards!applyForward(@, r, n)]
        /\ Forwards!fwdCreate(r) \/ UNCHANGED fwd
        /\ Forwards!Fails(n < Len(Forwards!fwdParts(r)))
        /\ fwdStarted' = FALSE
    BY DEF Forwards!CreatePortForward
<1>2. PICK n :
        /\ nat' = [nat EXCEPT ![fwdId + 1] = Forwards!applyForward(@, r, n)]
        /\ Forwards!Fails(n < Len(Forwards!fwdParts(r)))
    BY <1>1
<1>3. /\ Forwards!checkConflict(0, r) /\ fwdId < FwdMaxId /\ fwdId' = fwdId + 1
      /\ Forwards!fwdCreate(r) \/ UNCHANGED fwd
      /\ fwdStarted' = FALSE
    BY <1>1
<1> DEFINE id == fwdId + 1
<1>4. id \in 1 .. FwdMaxId /\ id > fwdId /\ id \notin DOMAIN fwd /\ id \in Nat /\ fwdId \in Nat
    BY <1>3, FwdNumbers DEF FwdInv, FwdTypes
<1>5. nat[id] = Forwards!NoRules /\ nat[id] \in [Forwards!FwdParts -> 0 .. MaxCopies]
    BY <1>4 DEF FwdInv, FwdTypes
<1>6. Forwards!applyForward(nat[id], r, n) \in [Forwards!FwdParts -> 0 .. MaxCopies]
    BY <1>5, FwdApplies
<1>7. nat' = [nat EXCEPT ![id] = Forwards!applyForward(nat[id], r, n)]
    BY <1>2
<1>8. id <= fwdId' /\ fwdId' >= fwdId /\ fwdId' \in Nat /\ fwdId' \in 0 .. FwdMaxId
    BY <1>3, <1>4
<1>9. /\ nat' \in [1 .. FwdMaxId -> [Forwards!FwdParts -> 0 .. MaxCopies]]
      /\ \A i \in 1 .. FwdMaxId : i > fwdId' => nat'[i] = Forwards!NoRules
  <2> HIDE DEF id
  <2> QED
      BY <1>4, <1>6, <1>7, <1>8, FwdSets DEF FwdInv
<1>10. fwdFaults' \in 0 .. FwdMaxFaults
    BY <1>2, FwdCharge DEF FwdInv
<1>11. \/ fwd' = fwd
       \/ fwd' = [i \in DOMAIN fwd \cup {id} |-> IF i = id THEN r ELSE fwd[i]]
    BY <1>3 DEF Forwards!fwdCreate
<1>12. \A i \in DOMAIN fwd' : i # id => i \in DOMAIN fwd /\ fwd'[i] = fwd[i]
  <2> HIDE DEF id
  <2> QED
      BY <1>11
<1>13. id \in DOMAIN fwd' => fwd'[id] = r
  <2> HIDE DEF id
  <2> QED
      BY <1>11, <1>4
<1>14. FwdTypes'
  <2>1. DOMAIN fwd' \subseteq 1 .. fwdId'
      BY <1>12, <1>4, <1>3 DEF FwdInv, FwdTypes
  <2>2. \A i \in DOMAIN fwd' : fwd'[i] \in Forwards!Forwards
      BY <1>12, <1>13 DEF FwdInv, FwdTypes
  <2> QED
      BY <1>8, <1>9, <1>10, <2>1, <2>2 DEF FwdTypes, Forwards!Forwards, Forwards!FwdParts, Forwards!NoRules
<1>15. \A e \in Forwards!ListEnabled \ {id} : ~Forwards!pfRangesOverlap(fwd[e].span, r.span)
  <2>1. \A e \in Forwards!ListEnabled : e # 0
      BY DEF Forwards!ListEnabled, FwdInv, FwdTypes
  <2> QED
      BY <1>3, <2>1 DEF Forwards!checkConflict
<1>16. Forwards!NoListenConflict'
  <2> HIDE DEF id
  <2> QED
      BY <1>4, <1>12, <1>13, <1>15, FwdFits DEF FwdInv
<1> QED
    BY <1>3, <1>14, <1>16 DEF FwdInv, Forwards!StartAligns

(* What an update, a removal or a switch of one row leaves.                 *)
LEMMA FwdChanges ==
    ASSUME FwdInv, NEW id \in DOMAIN fwd, NEW k \in [Forwards!FwdParts -> 0 .. MaxCopies],
           nat' = [nat EXCEPT ![id] = k], fwdId' = fwdId, fwdStarted' = FALSE,
           fwdFaults' \in 0 .. FwdMaxFaults, NEW r \in Forwards!Forwards,
           r.on => \A e \in Forwards!ListEnabled \ {id} :
                      ~Forwards!pfRangesOverlap(fwd[e].span, r.span),
           DOMAIN fwd' \subseteq DOMAIN fwd,
           \A i \in DOMAIN fwd' : fwd'[i] = IF i = id THEN r ELSE fwd[i]
    PROVE  FwdInv'
<1>1. id \in 1 .. FwdMaxId /\ id <= fwdId' /\ fwdId' >= fwdId /\ fwdId' \in Nat /\ id \in Nat
    BY FwdNumbers DEF FwdInv, FwdTypes
<1>2. /\ nat' \in [1 .. FwdMaxId -> [Forwards!FwdParts -> 0 .. MaxCopies]]
      /\ \A i \in 1 .. FwdMaxId : i > fwdId' => nat'[i] = Forwards!NoRules
    BY <1>1, FwdSets DEF FwdInv
<1>3. FwdTypes'
  <2>1. \A i \in DOMAIN fwd' : fwd'[i] \in Forwards!Forwards
      BY DEF FwdInv, FwdTypes
  <2>2. DOMAIN fwd' \subseteq 1 .. fwdId' /\ fwdId' \in 0 .. FwdMaxId
      BY DEF FwdInv, FwdTypes
  <2> QED
      BY <1>2, <2>1, <2>2 DEF FwdTypes, Forwards!Forwards, Forwards!FwdParts, Forwards!NoRules
<1>4. Forwards!NoListenConflict'
    BY <1>1, FwdFits DEF FwdInv
<1> QED
    BY <1>3, <1>4 DEF FwdInv, Forwards!StartAligns

(* UpdateForward checks the other rows, removes the old rules and adds the  *)
(* new ones.                                                                *)
LEMMA FwdUpdates ==
    ASSUME FwdInv, Forwards!UpdatePortForward
    PROVE  FwdInv'
<1>1. PICK id \in DOMAIN fwd, r \in Forwards!Forwards, listed \in SUBSET Forwards!FwdParts :
        \E n \in 0 .. Len(Forwards!fwdParts(r)) :
        /\ Forwards!checkConflict(id, r) /\ fwdId' = fwdId
        /\ Forwards!fwdUpdate(id, r) /\ fwdStarted' = FALSE
        /\ nat' = [nat EXCEPT ![id] =
                     IF r.on THEN Forwards!applyForward(Forwards!removeForward(@, listed), r, n)
                     ELSE Forwards!removeForward(@, listed)]
        /\ \A p \in Forwards!FwdParts : nat'[id][p] <= MaxCopies
        /\ Forwards!Fails(listed # Forwards!FwdParts \/ n < Len(Forwards!fwdParts(r)))
    BY DEF Forwards!UpdatePortForward
<1>2. PICK n :
        /\ nat' = [nat EXCEPT ![id] =
                     IF r.on THEN Forwards!applyForward(Forwards!removeForward(@, listed), r, n)
                     ELSE Forwards!removeForward(@, listed)]
        /\ Forwards!Fails(listed # Forwards!FwdParts \/ n < Len(Forwards!fwdParts(r)))
    BY <1>1
<1>3. /\ Forwards!checkConflict(id, r) /\ fwdId' = fwdId /\ Forwards!fwdUpdate(id, r)
      /\ fwdStarted' = FALSE /\ \A p \in Forwards!FwdParts : nat'[id][p] <= MaxCopies
    BY <1>1
<1> DEFINE left == Forwards!removeForward(nat[id], listed)
           k == IF r.on THEN Forwards!applyForward(left, r, n) ELSE left
<1>4. id \in 1 .. FwdMaxId /\ nat[id] \in [Forwards!FwdParts -> 0 .. MaxCopies]
    BY FwdNumbers DEF FwdInv, FwdTypes
<1>5. left \in [Forwards!FwdParts -> 0 .. MaxCopies]
    BY <1>4, FwdRemoves
<1>6. nat' = [nat EXCEPT ![id] = k]
    BY <1>2
<1>7. nat'[id] = k
  <2> HIDE DEF k
  <2> QED
      BY <1>4, <1>6 DEF FwdInv, FwdTypes
<1>8. k \in [Forwards!FwdParts -> 0 .. MaxCopies]
  <2>1. k \in [Forwards!FwdParts -> Nat]
    <3> HIDE DEF left
    <3>1. left \in [Forwards!FwdParts -> Nat]
        BY <1>5, FwdNumbers
    <3> QED
        BY <1>5, <3>1, FwdApplies
  <2>2. \A p \in Forwards!FwdParts : k[p] <= MaxCopies
      BY <1>3, <1>7
  <2> HIDE DEF k
  <2> QED
      BY <2>1, <2>2, FwdNumbers
<1>9. fwdFaults' \in 0 .. FwdMaxFaults
    BY <1>2, FwdCharge DEF FwdInv
<1>10. /\ DOMAIN fwd' = DOMAIN fwd
       /\ \A i \in DOMAIN fwd' : fwd'[i] = IF i = id THEN r ELSE fwd[i]
    BY <1>3 DEF Forwards!fwdUpdate
<1>11. \A e \in Forwards!ListEnabled \ {id} : ~Forwards!pfRangesOverlap(fwd[e].span, r.span)
    BY <1>3 DEF Forwards!checkConflict
<1> HIDE DEF k
<1> QED
    BY <1>3, <1>6, <1>8, <1>9, <1>10, <1>11, FwdChanges

(* DeleteForward.                                                           *)
LEMMA FwdDeletes ==
    ASSUME FwdInv, Forwards!DeletePortForward
    PROVE  FwdInv'
<1>1. PICK id \in DOMAIN fwd, listed \in SUBSET Forwards!FwdParts :
        /\ nat' = [nat EXCEPT ![id] = Forwards!removeForward(@, listed)]
        /\ Forwards!fwdDelete(id) /\ Forwards!Fails(listed # Forwards!FwdParts)
        /\ fwdStarted' = FALSE /\ fwdId' = fwdId
    BY DEF Forwards!DeletePortForward
<1>2. id \in 1 .. FwdMaxId /\ nat[id] \in [Forwards!FwdParts -> 0 .. MaxCopies]
    BY FwdNumbers DEF FwdInv, FwdTypes
<1>3. Forwards!removeForward(nat[id], listed) \in [Forwards!FwdParts -> 0 .. MaxCopies]
    BY <1>2, FwdRemoves
<1>4. nat' = [nat EXCEPT ![id] = Forwards!removeForward(nat[id], listed)]
    BY <1>1
<1>5. fwdFaults' \in 0 .. FwdMaxFaults
    BY <1>1, FwdCharge DEF FwdInv
<1> DEFINE r == [fwd[id] EXCEPT !.on = FALSE]
<1>6. r \in Forwards!Forwards /\ ~r.on
    BY DEF FwdInv, FwdTypes, Forwards!Forwards
<1>7. /\ DOMAIN fwd' \subseteq DOMAIN fwd
      /\ \A i \in DOMAIN fwd' : fwd'[i] = IF i = id THEN r ELSE fwd[i]
    BY <1>1 DEF Forwards!fwdDelete
<1> HIDE DEF r
<1> QED
    BY <1>1, <1>3, <1>4, <1>5, <1>6, <1>7, FwdChanges

(* EnableForward checks the other rows again.                               *)
LEMMA FwdEnables ==
    ASSUME FwdInv, Forwards!EnablePortForward
    PROVE  FwdInv'
<1>1. PICK id \in DOMAIN fwd : \E n \in 0 .. Len(Forwards!fwdParts(fwd[id])) :
        /\ Forwards!checkConflict(id, fwd[id])
        /\ nat' = [nat EXCEPT ![id] = Forwards!applyForward(@, fwd[id], n)]
        /\ \A p \in Forwards!FwdParts : nat'[id][p] <= MaxCopies
        /\ fwd' = [fwd EXCEPT ![id].on = TRUE] \/ fwd' = fwd
        /\ Forwards!Fails(n < Len(Forwards!fwdParts(fwd[id])))
        /\ fwdStarted' = FALSE /\ fwdId' = fwdId
    BY DEF Forwards!EnablePortForward, Forwards!fwdGet
<1>2. PICK n :
        /\ nat' = [nat EXCEPT ![id] = Forwards!applyForward(@, fwd[id], n)]
        /\ Forwards!Fails(n < Len(Forwards!fwdParts(fwd[id])))
    BY <1>1
<1>3. /\ Forwards!checkConflict(id, fwd[id]) /\ fwdStarted' = FALSE /\ fwdId' = fwdId
      /\ \A p \in Forwards!FwdParts : nat'[id][p] <= MaxCopies
      /\ fwd' = [fwd EXCEPT ![id].on = TRUE] \/ fwd' = fwd
    BY <1>1
<1> DEFINE k == Forwards!applyForward(nat[id], fwd[id], n)
<1>4. id \in 1 .. FwdMaxId /\ nat[id] \in [Forwards!FwdParts -> 0 .. MaxCopies]
    BY FwdNumbers DEF FwdInv, FwdTypes
<1>5. nat' = [nat EXCEPT ![id] = k]
    BY <1>2
<1>6. k \in [Forwards!FwdParts -> 0 .. MaxCopies]
  <2>1. k \in [Forwards!FwdParts -> Nat]
      BY <1>4, FwdApplies
  <2> HIDE DEF k
  <2>2. nat'[id] = k
      BY <1>4, <1>5 DEF FwdInv, FwdTypes
  <2>3. \A p \in Forwards!FwdParts : k[p] <= MaxCopies
      BY <1>3, <2>2
  <2> QED
      BY <2>1, <2>3, FwdNumbers
<1>7. fwdFaults' \in 0 .. FwdMaxFaults
    BY <1>2, FwdCharge DEF FwdInv
<1>8. \A e \in Forwards!ListEnabled \ {id} :
        ~Forwards!pfRangesOverlap(fwd[e].span, fwd[id].span)
    BY <1>3 DEF Forwards!checkConflict
<1>9. fwd[id] \in Forwards!Forwards
    BY DEF FwdInv, FwdTypes
<1> HIDE DEF k
<1>10. CASE fwd' = fwd
    BY <1>3, <1>5, <1>6, <1>7, <1>8, <1>9, <1>10, FwdChanges
<1>11. CASE fwd' = [fwd EXCEPT ![id].on = TRUE]
  <2> DEFINE r == [fwd[id] EXCEPT !.on = TRUE]
  <2>1. r \in Forwards!Forwards /\ r.span = fwd[id].span
      BY <1>9 DEF Forwards!Forwards
  <2>2. /\ DOMAIN fwd' = DOMAIN fwd
        /\ \A i \in DOMAIN fwd' : fwd'[i] = IF i = id THEN r ELSE fwd[i]
      BY <1>11
  <2> HIDE DEF r
  <2> QED
      BY <1>3, <1>5, <1>6, <1>7, <1>8, <2>1, <2>2, FwdChanges
<1> QED
    BY <1>3, <1>10, <1>11

(* DisableForward.                                                          *)
LEMMA FwdDisables ==
    ASSUME FwdInv, Forwards!DisablePortForward
    PROVE  FwdInv'
<1>1. PICK id \in DOMAIN fwd, listed \in SUBSET Forwards!FwdParts :
        /\ nat' = [nat EXCEPT ![id] = Forwards!removeForward(@, listed)]
        /\ fwd' = [fwd EXCEPT ![id].on = FALSE]
        /\ Forwards!Fails(listed # Forwards!FwdParts)
        /\ fwdStarted' = FALSE /\ fwdId' = fwdId
    BY DEF Forwards!DisablePortForward
<1>2. id \in 1 .. FwdMaxId /\ nat[id] \in [Forwards!FwdParts -> 0 .. MaxCopies]
    BY FwdNumbers DEF FwdInv, FwdTypes
<1>3. Forwards!removeForward(nat[id], listed) \in [Forwards!FwdParts -> 0 .. MaxCopies]
    BY <1>2, FwdRemoves
<1>4. nat' = [nat EXCEPT ![id] = Forwards!removeForward(nat[id], listed)]
    BY <1>1
<1>5. fwdFaults' \in 0 .. FwdMaxFaults
    BY <1>1, FwdCharge DEF FwdInv
<1> DEFINE r == [fwd[id] EXCEPT !.on = FALSE]
<1>6. r \in Forwards!Forwards /\ ~r.on
    BY DEF FwdInv, FwdTypes, Forwards!Forwards
<1>7. /\ DOMAIN fwd' = DOMAIN fwd
      /\ \A i \in DOMAIN fwd' : fwd'[i] = IF i = id THEN r ELSE fwd[i]
    BY <1>1
<1> HIDE DEF r
<1> QED
    BY <1>1, <1>3, <1>4, <1>5, <1>6, <1>7, FwdChanges

(* The ruleset is flushed from outside.                                     *)
LEMMA FwdFlushes ==
    ASSUME FwdInv, Forwards!FlushRuleset
    PROVE  FwdInv'
<1>1. /\ nat' = [i \in DOMAIN nat |-> Forwards!NoRules] /\ fwdStarted' = FALSE
      /\ fwd' = fwd /\ fwdId' = fwdId /\ fwdFaults' = fwdFaults
    BY DEF Forwards!FlushRuleset
<1>2. /\ nat' \in [1 .. FwdMaxId -> [Forwards!FwdParts -> 0 .. MaxCopies]]
      /\ \A i \in 1 .. FwdMaxId : nat'[i] = Forwards!NoRules
    BY <1>1, FwdNumbers DEF FwdInv, FwdTypes
<1>3. FwdTypes'
    BY <1>1, <1>2 DEF FwdInv, FwdTypes, Forwards!Forwards, Forwards!FwdParts, Forwards!NoRules
<1> QED
    BY <1>1, <1>3 DEF FwdInv, Forwards!NoListenConflict, Forwards!StartAligns,
       Forwards!pfRangesOverlap

(* A replay that could list the chains and met no error removes every rule  *)
(* of a row and makes those of the enabled rows; it touches no other rules. *)
FwdReplayed(k, aligned, after) ==
    /\ DOMAIN after = 1 .. FwdMaxId
    /\ \A i \in 1 .. FwdMaxId : after[i] \in [Forwards!FwdParts -> Nat]
    /\ \A i \in 1 .. FwdMaxId : i \notin DOMAIN fwd => after[i] = k[i]
    /\ aligned => \A i \in DOMAIN fwd :
           after[i] = IF fwd[i].on
                      THEN Forwards!applyForward(Forwards!NoRules, fwd[i],
                                                 Len(Forwards!fwdParts(fwd[i])))
                      ELSE Forwards!NoRules

(* What the replay makes of the rules of the rows.                          *)
LEMMA FwdReplays ==
    ASSUME FwdInv, NEW k \in [1 .. FwdMaxId -> [Forwards!FwdParts -> 0 .. MaxCopies]],
           NEW listed \in SUBSET Forwards!FwdParts, NEW bad, NEW n
    PROVE  FwdReplayed(k, bad = {} /\ listed = Forwards!FwdParts,
                       Forwards!ReapplyAll(k, listed, bad, n))
<1> DEFINE after == Forwards!ReapplyAll(k, listed, bad, n)
<1> DEFINE left(i) == Forwards!removeForward(k[i], listed)
<1>1. after = [i \in DOMAIN k |->
                 CASE i \notin DOMAIN fwd -> k[i]
                   [] i \in DOMAIN fwd /\ ~fwd[i].on -> left(i)
                   [] i \in DOMAIN fwd /\ fwd[i].on ->
                        Forwards!applyForward(left(i), fwd[i],
                          IF i \in bad THEN n ELSE Len(Forwards!fwdParts(fwd[i])))]
    BY DEF Forwards!ReapplyAll
<1>2. \A i \in 1 .. FwdMaxId : left(i) \in [Forwards!FwdParts -> 0 .. MaxCopies]
    BY FwdRemoves
<1>3. DOMAIN after = 1 .. FwdMaxId
    BY <1>1
<1>4. ASSUME NEW i \in 1 .. FwdMaxId, i \notin DOMAIN fwd PROVE after[i] = k[i]
    BY <1>1, <1>4
<1>5. ASSUME NEW i \in 1 .. FwdMaxId, i \in DOMAIN fwd, ~fwd[i].on PROVE after[i] = left(i)
    BY <1>1, <1>5
<1>6. ASSUME NEW i \in 1 .. FwdMaxId, i \in DOMAIN fwd, fwd[i].on
      PROVE  after[i] = Forwards!applyForward(left(i), fwd[i],
                          IF i \in bad THEN n ELSE Len(Forwards!fwdParts(fwd[i])))
    BY <1>1, <1>6
<1>7. ASSUME NEW i \in 1 .. FwdMaxId PROVE after[i] \in [Forwards!FwdParts -> Nat]
  <2>1. \A f \in [Forwards!FwdParts -> 0 .. MaxCopies] : f \in [Forwards!FwdParts -> Nat]
      BY FwdNumbers
  <2>2. CASE i \notin DOMAIN fwd
      BY <1>4, <2>1, <2>2
  <2>3. CASE i \in DOMAIN fwd /\ ~fwd[i].on
      BY <1>2, <1>5, <2>1, <2>3
  <2>4. CASE i \in DOMAIN fwd /\ fwd[i].on
    <3> HIDE DEF left
    <3> QED
      BY <1>2, <1>6, <2>4, FwdApplies
  <2> QED
      BY <2>2, <2>3, <2>4
<1>8. ASSUME bad = {}, listed = Forwards!FwdParts, NEW i \in DOMAIN fwd
      PROVE  after[i] = IF fwd[i].on
                        THEN Forwards!applyForward(Forwards!NoRules, fwd[i],
                                                   Len(Forwards!fwdParts(fwd[i])))
                        ELSE Forwards!NoRules
  <2>1. i \in 1 .. FwdMaxId
      BY FwdNumbers DEF FwdInv, FwdTypes
  <2>2. left(i) = Forwards!NoRules
      BY <1>8 DEF Forwards!removeForward, Forwards!NoRules
  <2> QED
      BY <1>5, <1>6, <1>8, <2>1, <2>2
<1> HIDE DEF left, after
<1>9. FwdReplayed(k, bad = {} /\ listed = Forwards!FwdParts, after)
    BY <1>3, <1>4, <1>7, <1>8 DEF FwdReplayed
<1> QED
    BY <1>9 DEF after

(* PanelStart: when the replay met no error, every row has its rules.       *)
LEMMA FwdStarts ==
    ASSUME FwdInv, Forwards!PanelStart
    PROVE  FwdInv'
<1>1. PICK rebooted \in BOOLEAN, listed \in {Forwards!FwdParts, {}},
          bad \in SUBSET Forwards!ListEnabled, n \in 0 .. 1 :
        /\ nat' = Forwards!ReapplyAll(
                     IF rebooted THEN [i \in DOMAIN nat |-> Forwards!NoRules] ELSE nat,
                     listed, bad, n)
        /\ \A i \in DOMAIN nat, p \in Forwards!FwdParts : nat'[i][p] <= MaxCopies
        /\ fwdStarted' = (bad = {} /\ listed = Forwards!FwdParts)
        /\ Forwards!Fails(~fwdStarted')
        /\ fwd' = fwd /\ fwdId' = fwdId
    BY DEF Forwards!PanelStart
<1> DEFINE k == IF rebooted THEN [i \in DOMAIN nat |-> Forwards!NoRules] ELSE nat
<1>2. k \in [1 .. FwdMaxId -> [Forwards!FwdParts -> 0 .. MaxCopies]]
    BY FwdNumbers DEF FwdInv, FwdTypes
<1>3. \A i \in 1 .. FwdMaxId : i > fwdId => k[i] = Forwards!NoRules
    BY DEF FwdInv, FwdTypes
<1>4. nat' = Forwards!ReapplyAll(k, listed, bad, n) /\ listed \in SUBSET Forwards!FwdParts
    BY <1>1
<1> HIDE DEF k
<1>5. FwdReplayed(k, bad = {} /\ listed = Forwards!FwdParts, nat')
    BY ONLY FwdInv, <1>2, <1>4, FwdReplays
<1> USE DEF FwdReplayed
<1>6. nat' = [i \in 1 .. FwdMaxId |-> nat'[i]]
    BY <1>4, <1>5 DEF Forwards!ReapplyAll
<1>7. \A i \in 1 .. FwdMaxId : nat'[i] \in [Forwards!FwdParts -> 0 .. MaxCopies]
  <2> SUFFICES ASSUME NEW i \in 1 .. FwdMaxId
               PROVE  nat'[i] \in [Forwards!FwdParts -> 0 .. MaxCopies]
      OBVIOUS
  <2>1. \A p \in Forwards!FwdParts : nat'[i][p] <= MaxCopies
      BY <1>1 DEF FwdInv, FwdTypes
  <2>2. nat'[i] \in [Forwards!FwdParts -> Nat]
      BY <1>5
  <2> QED
      BY <2>1, <2>2, FwdNumbers
<1>8. nat' \in [1 .. FwdMaxId -> [Forwards!FwdParts -> 0 .. MaxCopies]]
    BY <1>6, <1>7
<1>9. ASSUME NEW i \in 1 .. FwdMaxId, i > fwdId' PROVE nat'[i] = Forwards!NoRules
  <2>1. i > fwdId /\ i \notin DOMAIN fwd
      BY <1>1, <1>9, FwdNumbers DEF FwdInv, FwdTypes
  <2> QED
      BY <1>3, <1>5, <2>1
<1>10. fwdFaults' \in 0 .. FwdMaxFaults
    BY <1>1, FwdCharge DEF FwdInv
<1>11. FwdTypes'
    BY <1>1, <1>8, <1>9, <1>10
       DEF FwdInv, FwdTypes, Forwards!Forwards, Forwards!FwdParts, Forwards!NoRules
<1>12. Forwards!NoListenConflict'
    BY <1>1 DEF FwdInv, Forwards!NoListenConflict, Forwards!pfRangesOverlap
<1>13. Forwards!StartAligns'
  <2> SUFFICES ASSUME fwdStarted', NEW i \in DOMAIN fwd
               PROVE  nat'[i] = IF fwd[i].on
                                THEN Forwards!applyForward(Forwards!NoRules, fwd[i],
                                                           Len(Forwards!fwdParts(fwd[i])))
                                ELSE Forwards!NoRules
      BY <1>1 DEF Forwards!StartAligns
  <2>1. bad = {} /\ listed = Forwards!FwdParts
      BY <1>1
  <2> QED
      BY <1>5, <2>1
<1> QED
    BY <1>11, <1>12, <1>13 DEF FwdInv

(* The invariant holds on while the part does nothing.                      *)
LEMMA FwdStutter ==
    ASSUME FwdInv, UNCHANGED fwdVars
    PROVE  FwdInv'
<1>1. /\ fwd' = fwd /\ fwdId' = fwdId /\ nat' = nat /\ fwdStarted' = fwdStarted
      /\ fwdFaults' = fwdFaults
    BY DEF fwdVars
<1> QED
    BY <1>1 DEF FwdInv, FwdTypes, Forwards!NoListenConflict, Forwards!StartAligns,
       Forwards!Forwards, Forwards!FwdParts, Forwards!NoRules, Forwards!pfRangesOverlap,
       Forwards!applyForward, Forwards!fwdParts, Forwards!Contains

(* Every step of the forwards keeps the invariant.                          *)
LEMMA FwdStep ==
    ASSUME FwdInv, Forwards!Next
    PROVE  FwdInv'
BY FwdCreates, FwdUpdates, FwdDeletes, FwdEnables, FwdDisables, FwdFlushes, FwdStarts
   DEF Forwards!Next

(* What the invariant says of rows and rules.                               *)
LEMMA FwdShows == FwdInv => Forwards!TypeOK /\ Forwards!NoListenConflict /\ Forwards!StartAligns
BY DEF FwdInv, FwdTypes, Forwards!TypeOK

(* The parts of a state of the forwards are what they should be.            *)
LEMMA FwdTypesShow ==
    ASSUME FwdInv
    PROVE  Forwards!TypeOK
BY DEF FwdInv, FwdTypes, Forwards!TypeOK

-----------------------------------------------------------------------------
(* Scheduled tasks. A task is whole when its timer unit has its service     *)
(* unit and its command script, and what is enabled or active has a timer   *)
(* unit; the operations are described by the fields they leave behind.      *)
CronTimer == [OnCalendar : Vers]
CronService == [Unit : [StartLimitBurst : {1, 2}], Service : [Type : {"oneshot"}]]
CronUnit == [timer : CronTimer \cup {None}, svc : CronService \cup {None}, cmd : Vers \cup {None},
             loaded : CronTimer \cup {None}, enabled : BOOLEAN, active : BOOLEAN,
             running : BOOLEAN, result : {"success", "exit-code"}]
CronWhole(u) ==
    /\ u.timer # None => u.svc # None /\ u.cmd # None
    /\ u.enabled \/ u.active => u.timer # None
CronFields(v, timer, svc, cmd, linked, ticks) ==
    /\ v \in CronUnit /\ v.timer = timer /\ v.svc = svc /\ v.cmd = cmd
    /\ v.enabled = linked /\ v.active = ticks
CronInv ==
    /\ unit \in [Names -> CronUnit] /\ cronFaults \in Nat
    /\ cronFaults <= 1 => \A n \in Names : CronWhole(unit[n])

(* None is no version and no content of a file.                             *)
LEMMA CronNone ==
    /\ None \notin Vers /\ None \notin CronTimer /\ None \notin CronService
<1>1. /\ None \notin Vers /\ \A v \in Vers : [OnCalendar |-> v] # None
    BY CronAssumption DEF Cron!CronBounds
<1>2. \A burst \in {1, 2} :
        [Unit |-> [StartLimitBurst |-> burst], Service |-> [Type |-> "oneshot"]] # None
    BY CronAssumption DEF Cron!CronBounds
<1>3. ASSUME NEW t \in CronTimer PROVE t # None
  <2>1. t = [OnCalendar |-> t.OnCalendar] /\ t.OnCalendar \in Vers
    BY DEF CronTimer
  <2> QED
    BY <1>1, <2>1
<1>4. ASSUME NEW s \in CronService PROVE s # None
  <2>1. /\ s = [Unit |-> s.Unit, Service |-> s.Service] /\ s.Unit \in [StartLimitBurst : {1, 2}]
        /\ s.Service \in [Type : {"oneshot"}]
    BY DEF CronService
  <2>2. s.Unit = [StartLimitBurst |-> s.Unit.StartLimitBurst] /\ s.Unit.StartLimitBurst \in {1, 2}
    BY <2>1
  <2>3. s.Service = [Type |-> "oneshot"]
    BY <2>1
  <2>4. s = [Unit |-> [StartLimitBurst |-> s.Unit.StartLimitBurst], Service |-> [Type |-> "oneshot"]]
    BY <2>1, <2>2, <2>3
  <2> QED
    BY <1>2, <2>2, <2>4
<1> QED
    BY <1>1, <1>3, <1>4

(* The invariant holds at the start.                                        *)
LEMMA CronInit == Init => CronInv
<1> SUFFICES ASSUME Init PROVE CronInv
    OBVIOUS
<1>1. unit = [n \in Names |-> Cron!NoUnit] /\ cronFaults = 0
    BY DEF Init, Cron!Init
<1>2. Cron!NoUnit \in CronUnit /\ CronWhole(Cron!NoUnit)
    BY DEF Cron!NoUnit, CronUnit, CronWhole
<1> HIDE DEF Cron!NoUnit
<1> QED
    BY <1>1, <1>2 DEF CronInv

(* The steps on the unit of a task.                                         *)
LEMMA CronFiles ==
    ASSUME NEW u \in CronUnit, NEW timer \in CronTimer \cup {None},
           NEW svc \in CronService \cup {None}, NEW ok \in BOOLEAN
    PROVE  /\ CronFields(Cron!WriteCronUnitFile(u, timer, svc), timer, svc, u.cmd, u.enabled, u.active)
           /\ CronFields(Cron!RemoveCronUnitFile(u, ok), IF ok THEN None ELSE u.timer,
                         IF ok THEN None ELSE u.svc, u.cmd, u.enabled, u.active)
<1>1. ASSUME NEW t \in CronTimer \cup {None}, NEW s \in CronService \cup {None}
      PROVE  CronFields(Cron!WriteCronUnitFile(u, t, s), t, s, u.cmd, u.enabled, u.active)
    BY DEF Cron!WriteCronUnitFile, CronFields, CronUnit
<1>2. CASE ok
    BY <1>1, <1>2 DEF Cron!RemoveCronUnitFile
<1>3. CASE ~ok
    BY <1>1, <1>3 DEF Cron!RemoveCronUnitFile, CronFields
<1> QED
    BY <1>1, <1>2, <1>3

(* A daemon-reload leaves the files and the links alone.                    *)
LEMMA CronReloads ==
    ASSUME NEW u \in CronUnit, NEW ok \in BOOLEAN
    PROVE  CronFields(Cron!daemonReload(u, ok), u.timer, u.svc, u.cmd, u.enabled, u.active)
BY DEF Cron!daemonReload, CronFields, CronUnit

(* The command script is written or removed.                                *)
LEMMA CronCommands ==
    ASSUME NEW u \in CronUnit, NEW spec, spec.ver \in Vers, NEW ok \in BOOLEAN
    PROVE  /\ CronFields(Cron!writeTaskCommand(u, spec), u.timer, u.svc, spec.ver, u.enabled, u.active)
           /\ CronFields(Cron!removeTaskCommand(u, ok), u.timer, u.svc,
                         IF ok THEN None ELSE u.cmd, u.enabled, u.active)
<1>1. CronFields(Cron!writeTaskCommand(u, spec), u.timer, u.svc, spec.ver, u.enabled, u.active)
    BY DEF Cron!writeTaskCommand, CronFields, CronUnit
<1>2. CronFields([u EXCEPT !.cmd = None], u.timer, u.svc, None, u.enabled, u.active)
    BY DEF CronFields, CronUnit
<1> QED
    BY <1>1, <1>2 DEF Cron!removeTaskCommand, CronFields

(* A link or a state is set.                                                *)
LEMMA CronLinks ==
    ASSUME NEW u \in CronUnit, NEW on \in BOOLEAN, NEW v
    PROVE  /\ v = [u EXCEPT !.enabled = on] =>
                CronFields(v, u.timer, u.svc, u.cmd, on, u.active)
           /\ v = [u EXCEPT !.active = on] =>
                CronFields(v, u.timer, u.svc, u.cmd, u.enabled, on)
           /\ v = [u EXCEPT !.running = on] =>
                CronFields(v, u.timer, u.svc, u.cmd, u.enabled, u.active)
<1>1. v = [u EXCEPT !.enabled = on] => CronFields(v, u.timer, u.svc, u.cmd, on, u.active)
    BY DEF CronFields, CronUnit
<1>2. v = [u EXCEPT !.active = on] => CronFields(v, u.timer, u.svc, u.cmd, u.enabled, on)
    BY DEF CronFields, CronUnit
<1>3. v = [u EXCEPT !.running = on] => CronFields(v, u.timer, u.svc, u.cmd, u.enabled, u.active)
    BY DEF CronFields, CronUnit
<1> QED
    BY <1>1, <1>2, <1>3

(* What is rendered are contents of units.                                  *)
LEMMA CronRendered ==
    ASSUME NEW spec, spec.ver \in Vers, spec.retry \in {0, 1}
    PROVE  Cron!RenderTimer(spec) \in CronTimer /\ Cron!RenderCronService(spec) \in CronService
BY DEF Cron!RenderTimer, Cron!RenderCronService, CronTimer, CronService

(* The command and the two units are written, and systemd reads them.       *)
LEMMA CronWritten ==
    ASSUME NEW u \in CronUnit, NEW spec, spec.ver \in Vers, spec.retry \in {0, 1},
           NEW cmd, cmd = Cron!writeTaskCommand(u, spec),
           NEW timer, timer = Cron!WriteCronUnitFile(cmd, Cron!RenderTimer(spec), cmd.svc),
           NEW svc, svc = Cron!WriteCronUnitFile(cmd, Cron!RenderTimer(spec),
                                                 Cron!RenderCronService(spec)),
           NEW ready, ready = Cron!daemonReload(svc, TRUE)
    PROVE  /\ CronFields(cmd, u.timer, u.svc, spec.ver, u.enabled, u.active)
           /\ CronFields(timer, Cron!RenderTimer(spec), u.svc, spec.ver, u.enabled, u.active)
           /\ CronFields(svc, Cron!RenderTimer(spec), Cron!RenderCronService(spec), spec.ver,
                         u.enabled, u.active)
           /\ CronFields(ready, Cron!RenderTimer(spec), Cron!RenderCronService(spec), spec.ver,
                         u.enabled, u.active)
<1>1. CronFields(cmd, u.timer, u.svc, spec.ver, u.enabled, u.active)
    BY CronCommands
<1>2. /\ cmd \in CronUnit /\ cmd.svc = u.svc /\ cmd.cmd = spec.ver /\ cmd.enabled = u.enabled
      /\ cmd.active = u.active /\ cmd.svc \in CronService \cup {None}
    BY <1>1 DEF CronFields, CronUnit
<1>3. CronFields(timer, Cron!RenderTimer(spec), u.svc, spec.ver, u.enabled, u.active)
    BY <1>2, CronFiles, CronRendered
<1>4. CronFields(svc, Cron!RenderTimer(spec), Cron!RenderCronService(spec), spec.ver,
                 u.enabled, u.active)
    BY <1>2, CronFiles, CronRendered
<1>5. CronFields(ready, Cron!RenderTimer(spec), Cron!RenderCronService(spec), spec.ver,
                 u.enabled, u.active)
    BY <1>4, CronReloads DEF CronFields
<1> QED
    BY <1>1, <1>3, <1>4, <1>5

(* Create, whichever step fails.                                            *)
LEMMA CronCreated ==
    ASSUME NEW u \in CronUnit, NEW spec, spec.ver \in Vers, spec.retry \in {0, 1},
           NEW back \in BOOLEAN,
           NEW at \in {"none", "command", "timer", "service", "reload", "enable"},
           NEW v, v = Cron!Create(u, spec, at, back)
    PROVE  v \in CronUnit /\ (back /\ u.timer = None /\ CronWhole(u) => CronWhole(v))
<1> DEFINE cmd == Cron!writeTaskCommand(u, spec)
           t == Cron!RenderTimer(spec)
           s == Cron!RenderCronService(spec)
           timer == Cron!WriteCronUnitFile(cmd, t, cmd.svc)
           svc == Cron!WriteCronUnitFile(cmd, t, s)
           ready == Cron!daemonReload(svc, TRUE)
<1>1. /\ CronFields(cmd, u.timer, u.svc, spec.ver, u.enabled, u.active)
      /\ CronFields(timer, t, u.svc, spec.ver, u.enabled, u.active)
      /\ CronFields(svc, t, s, spec.ver, u.enabled, u.active)
      /\ CronFields(ready, t, s, spec.ver, u.enabled, u.active)
    BY CronWritten
<1>2. /\ t \in CronTimer /\ t # None /\ s \in CronService /\ s # None /\ spec.ver # None
    BY CronRendered, CronNone
<1>3. v = CASE at = "command" -> u
            [] at = "timer"   -> cmd
            [] at = "service" -> IF back THEN cmd ELSE timer
            [] at = "reload"  -> Cron!daemonReload(Cron!RemoveCronUnitFile(svc, back), back)
            [] at = "enable"  -> Cron!rollbackCreate(ready, back)
            [] at = "none"    -> Cron!enableTimer(ready, TRUE)
    BY DEF Cron!Create
<1> HIDE DEF cmd, t, s, timer, svc, ready
<1>4. CASE at \in {"command", "timer", "service"}
    BY <1>1, <1>3, <1>4 DEF CronFields, CronWhole
<1>5. CASE at = "reload"
  <2> DEFINE x == Cron!RemoveCronUnitFile(svc, back)
  <2>1. CronFields(x, IF back THEN None ELSE t, IF back THEN None ELSE s, spec.ver, u.enabled, u.active)
    BY <1>1, CronFiles DEF CronFields
  <2>2. v = Cron!daemonReload(x, back)
    BY <1>3, <1>5
  <2> HIDE DEF x
  <2>3. CronFields(v, x.timer, x.svc, x.cmd, x.enabled, x.active)
    BY <2>1, <2>2, CronReloads DEF CronFields
  <2> QED
    BY <2>1, <2>3 DEF CronFields, CronWhole
<1>6. CASE at = "enable"
  <2> DEFINE x == Cron!RemoveCronUnitFile(ready, back)
             y == Cron!removeTaskCommand(x, back)
  <2>1. CronFields(x, IF back THEN None ELSE t, IF back THEN None ELSE s, spec.ver, u.enabled, u.active)
    BY <1>1, CronFiles DEF CronFields
  <2>2. v = Cron!daemonReload(y, back)
    BY <1>3, <1>6 DEF Cron!rollbackCreate
  <2> HIDE DEF x
  <2>3. CronFields(y, x.timer, x.svc, IF back THEN None ELSE x.cmd, x.enabled, x.active)
    BY <2>1, CronCommands DEF CronFields
  <2> HIDE DEF y
  <2>4. CronFields(v, y.timer, y.svc, y.cmd, y.enabled, y.active)
    BY <2>2, <2>3, CronReloads DEF CronFields
  <2> QED
    BY <2>1, <2>3, <2>4 DEF CronFields, CronWhole
<1>7. CASE at = "none"
  <2>1. v = [ready EXCEPT !.enabled = TRUE]
    BY <1>3, <1>7 DEF Cron!enableTimer
  <2>3. ready \in CronUnit
    BY <1>1 DEF CronFields
  <2>4. CronFields(v, ready.timer, ready.svc, ready.cmd, TRUE, ready.active)
    BY ONLY <2>1, <2>3, CronLinks
  <2>2. CronFields(v, t, s, spec.ver, TRUE, u.active)
    BY ONLY <1>1, <2>4 DEF CronFields
  <2> QED
    BY <1>2, <2>2 DEF CronFields, CronWhole
<1> QED
    BY <1>4, <1>5, <1>6, <1>7

(* The roll-back of an update.                                              *)
CronSame(v, u) ==
    /\ v.timer = u.timer /\ (u.svc # None => v.svc = u.svc)
    /\ v.enabled = u.enabled /\ v.active = u.active

(* The roll-back restores units, link and activity.                         *)
LEMMA CronRolledBack ==
    ASSUME NEW u \in CronUnit, NEW now \in CronUnit, NEW back \in BOOLEAN,
           now.active \in {u.active, FALSE}, NEW v, v = Cron!rollback(now, u, back)
    PROVE  v \in CronUnit /\ (back => CronSame(v, u) /\ v.cmd = now.cmd)
<1> DEFINE s == IF u.svc = None THEN now.svc ELSE u.svc
           units == IF back THEN Cron!WriteCronUnitFile(now, u.timer, s) ELSE now
           x == Cron!daemonReload(units, back)
           on == IF back THEN u.enabled ELSE now.enabled
           linked == [x EXCEPT !.enabled = on]
<1>1. /\ u.timer \in CronTimer \cup {None} /\ s \in CronService \cup {None} /\ on \in BOOLEAN
      /\ u.svc # None => s = u.svc
    BY DEF CronUnit
<1>2. /\ units \in CronUnit /\ units.cmd = now.cmd /\ units.active = now.active
      /\ back => units.timer = u.timer /\ units.svc = s
  <2> HIDE DEF s
  <2>1. CronFields(Cron!WriteCronUnitFile(now, u.timer, s), u.timer, s, now.cmd,
                   now.enabled, now.active)
    BY <1>1, CronFiles
  <2>2. CASE back
    BY <2>1, <2>2 DEF CronFields
  <2>3. CASE ~back
    BY <2>3
  <2> QED
    BY <2>2, <2>3
<1>3. v = IF u.active THEN [linked EXCEPT !.active = back] ELSE linked
    BY DEF Cron!rollback, Cron!timerEnabled, Cron!timerActive, Cron!restartTimer
<1> HIDE DEF units, s
<1>4. CronFields(x, units.timer, units.svc, units.cmd, units.enabled, units.active)
    BY <1>2, CronReloads
<1> HIDE DEF x
<1>6. (back => on = u.enabled) /\ linked = [x EXCEPT !.enabled = on] /\ x \in CronUnit
    BY <1>4 DEF CronFields
<1> HIDE DEF linked, on
<1>5. CronFields(linked, x.timer, x.svc, x.cmd, on, x.active)
    BY ONLY <1>1, <1>6, CronLinks
<1>7. u.active \in BOOLEAN
    BY DEF CronUnit
<1>8. CASE u.active
  <2>3. v = [linked EXCEPT !.active = back] /\ linked \in CronUnit
    BY <1>3, <1>5, <1>8 DEF CronFields
  <2>1. CronFields(v, linked.timer, linked.svc, linked.cmd, linked.enabled, back)
    BY ONLY <2>3, back \in BOOLEAN, CronLinks
  <2>2. back => u.active = back
    BY <1>7, <1>8
  <2> QED
    BY <1>1, <1>2, <1>4, <1>5, <1>6, <2>1, <2>2 DEF CronFields, CronSame
<1>9. CASE ~u.active
  <2>1. now.active = u.active
    BY <1>7, <1>9
  <2> QED
    BY <1>1, <1>2, <1>3, <1>4, <1>5, <1>6, <1>9, <2>1 DEF CronFields, CronSame
<1> QED
    BY <1>8, <1>9

(* Update, whichever step fails.                                            *)
LEMMA CronUpdated ==
    ASSUME NEW u \in CronUnit, NEW spec, spec.ver \in Vers, spec.retry \in {0, 1},
           spec.enabled \in BOOLEAN, NEW back \in BOOLEAN,
           NEW at \in {"none", "command", "timer", "service", "reload", "enable", "restart"},
           NEW v, v = Cron!Update(u, spec, at, back)
    PROVE  /\ v \in CronUnit
           /\ back /\ u.timer # None /\ CronWhole(u) => CronWhole(v)
           /\ back /\ at # "none" => CronSame(v, u)
<1> DEFINE cmd == Cron!writeTaskCommand(u, spec)
           t == Cron!RenderTimer(spec)
           s == Cron!RenderCronService(spec)
           timer == Cron!WriteCronUnitFile(cmd, t, cmd.svc)
           svc == Cron!WriteCronUnitFile(cmd, t, s)
           ready == Cron!daemonReload(svc, TRUE)
           linked == [ready EXCEPT !.enabled = spec.enabled]
           stuck == Cron!restartTimer(linked, FALSE)
<1>1. /\ CronFields(cmd, u.timer, u.svc, spec.ver, u.enabled, u.active)
      /\ CronFields(timer, t, u.svc, spec.ver, u.enabled, u.active)
      /\ CronFields(svc, t, s, spec.ver, u.enabled, u.active)
      /\ CronFields(ready, t, s, spec.ver, u.enabled, u.active)
    BY CronWritten
<1>2. /\ t \in CronTimer /\ t # None /\ s \in CronService /\ s # None /\ spec.ver # None
    BY CronRendered, CronNone
<1>3. v = CASE at = "command" -> u
            [] at = "timer"   -> cmd
            [] at = "service" -> Cron!rollback(timer, u, back)
            [] at = "reload"  -> Cron!rollback(svc, u, back)
            [] at = "enable"  -> Cron!rollback(ready, u, back)
            [] at = "restart" -> Cron!rollback(stuck, u, back)
            [] at = "none"    -> IF Cron!timerActive(u) THEN Cron!restartTimer(linked, TRUE) ELSE linked
    BY DEF Cron!Update
<1> HIDE DEF cmd, t, s, timer, svc, ready
<1>9. linked = [ready EXCEPT !.enabled = spec.enabled] /\ ready \in CronUnit
    BY <1>1 DEF CronFields
<1> HIDE DEF linked
<1>10. CronFields(linked, ready.timer, ready.svc, ready.cmd, spec.enabled, ready.active)
    BY ONLY <1>9, spec.enabled \in BOOLEAN, CronLinks
<1>4. CronFields(linked, t, s, spec.ver, spec.enabled, u.active)
    BY ONLY <1>1, <1>10 DEF CronFields
<1>11. stuck = [linked EXCEPT !.active = FALSE] /\ linked \in CronUnit
    BY <1>4 DEF Cron!restartTimer, CronFields
<1> HIDE DEF stuck
<1>12. CronFields(stuck, linked.timer, linked.svc, linked.cmd, linked.enabled, FALSE)
    BY ONLY <1>11, CronLinks
<1>5. CronFields(stuck, t, s, spec.ver, spec.enabled, FALSE)
    BY ONLY <1>4, <1>12 DEF CronFields
<1>6. CASE at \in {"command", "timer"}
    BY <1>1, <1>2, <1>3, <1>6 DEF CronFields, CronWhole, CronSame
<1>7. CASE at \in {"service", "reload", "enable", "restart"}
  <2>1. PICK now \in {timer, svc, ready, stuck} : v = Cron!rollback(now, u, back)
    BY <1>3, <1>7
  <2>2. now \in CronUnit /\ now.active \in {u.active, FALSE} /\ now.cmd = spec.ver
    BY <1>1, <1>5, <2>1 DEF CronFields
  <2>3. v \in CronUnit /\ (back => CronSame(v, u) /\ v.cmd = spec.ver)
    BY ONLY <2>1, <2>2, u \in CronUnit, back \in BOOLEAN, CronRolledBack
  <2> QED
    BY <1>2, <2>3 DEF CronSame, CronWhole
<1>8. CASE at = "none"
  <2>1. CronFields(v, t, s, spec.ver, spec.enabled, u.active)
    <3>1. CASE u.active
      <4>1. v = [linked EXCEPT !.active = TRUE]
        BY <1>3, <1>8, <3>1 DEF Cron!timerActive, Cron!restartTimer
      <4>4. linked \in CronUnit
        BY <1>4 DEF CronFields
      <4>5. CronFields(v, linked.timer, linked.svc, linked.cmd, linked.enabled, TRUE)
        BY ONLY <4>1, <4>4, CronLinks
      <4>2. CronFields(v, t, s, spec.ver, spec.enabled, TRUE)
        BY ONLY <1>4, <4>5 DEF CronFields
      <4>3. u.active = TRUE
        BY <3>1 DEF CronUnit
      <4> QED
        BY <4>2, <4>3
    <3>2. CASE ~u.active
      BY <1>3, <1>4, <1>8, <3>2 DEF Cron!timerActive
    <3> QED
      BY <3>1, <3>2
  <2> QED
    BY <1>2, <1>8, <2>1 DEF CronFields, CronWhole
<1> QED
    BY <1>6, <1>7, <1>8

(* Delete, whichever step fails.                                            *)
LEMMA CronDeleted ==
    ASSUME NEW u \in CronUnit, NEW v,
           NEW at \in {"none", "disable", "stop", "service", "timer", "unit", "command", "reload"},
           v = Cron!Delete(u, at)
    PROVE  v \in CronUnit /\ (CronWhole(u) => CronWhole(v))
<1> DEFINE off == Cron!disableTimer(u, TRUE)
           stopped == Cron!stopTimer(off, TRUE)
           idle == [stopped EXCEPT !.running = FALSE]
           noTimer == Cron!WriteCronUnitFile(idle, None, idle.svc)
           gone == Cron!RemoveCronUnitFile(idle, TRUE)
           bare == Cron!removeTaskCommand(gone, TRUE)
<1>1. off = [u EXCEPT !.enabled = FALSE] /\ stopped = [off EXCEPT !.active = FALSE]
    BY DEF Cron!disableTimer, Cron!stopTimer
<1>2. v = CASE at = "disable" -> u
            [] at = "stop"    -> off
            [] at = "service" -> stopped
            [] at = "timer"   -> idle
            [] at = "unit"    -> noTimer
            [] at = "command" -> Cron!daemonReload(gone, TRUE)
            [] at = "reload"  -> bare
            [] at = "none"    -> Cron!daemonReload(bare, TRUE)
    BY DEF Cron!Delete
<1> HIDE DEF off, stopped
<1>3. CronFields(off, u.timer, u.svc, u.cmd, FALSE, u.active)
    BY ONLY <1>1, u \in CronUnit, CronLinks
<1>4. off \in CronUnit
    BY <1>3 DEF CronFields
<1>5. CronFields(stopped, off.timer, off.svc, off.cmd, off.enabled, FALSE)
    BY ONLY <1>1, <1>4, CronLinks
<1>6. stopped \in CronUnit /\ idle = [stopped EXCEPT !.running = FALSE]
    BY <1>5 DEF CronFields
<1> HIDE DEF idle
<1>7. CronFields(idle, stopped.timer, stopped.svc, stopped.cmd, stopped.enabled, stopped.active)
    BY ONLY <1>6, CronLinks
<1>8. idle \in CronUnit /\ idle.svc \in CronService \cup {None}
    BY <1>7 DEF CronFields, CronUnit
<1>9. CronFields(noTimer, None, idle.svc, idle.cmd, idle.enabled, idle.active)
    BY ONLY <1>8, None \in CronTimer \cup {None}, CronFiles
<1>10. CronFields(gone, None, None, idle.cmd, idle.enabled, idle.active)
    BY <1>8, CronFiles DEF CronFields
<1> HIDE DEF noTimer, gone
<1>11. gone \in CronUnit
    BY <1>10 DEF CronFields
<1>12. CronFields(bare, gone.timer, gone.svc, None, gone.enabled, gone.active)
    BY <1>11, CronCommands DEF Cron!removeTaskCommand, CronFields, CronUnit
<1> HIDE DEF bare
<1>13. bare \in CronUnit
    BY <1>12 DEF CronFields
<1>14. /\ CronFields(Cron!daemonReload(gone, TRUE), gone.timer, gone.svc, gone.cmd, gone.enabled,
                     gone.active)
       /\ CronFields(Cron!daemonReload(bare, TRUE), bare.timer, bare.svc, bare.cmd, bare.enabled,
                     bare.active)
    BY ONLY <1>11, <1>13, CronReloads
<1>15. /\ off.timer = u.timer /\ off.svc = u.svc /\ off.cmd = u.cmd /\ ~off.enabled
       /\ off.active = u.active /\ off \in CronUnit
    BY <1>3 DEF CronFields
<1>16. /\ stopped.timer = u.timer /\ stopped.svc = u.svc /\ stopped.cmd = u.cmd
       /\ ~stopped.enabled /\ ~stopped.active /\ stopped \in CronUnit
    BY <1>5, <1>15 DEF CronFields
<1>17. /\ idle.timer = u.timer /\ idle.svc = u.svc /\ idle.cmd = u.cmd
       /\ ~idle.enabled /\ ~idle.active /\ idle \in CronUnit
    BY <1>7, <1>16 DEF CronFields
<1>18. noTimer.timer = None /\ ~noTimer.enabled /\ ~noTimer.active /\ noTimer \in CronUnit
    BY <1>9, <1>17 DEF CronFields
<1>19. gone.timer = None /\ ~gone.enabled /\ ~gone.active /\ gone \in CronUnit
    BY <1>10, <1>17 DEF CronFields
<1>20. bare.timer = None /\ ~bare.enabled /\ ~bare.active /\ bare \in CronUnit
    BY <1>12, <1>19 DEF CronFields
<1>21. CASE at \in {"disable", "stop", "service", "timer", "unit", "reload"}
    BY <1>2, <1>15, <1>16, <1>17, <1>18, <1>20, <1>21 DEF CronWhole
<1>22. CASE at \in {"command", "none"}
  <2>1. \/ v = Cron!daemonReload(gone, TRUE)
        \/ v = Cron!daemonReload(bare, TRUE)
    BY <1>2, <1>22
  <2>2. v.timer = None /\ ~v.enabled /\ ~v.active /\ v \in CronUnit
    BY <1>14, <1>19, <1>20, <2>1 DEF CronFields
  <2> QED
    BY <2>2 DEF CronWhole
<1> QED
    BY <1>21, <1>22

(* The unit of one task becomes another one.                                *)
LEMMA CronCharge ==
    ASSUME CronInv, NEW k \in Nat, Cron!Charge(k)
    PROVE  cronFaults' \in Nat /\ cronFaults' = cronFaults + k /\ cronFaults' >= cronFaults
BY DEF CronInv, Cron!Charge

(* What the failing steps of a request add.                                 *)
LEMMA CronCost ==
    ASSUME NEW at, NEW back \in BOOLEAN
    PROVE  /\ Cron!Cost(at, back) \in Nat
           /\ at # "none" /\ ~back => Cron!Cost(at, back) = 2
           /\ at # "none" /\ back => Cron!Cost(at, back) = 1
BY DEF Cron!Cost

(* A step that changes the unit of one task keeps the invariant.            *)
LEMMA CronChanges ==
    ASSUME CronInv, NEW n \in Names, NEW v \in CronUnit, unit' = [unit EXCEPT ![n] = v],
           cronFaults' \in Nat, cronFaults' >= cronFaults,
           cronFaults' <= 1 /\ CronWhole(unit[n]) => CronWhole(v)
    PROVE  CronInv'
<1>1. unit' \in [Names -> CronUnit]
    BY DEF CronInv
<1>2. ASSUME cronFaults' <= 1, NEW m \in Names
      PROVE  CronWhole(unit'[m])
  <2>1. CronWhole(unit[m]) /\ CronWhole(unit[n])
    BY <1>2 DEF CronInv
  <2>2. unit'[m] = IF m = n THEN v ELSE unit[m]
    BY DEF CronInv
  <2> QED
    BY <1>2, <2>1, <2>2
<1>3. cronFaults' <= 1 => (\A m \in Names : CronWhole(unit[m]))'
    BY <1>2 DEF CronWhole
<1> QED
    BY <1>1, <1>3 DEF CronInv, CronUnit, CronTimer, CronService

(* What an update starts from.                                              *)
LEMMA CronLoads ==
    ASSUME CronInv, NEW n \in Names, unit[n].timer # None
    PROVE  LET old == Cron!loadTask(n)
           IN old.ver \in Vers /\ old.retry = 0 /\ old.enabled \in BOOLEAN
<1> DEFINE u == unit[n]
<1>1. u \in CronUnit
    BY DEF CronInv
<1>2. /\ u.timer \in CronTimer /\ u.svc \in CronService \cup {None} /\ u.cmd \in Vers \cup {None}
      /\ u.enabled \in BOOLEAN
    BY <1>1 DEF CronUnit
<1>3. u.timer.OnCalendar \in Vers
    BY <1>2 DEF CronTimer
<1>4. u.svc # None => "StartLimitBurst" \notin DOMAIN u.svc.Service
  <2>1. u.svc # None => u.svc.Service \in [Type : {"oneshot"}]
    BY <1>2 DEF CronService
  <2> QED
    BY <2>1
<1> QED
    BY <1>2, <1>3, <1>4 DEF Cron!loadTask, Cron!parseTimerUnit, Cron!parseServiceUnit

(* CreateTask.                                                              *)
LEMMA CronCreates ==
    ASSUME CronInv, Cron!CreateTask
    PROVE  CronInv' /\ cronLast' = "other"
<1>1. PICK n \in Names, spec \in Cron!TaskSpecs, back \in BOOLEAN,
           at \in {"none", "command", "timer", "service", "reload", "enable"} :
        /\ Cron!checkTaskNameUnique(n)
        /\ at \in {"none", "command", "timer"} => back
        /\ unit' = [unit EXCEPT ![n] = Cron!Create(unit[n], spec, at, back)]
        /\ Cron!Charge(Cron!Cost(at, back)) /\ cronLast' = "other"
    BY DEF Cron!CreateTask, Cron!Request
<1> DEFINE v == Cron!Create(unit[n], spec, at, back)
<1>2. unit[n] \in CronUnit /\ unit[n].timer = None
    BY <1>1 DEF CronInv, Cron!checkTaskNameUnique, Cron!listTimerNames, Cron!timerUnitExists
<1>3. spec.ver \in Vers /\ spec.retry \in {0, 1}
    BY DEF Cron!TaskSpecs, Cron!Retries
<1>4. v \in CronUnit /\ (back /\ unit[n].timer = None /\ CronWhole(unit[n]) => CronWhole(v))
    BY <1>2, <1>3, CronCreated
<1>5. unit' = [unit EXCEPT ![n] = v]
    BY <1>1
<1> HIDE DEF v
<1>6. cronFaults' \in Nat /\ cronFaults' >= cronFaults
    BY <1>1, CronCharge, CronCost
<1>7. cronFaults' <= 1 => back
  <2>1. ~back => Cron!Cost(at, back) = 2
    BY <1>1, CronCost
  <2> QED
    BY <1>1, <2>1, CronCharge DEF CronInv
<1> QED
    BY <1>1, <1>2, <1>4, <1>5, <1>6, <1>7, CronChanges

(* UpdateTask.                                                              *)
LEMMA CronUpdates ==
    ASSUME CronInv, Cron!UpdateTask
    PROVE  CronInv' /\ (cronLast' = "failed update" => Cron!FailedUpdateUndone)
<1>0. PICK n \in Names, ver \in Vers \cup {None}, retry \in Cron!Retries \cup {None},
           on \in {"yes", "no", None} :
        /\ Cron!timerUnitExists(n)
        /\ Cron!updateWith(n, Cron!merged(Cron!loadTask(n), ver, retry, on),
                           IF retry = None THEN "update without retry" ELSE "other")
    BY DEF Cron!UpdateTask
<1> DEFINE kind == IF retry = None THEN "update without retry" ELSE "other"
<1>22. kind # "failed update"
    OBVIOUS
<1> HIDE DEF kind
<1>1. PICK back \in BOOLEAN,
           at \in {"none", "command", "timer", "service", "reload", "enable", "restart"} :
        /\ at \in {"none", "command", "timer"} => back
        /\ unit' = [unit EXCEPT ![n] =
             Cron!Update(unit[n], Cron!merged(Cron!loadTask(n), ver, retry, on), at, back)]
        /\ Cron!Charge(Cron!Cost(at, back))
        /\ cronLast' = IF at = "none" THEN kind ELSE "failed update"
    BY <1>0 DEF Cron!updateWith, Cron!Request, kind
<1> DEFINE old == Cron!loadTask(n)
           linked == IF on = None THEN old.enabled ELSE on = "yes"
           spec == Cron!merged(old, ver, retry, on)
           v == Cron!Update(unit[n], spec, at, back)
<1>2. /\ unit[n] \in CronUnit /\ unit[n].timer # None /\ unit' = [unit EXCEPT ![n] = v]
      /\ Cron!Charge(Cron!Cost(at, back))
    BY <1>0, <1>1 DEF CronInv, Cron!timerUnitExists
<1>3. at \in {"none", "command", "timer"} => back
    BY <1>1
<1>4. cronLast' = "failed update" => at # "none"
    BY <1>1, <1>22
<1>5. old.ver \in Vers /\ old.retry = 0 /\ old.enabled \in BOOLEAN
    BY <1>2, CronLoads
<1> HIDE DEF old
<1>6. linked \in BOOLEAN
    BY <1>5
<1>18. spec = [ver |-> IF ver = None THEN old.ver ELSE ver,
               retry |-> IF retry = None THEN old.retry ELSE retry, enabled |-> linked]
    BY DEF Cron!merged
<1> HIDE DEF linked
<1>20. 0 \in Cron!Retries
    BY DEF Cron!Retries
<1>21. spec.retry \in Cron!Retries
    BY <1>5, <1>18, <1>20
<1>7. spec.ver \in Vers /\ spec.retry \in {0, 1} /\ spec.enabled \in BOOLEAN
    BY <1>5, <1>6, <1>18, <1>21 DEF Cron!Retries
<1> HIDE DEF spec
<1>8. /\ v \in CronUnit
      /\ back /\ unit[n].timer # None /\ CronWhole(unit[n]) => CronWhole(v)
      /\ back /\ at # "none" => CronSame(v, unit[n])
  <2>1. /\ unit[n] \in CronUnit /\ back \in BOOLEAN
        /\ at \in {"none", "command", "timer", "service", "reload", "enable", "restart"}
    BY <1>1, <1>2
  <2>2. v = Cron!Update(unit[n], spec, at, back)
    OBVIOUS
  <2> HIDE DEF v
  <2> QED
    BY ONLY <1>7, <2>1, <2>2, CronUpdated, SMTT(40)
<1> HIDE DEF v
<1>9. /\ cronFaults' \in Nat /\ cronFaults' >= cronFaults /\ cronFaults \in Nat
      /\ cronFaults' = cronFaults + Cron!Cost(at, back) /\ Cron!Cost(at, back) \in Nat
    BY <1>2, CronCharge, CronCost DEF CronInv
<1>10. ~back => Cron!Cost(at, back) = 2
    BY <1>3, CronCost
<1>11. cronFaults' <= 1 => back
    BY <1>9, <1>10
<1>12. CronInv'
    BY <1>2, <1>8, <1>9, <1>11, CronChanges
<1>19. cronFaults' = cronFaults + 1 => back
  <2>1. ~back => cronFaults' = cronFaults + 2
    BY <1>9, <1>10
  <2> QED
    BY <1>9, <2>1
<1>13. ASSUME cronLast' = "failed update", cronFaults' = cronFaults + 1, NEW m \in Names,
              unit[m].timer # None => unit[m].svc # None
       PROVE  <<unit'[m].timer, unit'[m].svc, unit'[m].enabled, unit'[m].active>>
                = <<unit[m].timer, unit[m].svc, unit[m].enabled, unit[m].active>>
  <2>1. back
    BY <1>13, <1>19
  <2>2. CronSame(v, unit[n])
    BY <1>4, <1>8, <1>13, <2>1
  <2>3. unit'[m] = IF m = n THEN v ELSE unit[m]
    BY <1>2 DEF CronInv
  <2> QED
    BY <1>2, <1>13, <2>2, <2>3 DEF CronSame
<1> QED
    BY <1>12, <1>13 DEF Cron!FailedUpdateUndone

(* DeleteTask.                                                              *)
LEMMA CronDeletes ==
    ASSUME CronInv, Cron!DeleteTask
    PROVE  CronInv' /\ cronLast' = "other"
<1>1. PICK n \in Names,
           at \in {"none", "disable", "stop", "service", "timer", "unit", "command", "reload"} :
        /\ unit' = [unit EXCEPT ![n] = Cron!Delete(unit[n], at)]
        /\ Cron!Charge(Cron!Cost(at, TRUE)) /\ cronLast' = "other"
    BY DEF Cron!DeleteTask, Cron!Request
<1> DEFINE v == Cron!Delete(unit[n], at)
<1>2. unit[n] \in CronUnit
    BY DEF CronInv
<1>3. v \in CronUnit /\ (CronWhole(unit[n]) => CronWhole(v))
    BY <1>2, CronDeleted
<1>4. unit' = [unit EXCEPT ![n] = v]
    BY <1>1
<1> HIDE DEF v
<1>5. cronFaults' \in Nat /\ cronFaults' >= cronFaults
    BY <1>1, CronCharge, CronCost
<1> QED
    BY <1>1, <1>3, <1>4, <1>5, CronChanges

(* EnableTask and DisableTask.                                              *)
LEMMA CronSwitches ==
    ASSUME CronInv, Cron!EnableTask \/ Cron!DisableTask
    PROVE  CronInv' /\ cronLast' = "other"
<1>1. CASE Cron!EnableTask
  <2>1. PICK n \in Names, ok \in BOOLEAN :
          /\ unit[n].timer # None
          /\ unit' = [unit EXCEPT ![n] = Cron!enableTimer(unit[n], ok)]
          /\ Cron!Charge(IF ok THEN 0 ELSE 1) /\ cronLast' = "other"
    BY <1>1 DEF Cron!EnableTask, Cron!Request, Cron!timerUnitExists
  <2> DEFINE u == unit[n]
             v == Cron!enableTimer(u, ok)
  <2>2. u \in CronUnit
    BY DEF CronInv
  <2>3. v = u \/ v = [u EXCEPT !.enabled = TRUE]
    BY DEF Cron!enableTimer
  <2>4. unit' = [unit EXCEPT ![n] = v] /\ u.timer # None
    BY <2>1
  <2> HIDE DEF u, v
  <2>5. v = [u EXCEPT !.enabled = TRUE] => CronFields(v, u.timer, u.svc, u.cmd, TRUE, u.active)
    BY ONLY <2>2, CronLinks
  <2>6. v \in CronUnit /\ (CronWhole(u) => CronWhole(v))
    BY <2>2, <2>3, <2>4, <2>5 DEF CronFields, CronWhole
  <2>7. cronFaults' \in Nat /\ cronFaults' >= cronFaults
    BY <2>1, CronCharge
  <2> QED
    BY <2>1, <2>4, <2>6, <2>7, CronChanges DEF u
<1>2. CASE Cron!DisableTask
  <2>1. PICK n \in Names, at \in {"none", "disable", "stop"} :
          /\ unit[n].timer # None
          /\ unit' = [unit EXCEPT ![n] =
                         Cron!stopTimer(Cron!disableTimer(unit[n], at # "disable"), at = "none")]
          /\ Cron!Charge(Cron!Cost(at, TRUE)) /\ cronLast' = "other"
    BY <1>2, CronInv DEF Cron!DisableTask, Cron!Request, Cron!timerUnitExists, CronInv
  <2> DEFINE u == unit[n]
             x == Cron!disableTimer(u, at # "disable")
             v == Cron!stopTimer(x, at = "none")
  <2>2. u \in CronUnit
    BY DEF CronInv
  <2>3. x = u \/ x = [u EXCEPT !.enabled = FALSE]
    BY DEF Cron!disableTimer
  <2>4. v = x \/ v = [x EXCEPT !.active = FALSE]
    BY DEF Cron!stopTimer
  <2>5. unit' = [unit EXCEPT ![n] = v] /\ u.timer # None
    BY <2>1
  <2> HIDE DEF u, x, v
  <2>6. x = [u EXCEPT !.enabled = FALSE] => CronFields(x, u.timer, u.svc, u.cmd, FALSE, u.active)
    BY ONLY <2>2, CronLinks
  <2>7. x \in CronUnit /\ x.timer = u.timer /\ x.svc = u.svc /\ x.cmd = u.cmd
    BY <2>2, <2>3, <2>6 DEF CronFields
  <2>8. v = [x EXCEPT !.active = FALSE] => CronFields(v, x.timer, x.svc, x.cmd, x.enabled, FALSE)
    BY ONLY <2>7, CronLinks
  <2>9. v \in CronUnit /\ v.timer = u.timer /\ v.svc = u.svc /\ v.cmd = u.cmd
    BY <2>4, <2>7, <2>8 DEF CronFields
  <2>10. CronWhole(u) => CronWhole(v)
    BY <2>5, <2>9 DEF CronWhole
  <2>11. cronFaults' \in Nat /\ cronFaults' >= cronFaults
    BY <2>1, CronCharge, CronCost
  <2> QED
    BY <2>1, <2>5, <2>9, <2>10, <2>11, CronChanges DEF u
<1> QED
    BY <1>1, <1>2

(* The service of a task starts and exits, and the host boots.              *)
LEMMA CronRuns ==
    ASSUME CronInv, Cron!RunNow \/ Cron!TimerFires \/ Cron!ServiceExits
    PROVE  CronInv' /\ cronFaults' = cronFaults
<1>1. PICK n \in Names : /\ \/ unit' = [unit EXCEPT ![n].running = TRUE]
                            \/ \E r \in {"success", "exit-code"} :
                                 unit' = [unit EXCEPT ![n].running = FALSE, ![n].result = r]
                         /\ cronFaults' = cronFaults
    BY DEF Cron!RunNow, Cron!TimerFires, Cron!ServiceExits, Cron!StartService
<1>2. unit \in [Names -> CronUnit] /\ unit[n] \in CronUnit
    BY DEF CronInv
<1>3. PICK v : /\ unit' = [unit EXCEPT ![n] = v]
               /\ \/ v = [unit[n] EXCEPT !.running = TRUE]
                  \/ \E r \in {"success", "exit-code"} :
                       v = [unit[n] EXCEPT !.running = FALSE, !.result = r]
  <2>1. CASE unit' = [unit EXCEPT ![n].running = TRUE]
    BY <1>2, <2>1
  <2>2. CASE \E r \in {"success", "exit-code"} :
               unit' = [unit EXCEPT ![n].running = FALSE, ![n].result = r]
    <3>1. PICK r \in {"success", "exit-code"} :
            unit' = [unit EXCEPT ![n].running = FALSE, ![n].result = r]
      BY <2>2
    <3>2. unit' = [unit EXCEPT ![n] = [unit[n] EXCEPT !.running = FALSE, !.result = r]]
      BY <1>2, <3>1
    <3> QED
      BY <3>2
  <2> QED
    BY <1>1, <2>1, <2>2
<1>4. v \in CronUnit /\ (CronWhole(unit[n]) => CronWhole(v))
    BY <1>2, <1>3 DEF CronUnit, CronWhole
<1>5. cronFaults' \in Nat /\ cronFaults' >= cronFaults
    BY <1>1 DEF CronInv
<1> QED
    BY <1>1, <1>3, <1>4, <1>5, CronChanges

(* The host boots.                                                          *)
LEMMA CronBoots ==
    ASSUME CronInv, Cron!Reboot
    PROVE  CronInv' /\ cronFaults' = cronFaults
<1> DEFINE v(n) == [unit[n] EXCEPT !.active = unit[n].enabled /\ unit[n].timer # None,
                                   !.loaded = unit[n].timer, !.running = FALSE,
                                   !.result = "success"]
<1>1. unit' = [n \in Names |-> v(n)] /\ cronFaults' = cronFaults
    BY DEF Cron!Reboot
<1>2. ASSUME NEW n \in Names
      PROVE  v(n) \in CronUnit /\ (CronWhole(unit[n]) => CronWhole(v(n)))
  <2> DEFINE ticks == unit[n].enabled /\ unit[n].timer # None
  <2>1. unit[n] \in CronUnit /\ ticks \in BOOLEAN
    BY DEF CronInv
  <2>2. /\ v(n) \in CronUnit /\ v(n).timer = unit[n].timer /\ v(n).svc = unit[n].svc
        /\ v(n).cmd = unit[n].cmd /\ v(n).enabled = unit[n].enabled /\ v(n).active = ticks
    <3>1. v(n) = [unit[n] EXCEPT !.active = ticks, !.loaded = unit[n].timer, !.running = FALSE,
                                 !.result = "success"]
      OBVIOUS
    <3> HIDE DEF v, ticks
    <3> QED
      BY <2>1, <3>1 DEF CronUnit
  <2> HIDE DEF v
  <2> QED
    BY <2>2 DEF CronWhole
<1> HIDE DEF v
<1>3. unit' \in [Names -> CronUnit] /\ \A n \in Names : unit'[n] = v(n)
    BY <1>1, <1>2
<1>4. ASSUME cronFaults <= 1, NEW n \in Names PROVE CronWhole(unit'[n])
    BY <1>2, <1>3, <1>4 DEF CronInv
<1>5. (cronFaults <= 1 => \A n \in Names : CronWhole(unit[n]))'
    BY <1>1, <1>4 DEF CronWhole
<1> QED
    BY <1>1, <1>3, <1>5 DEF CronInv, CronUnit, CronTimer, CronService

(* The invariant holds on while no unit changes.                            *)
LEMMA CronStutter ==
    ASSUME CronInv, UNCHANGED unit, cronFaults' \in Nat, cronFaults' >= cronFaults
    PROVE  CronInv'
BY DEF CronInv, CronWhole, CronUnit, CronTimer, CronService

(* Every step of the scheduled tasks keeps the invariant, and a failed      *)
(* update is undone.                                                        *)
LEMMA CronStep ==
    ASSUME CronInv, Cron!Next
    PROVE  CronInv' /\ Cron!FailedUpdateUndone
<1>1. CASE Cron!CreateTask
    BY <1>1, CronCreates DEF Cron!FailedUpdateUndone
<1>2. CASE Cron!UpdateTask
    BY <1>2, CronUpdates DEF Cron!FailedUpdateUndone
<1>3. CASE Cron!DeleteTask
    BY <1>3, CronDeletes DEF Cron!FailedUpdateUndone
<1>4. CASE Cron!EnableTask \/ Cron!DisableTask
    BY <1>4, CronSwitches DEF Cron!FailedUpdateUndone
<1>5. CASE Cron!RunNow \/ Cron!TimerFires \/ Cron!ServiceExits \/ Cron!Reboot
  <2>1. CronInv' /\ cronFaults' = cronFaults
    BY <1>5, CronRuns, CronBoots
  <2>2. cronFaults' # cronFaults + 1
    BY <2>1 DEF CronInv
  <2> QED
    BY <2>1, <2>2 DEF Cron!FailedUpdateUndone
<1>6. CASE Cron!sweep \/ Cron!sweepFails
  <2>1. UNCHANGED unit /\ cronFaults' \in Nat /\ cronFaults' >= cronFaults
    BY <1>6 DEF Cron!sweep, Cron!sweepFails, Cron!Charge, CronInv
  <2>2. CronInv'
    BY <2>1, CronStutter
  <2> QED
    BY <2>1, <2>2 DEF Cron!FailedUpdateUndone
<1> QED
    BY <1>1, <1>2, <1>3, <1>4, <1>5, <1>6 DEF Cron!Next

(* What the invariant says of the tasks.                                    *)
LEMMA CronShows == CronInv => Cron!WholeTasks
BY DEF CronInv, CronWhole, Cron!WholeTasks

-----------------------------------------------------------------------------
(* The rest of what a state of the scheduled tasks is made of.              *)
CronMore == notified \subseteq Names /\ cronFaults \in 0 .. CronMaxFaults

(* It holds at the start.                                                   *)
LEMMA CronMoreInit == Init => CronMore
<1>1. CronMaxFaults \in Nat
    BY CronAssumption DEF Cron!CronBounds
<1> QED
    BY <1>1 DEF Init, Cron!Init, CronMore

(* A step that counts its failures.                                         *)
CronCounts == cronFaults' \in 0 .. CronMaxFaults

(* The count stays in its bound.                                            *)
LEMMA CronCounted ==
    ASSUME CronMore, NEW k \in Nat, Cron!Charge(k)
    PROVE  CronCounts
<1>1. CronMaxFaults \in Nat
    BY CronAssumption DEF Cron!CronBounds
<1> QED
    BY <1>1 DEF CronMore, CronCounts, Cron!Charge

(* Every step of the scheduled tasks keeps it.                              *)
LEMMA CronMoreStep ==
    ASSUME CronMore, Cron!Next
    PROVE  CronMore'
<1>1. CASE Cron!CreateTask \/ Cron!UpdateTask \/ Cron!DeleteTask
  <2>1. /\ notified' = notified
        /\ \E at : \E back \in BOOLEAN : Cron!Charge(Cron!Cost(at, back))
    <3>1. CASE Cron!CreateTask
        BY <3>1 DEF Cron!CreateTask
    <3>2. CASE Cron!UpdateTask
      <4>1. \E n, spec, kind : Cron!updateWith(n, spec, kind)
          BY <3>2, Zenon DEF Cron!UpdateTask
      <4> QED
          BY <4>1 DEF Cron!updateWith
    <3>3. CASE Cron!DeleteTask
        BY <3>3 DEF Cron!DeleteTask
    <3> QED
        BY <1>1, <3>1, <3>2, <3>3
  <2>2. CronCounts
      BY <2>1, CronCost, CronCounted
  <2> QED
      BY <2>1, <2>2 DEF CronMore, CronCounts
<1>2. CASE Cron!EnableTask \/ Cron!DisableTask \/ Cron!sweepFails
  <2>1. notified' = notified
      BY <1>2 DEF Cron!EnableTask, Cron!DisableTask, Cron!sweepFails
  <2>2. \E k \in Nat : Cron!Charge(k)
    <3>1. CASE Cron!EnableTask
        BY <3>1 DEF Cron!EnableTask
    <3>2. CASE Cron!DisableTask
      <4>1. PICK at : Cron!Charge(Cron!Cost(at, TRUE))
          BY <3>2 DEF Cron!DisableTask
      <4> QED
          BY <4>1, CronCost
    <3>3. CASE Cron!sweepFails
        BY <3>3 DEF Cron!sweepFails
    <3> QED
        BY <1>2, <3>1, <3>2, <3>3
  <2>3. CronCounts
      BY <2>2, CronCounted
  <2> QED
      BY <2>1, <2>3 DEF CronMore, CronCounts
<1>3. CASE Cron!RunNow \/ Cron!TimerFires \/ Cron!ServiceExits \/ Cron!Reboot
  <2>1. UNCHANGED <<notified, cronFaults>>
      BY <1>3 DEF Cron!RunNow, Cron!TimerFires, Cron!ServiceExits, Cron!Reboot
  <2> QED
      BY <2>1 DEF CronMore
<1>4. CASE Cron!sweep
  <2>1. DOMAIN Cron!taskResults \subseteq Names
      BY DEF Cron!taskResults, Cron!listTimerNames
  <2>2. Cron!reconcile(Cron!taskResults).failed \subseteq DOMAIN Cron!taskResults
      BY DEF Cron!reconcile
  <2> QED
      BY <1>4, <2>1, <2>2 DEF CronMore, Cron!sweep
<1> QED
    BY <1>1, <1>2, <1>3, <1>4 DEF Cron!Next

(* The parts of a state of the scheduled tasks are what they should be.     *)
LEMMA CronTypes ==
    ASSUME CronInv, CronMore
    PROVE  Cron!TypeOK
<1>1. unit \in [Names -> CronUnit]
    BY DEF CronInv
<1>2. DOMAIN unit = Names
    BY <1>1
<1>3. ASSUME NEW n \in Names
      PROVE  /\ unit[n].cmd \in Vers \cup {None}
             /\ {unit[n].enabled, unit[n].active, unit[n].running} \subseteq BOOLEAN
  <2>1. unit[n] \in CronUnit
      BY <1>1
  <2> QED
      BY <2>1 DEF CronUnit
<1> QED
    BY <1>2, <1>3 DEF CronMore, Cron!TypeOK

-----------------------------------------------------------------------------
(* Scripts. While at most one step has failed every row has its file, and   *)
(* the files without a row are as many as the steps that failed; ids are    *)
(* those the sequence has given.                                            *)
ScriptsInv ==
    /\ nextId \in Nat \ {0} /\ scriptsFaults \in Nat
    /\ scripts \subseteq 1 .. (nextId - 1) /\ files \subseteq 1 .. (nextId - 1)
    /\ scriptsFaults <= 1 => /\ scripts \subseteq files
                             /\ Cardinality(files \ scripts) <= scriptsFaults

(* The invariant holds at the start.                                        *)
LEMMA ScriptsInit == Init => ScriptsInv
<1> SUFFICES ASSUME Init PROVE ScriptsInv
    OBVIOUS
<1>1. scripts = {} /\ files = {} /\ nextId = 1 /\ scriptsFaults = 0
    BY DEF Init, Scripts!Init
<1>2. files \ scripts = {} /\ Cardinality({}) = 0
    BY <1>1, FS_EmptySet
<1> QED
    BY <1>1, <1>2 DEF ScriptsInv

(* The left-over files are a finite set.                                    *)
LEMMA ScriptsFinite ==
    ASSUME ScriptsInv
    PROVE  /\ IsFiniteSet(files \ scripts) /\ Cardinality(files \ scripts) \in Nat
           /\ nextId \notin files /\ nextId \notin scripts
<1>1. IsFiniteSet(1 .. (nextId - 1))
    BY FS_Interval DEF ScriptsInv
<1>2. files \ scripts \subseteq 1 .. (nextId - 1)
    BY DEF ScriptsInv
<1>3. IsFiniteSet(files \ scripts)
    BY <1>1, <1>2, FS_Subset
<1>4. nextId \notin 1 .. (nextId - 1)
    BY DEF ScriptsInv
<1> QED
    BY <1>3, <1>4, FS_CardinalityType DEF ScriptsInv

(* CreateScript: the row, then the file.                                    *)
LEMMA ScriptsCreates ==
    ASSUME ScriptsInv, Scripts!CreateScript
    PROVE  ScriptsInv'
<1>1. PICK wrote \in BOOLEAN, undone \in BOOLEAN :
        /\ nextId' = nextId + 1
        /\ wrote => undone
        /\ wrote => scripts' = scripts \cup {nextId} /\ files' = files \cup {nextId}
        /\ ~wrote => files' = files
        /\ ~wrote /\ undone => scripts' = scripts
        /\ ~wrote /\ ~undone => scripts' = scripts \cup {nextId}
        /\ Scripts!Charge((IF wrote THEN 0 ELSE 1) + (IF undone THEN 0 ELSE 1))
    BY DEF Scripts!CreateScript, Scripts!repoCreateScript, Scripts!WriteScriptFile
<1>2. /\ nextId' \in Nat \ {0} /\ scripts' \subseteq 1 .. (nextId' - 1)
      /\ files' \subseteq 1 .. (nextId' - 1)
  <2>1. nextId \in 1 .. (nextId' - 1) /\ 1 .. (nextId - 1) \subseteq 1 .. (nextId' - 1)
        /\ nextId' \in Nat \ {0}
    BY <1>1 DEF ScriptsInv
  <2> QED
    BY <1>1, <2>1 DEF ScriptsInv
<1>3. CASE wrote
  <2>1. scriptsFaults' = scriptsFaults
    BY <1>1, <1>3 DEF Scripts!Charge, ScriptsInv
  <2>2. files' \ scripts' = files \ scripts
    BY <1>1, <1>3, ScriptsFinite
  <2> QED
    BY <1>1, <1>2, <1>3, <2>1, <2>2 DEF ScriptsInv
<1>4. CASE ~wrote /\ undone
  <2>1. scriptsFaults' = scriptsFaults + 1
    BY <1>1, <1>4 DEF Scripts!Charge, ScriptsInv
  <2>2. files' = files /\ scripts' = scripts
    BY <1>1, <1>4
  <2>3. scriptsFaults' <= 1 => scriptsFaults' = 1 /\ scriptsFaults = 0
    BY <2>1 DEF ScriptsInv
  <2>4. scriptsFaults = 0 =>
          scripts \subseteq files /\ Cardinality(files \ scripts) <= 0
    BY DEF ScriptsInv
  <2>5. scriptsFaults' <= 1 => scripts \subseteq files /\ Cardinality(files \ scripts) <= 1
    BY <2>3, <2>4, ScriptsFinite
  <2>6. scriptsFaults' \in Nat
    BY <2>1 DEF ScriptsInv
  <2> QED
    BY <1>2, <2>2, <2>3, <2>5, <2>6 DEF ScriptsInv
<1>5. CASE ~wrote /\ ~undone
  <2>1. scriptsFaults' = scriptsFaults + 2
    BY <1>1, <1>5 DEF Scripts!Charge, ScriptsInv
  <2>2. scriptsFaults' \in Nat /\ ~(scriptsFaults' <= 1)
    BY <2>1 DEF ScriptsInv
  <2> QED
    BY <1>2, <2>2 DEF ScriptsInv
<1> QED
    BY <1>3, <1>4, <1>5

(* UpdateScript writes the file of a row.                                   *)
LEMMA ScriptsUpdates ==
    ASSUME ScriptsInv, Scripts!UpdateScript
    PROVE  ScriptsInv'
<1>1. PICK id \in scripts, content \in BOOLEAN, wrote \in BOOLEAN :
        /\ files' = IF content /\ wrote THEN files \cup {id} ELSE files
        /\ Scripts!Charge(IF content /\ ~wrote THEN 1 ELSE 0)
        /\ UNCHANGED <<scripts, running, nextId>>
    BY DEF Scripts!UpdateScript
<1>2. /\ nextId' \in Nat \ {0} /\ scripts' \subseteq 1 .. (nextId' - 1)
      /\ files' \subseteq 1 .. (nextId' - 1) /\ scripts' = scripts
    BY <1>1 DEF ScriptsInv
<1>3. /\ scriptsFaults' \in Nat
      /\ scriptsFaults' = scriptsFaults \/ scriptsFaults' = scriptsFaults + 1
    BY <1>1 DEF Scripts!Charge, ScriptsInv
<1>4. ASSUME scriptsFaults' <= 1
      PROVE  scripts' \subseteq files' /\ Cardinality(files' \ scripts') <= scriptsFaults'
  <2>1. scriptsFaults <= 1 /\ scriptsFaults <= scriptsFaults' /\ scriptsFaults \in Nat
    BY <1>3, <1>4 DEF ScriptsInv
  <2>2. scripts \subseteq files /\ Cardinality(files \ scripts) <= scriptsFaults
    BY <2>1 DEF ScriptsInv
  <2>3. files' = files
    BY <1>1, <2>2
  <2> QED
    BY <1>2, <1>3, <2>1, <2>2, <2>3, ScriptsFinite
<1> QED
    BY <1>2, <1>3, <1>4 DEF ScriptsInv

(* DeleteScript: the row goes, then the file.                               *)
LEMMA ScriptsDeletes ==
    ASSUME ScriptsInv, Scripts!DeleteScript
    PROVE  ScriptsInv'
<1>1. PICK id \in scripts, removed \in BOOLEAN :
        /\ scripts' = scripts \ {id}
        /\ removed => files' = files \ {id}
        /\ ~removed => files' = files
        /\ Scripts!Charge(IF removed THEN 0 ELSE 1)
        /\ nextId' = nextId
    BY DEF Scripts!DeleteScript, Scripts!repoDeleteScript, Scripts!DeleteScriptFile
<1>2. /\ nextId' \in Nat \ {0} /\ scripts' \subseteq 1 .. (nextId' - 1)
      /\ files' \subseteq 1 .. (nextId' - 1)
    BY <1>1 DEF ScriptsInv
<1>3. CASE removed
  <2>1. scriptsFaults' = scriptsFaults
    BY <1>1, <1>3 DEF Scripts!Charge, ScriptsInv
  <2>2. files' \ scripts' = files \ scripts
    BY <1>1, <1>3
  <2> QED
    BY <1>1, <1>2, <1>3, <2>1, <2>2 DEF ScriptsInv
<1>4. CASE ~removed
  <2>1. scriptsFaults' = scriptsFaults + 1 /\ scriptsFaults' \in Nat
    BY <1>1, <1>4 DEF Scripts!Charge, ScriptsInv
  <2>2. ASSUME scriptsFaults' <= 1
        PROVE  scripts' \subseteq files' /\ Cardinality(files' \ scripts') <= scriptsFaults'
    <3>1. scriptsFaults = 0 /\ scriptsFaults' = 1
      BY <2>1, <2>2 DEF ScriptsInv
    <3>2. scripts \subseteq files /\ Cardinality(files \ scripts) <= 0
      BY <3>1 DEF ScriptsInv
    <3> DEFINE R == files \ scripts
    <3>3. IsFiniteSet(R) /\ Cardinality(R) = 0 /\ id \notin R
      BY <3>2, ScriptsFinite
    <3>4. files' \ scripts' = R \cup {id}
      BY <1>1, <1>4, <3>2
    <3> HIDE DEF R
    <3>5. Cardinality(R \cup {id}) = Cardinality(R) + 1
      BY <3>3, FS_AddElement
    <3>6. Cardinality(files' \ scripts') = 1
      BY <3>3, <3>4, <3>5
    <3> QED
      BY <1>1, <1>4, <3>1, <3>2, <3>6
  <2> QED
    BY <1>2, <2>1, <2>2 DEF ScriptsInv
<1> QED
    BY <1>3, <1>4

(* The invariant holds on while rows and files stay.                        *)
LEMMA ScriptsStutter ==
    ASSUME ScriptsInv, UNCHANGED <<scripts, files, nextId, scriptsFaults>>
    PROVE  ScriptsInv'
BY DEF ScriptsInv

(* Every step of the script library keeps the invariant.                    *)
LEMMA ScriptsStep ==
    ASSUME ScriptsInv, Scripts!Next
    PROVE  ScriptsInv'
<1>1. CASE Scripts!RunScript \/ Scripts!StopScript \/ Scripts!ScriptExits
  <2>1. UNCHANGED <<scripts, files, nextId, scriptsFaults>>
    BY <1>1 DEF Scripts!RunScript, Scripts!StopScript, Scripts!ScriptExits
  <2> QED
    BY <2>1, ScriptsStutter
<1> QED
    BY <1>1, ScriptsCreates, ScriptsUpdates, ScriptsDeletes DEF Scripts!Next

(* What the invariant says of rows and files.                               *)
LEMMA ScriptsShow == ScriptsInv => Scripts!RowsHaveFiles
<1>1. \A S : Scripts!Cardinality(S) = Cardinality(S)
    BY DEF Scripts!Cardinality, Cardinality
<1> QED
    BY <1>1 DEF ScriptsInv, Scripts!RowsHaveFiles

-----------------------------------------------------------------------------
(* The rest of what a state of the script library is made of.               *)
ScriptsMore ==
    /\ running \subseteq 1 .. (nextId - 1)
    /\ nextId \in 1 .. MaxScripts + 1 /\ scriptsFaults \in 0 .. ScriptsMaxFaults

(* The bounds are numbers.                                                  *)
LEMMA ScriptsNumbers ==
    MaxScripts \in Nat /\ ScriptsMaxFaults \in Nat
BY ScriptsAssumption DEF Scripts!ScriptsBounds

(* It holds at the start.                                                   *)
LEMMA ScriptsMoreInit == Init => ScriptsMore
BY ScriptsNumbers DEF Init, Scripts!Init, ScriptsMore

(* A failing step is counted.                                               *)
LEMMA ScriptsCounted ==
    ASSUME ScriptsMore, NEW k \in Nat, Scripts!Charge(k)
    PROVE  scriptsFaults' \in 0 .. ScriptsMaxFaults
BY ScriptsNumbers DEF ScriptsMore, Scripts!Charge

(* Every step of the script library keeps it.                               *)
LEMMA ScriptsMoreStep ==
    ASSUME ScriptsInv, ScriptsMore, Scripts!Next
    PROVE  ScriptsMore'
<1>1. CASE Scripts!CreateScript
  <2>1. PICK wrote \in BOOLEAN, undone \in BOOLEAN :
            /\ nextId <= MaxScripts /\ nextId' = nextId + 1 /\ running' = running
            /\ Scripts!Charge((IF wrote THEN 0 ELSE 1) + (IF undone THEN 0 ELSE 1))
      BY <1>1 DEF Scripts!CreateScript
  <2>2. scriptsFaults' \in 0 .. ScriptsMaxFaults
      BY <2>1, ScriptsCounted
  <2>3. nextId' \in 1 .. MaxScripts + 1 /\ 1 .. (nextId - 1) \subseteq 1 .. (nextId' - 1)
      BY <2>1, ScriptsNumbers DEF ScriptsMore
  <2> QED
      BY <2>1, <2>2, <2>3 DEF ScriptsMore
<1>2. CASE Scripts!UpdateScript \/ Scripts!DeleteScript
  <2>1. UNCHANGED <<running, nextId>> /\ \E k \in Nat : Scripts!Charge(k)
      BY <1>2 DEF Scripts!UpdateScript, Scripts!DeleteScript
  <2>2. scriptsFaults' \in 0 .. ScriptsMaxFaults
      BY <2>1, ScriptsCounted
  <2> QED
      BY <2>1, <2>2 DEF ScriptsMore
<1>3. CASE Scripts!RunScript \/ Scripts!StopScript \/ Scripts!ScriptExits
  <2>1. running' \subseteq running \cup scripts /\ UNCHANGED <<nextId, scriptsFaults>>
      BY <1>3 DEF Scripts!RunScript, Scripts!StopScript, Scripts!ScriptExits
  <2> QED
      BY <2>1 DEF ScriptsInv, ScriptsMore
<1> QED
    BY <1>1, <1>2, <1>3 DEF Scripts!Next

(* The parts of a state of the script library are what they should be.      *)
LEMMA ScriptsTypes ==
    ASSUME ScriptsInv, ScriptsMore
    PROVE  Scripts!TypeOK
<1>1. 1 .. (nextId - 1) \subseteq 1 .. MaxScripts
    BY ScriptsNumbers DEF ScriptsMore
<1> QED
    BY <1>1 DEF ScriptsInv, ScriptsMore, Scripts!TypeOK

-----------------------------------------------------------------------------
(* The SSH server. Once the drop-in is there it stays, so that the copy     *)
(* aside, from then on, is a file that was the drop-in.                     *)
SshdInv ==
    /\ sshdLast = "undone" => ~dropIn.bad /\ live = Sshd!Effective(dropIn)
    /\ dropIn = Sshd!NoFile => bak = Sshd!NoFile

(* The invariant holds at the start.                                        *)
LEMMA SshdInit == Init => SshdInv
BY DEF Init, Sshd!Init, SshdInv

(* A file with a port is a file.                                            *)
LEMMA SshdFile ==
    ASSUME NEW f, f.port # 0
    PROVE  f # Sshd!NoFile
BY DEF Sshd!NoFile

(* The invariant holds on while drop-in, copy and sshd stay.                *)
LEMMA SshdStutter ==
    ASSUME SshdInv, UNCHANGED <<other, dropIn, bak, live, sshdLast>>
    PROVE  SshdInv'
BY DEF SshdInv, Sshd!Effective, Sshd!NoFile

(* PutConfig replaces the drop-in and copies the old one aside.             *)
LEMMA SshdSaves ==
    ASSUME SshdInv, Sshd!PutConfig
    PROVE  SshdInv'
<1>1. PICK cfg \in Settings :
        /\ 1 <= cfg.port /\ sshdLast' = "none"
        /\ \/ dropIn' = cfg /\ bak' = (IF dropIn = Sshd!NoFile THEN bak ELSE dropIn)
           \/ dropIn' = dropIn /\ bak' = bak
    BY DEF Sshd!PutConfig, Sshd!SaveConfig, Sshd!saveDropIn
<1>2. cfg # Sshd!NoFile
    BY <1>1, SshdFile
<1>3. sshdLast' # "undone"
    BY <1>1
<1>4. dropIn' = Sshd!NoFile => bak' = Sshd!NoFile
    BY <1>1, <1>2 DEF SshdInv
<1> QED
    BY <1>3, <1>4 DEF SshdInv, Sshd!NoFile

(* PostReload: sshd reads the drop-in.                                      *)
LEMMA SshdReloads ==
    ASSUME SshdInv, Sshd!PostReload
    PROVE  SshdInv'
<1>1. /\ UNCHANGED <<other, dropIn, bak, sshdLast>>
      /\ live' = live \/ live' = Sshd!Effective(dropIn)
    BY DEF Sshd!PostReload, Sshd!ReloadSSH, Sshd!Reloaded, Sshd!host
<1>2. sshdLast = "undone" => live' = Sshd!Effective(dropIn)
    BY <1>1 DEF SshdInv
<1>3. (Sshd!Effective(dropIn))' = Sshd!Effective(dropIn)
    BY <1>1 DEF Sshd!Effective
<1>4. (sshdLast = "undone" => ~dropIn.bad /\ live = Sshd!Effective(dropIn))'
    BY <1>1, <1>2, <1>3 DEF SshdInv
<1>5. (dropIn = Sshd!NoFile => bak = Sshd!NoFile)'
    BY <1>1 DEF SshdInv, Sshd!NoFile
<1> QED
    BY <1>4, <1>5 DEF SshdInv

(* What a hardening writes has a port: the one it names, or the one in use. *)
SshdWanted(o) ==
    [port |-> IF o.port # 0 THEN o.port ELSE Sshd!GetConfig.port,
     password |-> IF o.noPassword THEN "no" ELSE Sshd!GetConfig.password,
     users |-> IF o.users # <<>> THEN o.users ELSE Sshd!GetConfig.users,
     bad |-> o.bad]

(* What a hardening writes is a file.                                       *)
LEMMA SshdWrites ==
    ASSUME NEW o
    PROVE  SshdWanted(o) # Sshd!NoFile
<1>1. Sshd!GetConfig.port = IF dropIn.port = 0 THEN 22 ELSE dropIn.port
    BY DEF Sshd!GetConfig, Sshd!applyLines, Sshd!Effective
<1>2. Sshd!GetConfig.port # 0
    BY <1>1
<1>3. SshdWanted(o).port # 0
    BY <1>2 DEF SshdWanted
<1> QED
    BY <1>3, SshdFile

(* PostHarden: refused, written, or put back.                               *)
LEMMA SshdHardens ==
    ASSUME SshdInv, Sshd!PostHarden
    PROVE  SshdInv'
<1>1. PICK o \in Options, at \in Sshd!Ats : Sshd!Harden(o, at)
    BY DEF Sshd!PostHarden
<1> DEFINE cfg == SshdWanted(o)
<1>2. /\ other' = other
      /\ \/ sshdLast' = "none" /\ UNCHANGED <<dropIn, bak, live>>
         \/ Sshd!TestConfig(dropIn) /\ Sshd!HardenApply(cfg, Sshd!Outcome(o), at)
    BY <1>1 DEF Sshd!Harden, SshdWanted, Sshd!host
<1>3. cfg # Sshd!NoFile
    BY SshdWrites
<1> HIDE DEF cfg
<1>4. CASE sshdLast' = "none" /\ UNCHANGED <<dropIn, bak, live>>
  <2>1. sshdLast' # "undone"
    BY <1>4
  <2>2. (dropIn = Sshd!NoFile => bak = Sshd!NoFile)'
    BY <1>4 DEF SshdInv, Sshd!NoFile
  <2> QED
    BY <2>1, <2>2 DEF SshdInv
<1>5. CASE Sshd!TestConfig(dropIn) /\ Sshd!HardenApply(cfg, Sshd!Outcome(o), at)
  <2>1. /\ bak' = IF dropIn = Sshd!NoFile THEN bak ELSE dropIn
        /\ dropIn' \in {cfg, IF bak' = Sshd!NoFile THEN cfg ELSE bak'}
    BY <1>5 DEF Sshd!HardenApply, Sshd!restoreBackup
  <2>2. dropIn' # Sshd!NoFile
    BY <1>3, <2>1
  <2>3. ASSUME sshdLast' = "undone"
        PROVE  ~dropIn'.bad /\ live' = Sshd!Effective(dropIn')
    <3>1. Sshd!Outcome(o) # "undone"
      BY DEF Sshd!Outcome
    <3>2. /\ bak' # Sshd!NoFile /\ at # "reload" /\ dropIn' = Sshd!restoreBackup(bak', cfg)
          /\ live' = Sshd!Reloaded(dropIn', at)
      BY <1>5, <2>3, <3>1 DEF Sshd!HardenApply
    <3>3. dropIn' = bak'
      BY <3>2 DEF Sshd!restoreBackup
    <3>4. bak' = dropIn
      BY <2>1, <3>2 DEF SshdInv
    <3>5. ~dropIn'.bad
      BY <1>5, <3>3, <3>4 DEF Sshd!TestConfig
    <3> QED
      BY <3>2, <3>5 DEF Sshd!Reloaded, Sshd!TestConfig
  <2>4. (Sshd!Effective(dropIn))' = Sshd!Effective(dropIn')
    BY <1>2 DEF Sshd!Effective
  <2>5. (sshdLast = "undone" => ~dropIn.bad /\ live = Sshd!Effective(dropIn))'
    BY <2>3, <2>4
  <2>6. (dropIn = Sshd!NoFile => bak = Sshd!NoFile)'
    BY <2>2 DEF Sshd!NoFile
  <2> QED
    BY <2>5, <2>6 DEF SshdInv
<1> QED
    BY <1>2, <1>4, <1>5

(* Every step of the SSH server keeps the invariant.                        *)
LEMMA SshdStep ==
    ASSUME SshdInv, Sshd!Next
    PROVE  SshdInv'
<1>1. CASE Sshd!PostKey \/ Sshd!DeleteKey \/ Sshd!PostKeyPair
  <2>1. UNCHANGED <<other, dropIn, bak, live, sshdLast>>
    BY <1>1 DEF Sshd!PostKey, Sshd!DeleteKey, Sshd!PostKeyPair, Sshd!GenerateKeyPair,
                Sshd!AddAuthorizedKey, Sshd!RemoveAuthorizedKey, Sshd!Keys, Sshd!host, Sshd!conf
  <2> QED
    BY <2>1, SshdStutter
<1>2. CASE Sshd!PostFail2ban \/ Sshd!PostFail2banReload \/ Sshd!PortTaken
  <2>1. UNCHANGED <<other, dropIn, bak, live, sshdLast>>
    BY <1>2 DEF Sshd!PostFail2ban, Sshd!PostFail2banReload, Sshd!InstallFail2ban,
                Sshd!ReloadFail2ban, Sshd!PortTaken, Sshd!host, Sshd!conf
  <2> QED
    BY <2>1, SshdStutter
<1> QED
    BY <1>1, <1>2, SshdSaves, SshdReloads, SshdHardens DEF Sshd!Next

(* What the invariant says of a roll-back.                                  *)
LEMMA SshdShows == SshdInv => Sshd!RolledBack
BY DEF SshdInv, Sshd!RolledBack, Sshd!TestConfig

(* What is left of the keys when those with a comment go.                   *)
LEMMA SshdKeysLeft ==
    ASSUME keys \in Seq(Comments), NEW c
    PROVE  Sshd!keysWithout(c) \in Seq(Comments) /\ Len(Sshd!keysWithout(c)) <= Len(keys)
<1> DEFINE n == Len(keys)
           V == Seq(Comments)
           b == <<>>
           Turn(i, v) == IF keys[i] # c THEN Append(v, keys[i]) ELSE v
           G == [i \in 1 .. n |-> [v \in V |-> Turn(i, v)]]
           F == CHOOSE f : f = [i \in 0 .. n |-> IF i = 0 THEN b ELSE Turn(i, f[i - 1])]
<1>1. n \in Nat /\ b \in V
    OBVIOUS
<1>2. ASSUME NEW i \in 1 .. n, NEW v \in V PROVE Turn(i, v) \in V
    OBVIOUS
<1>3. Sshd!keysWithout(c) = F[n]
    BY DEF Sshd!keysWithout
<1> HIDE DEF V, Turn, n, b
<1>4. G \in [1 .. n -> [V -> V]]
    BY <1>2
<1>5. ASSUME NEW f \in [0 .. n -> V], f[0] = b, \A i \in 1 .. n : f[i] = G[i][f[i - 1]]
      PROVE  f = [i \in 0 .. n |-> IF i = 0 THEN b ELSE Turn(i, f[i - 1])]
  <2>1. ASSUME NEW i \in 1 .. n PROVE f[i] = Turn(i, f[i - 1])
    <3>1. f[i - 1] \in V
        BY <1>1
    <3> QED
        BY <1>5, <3>1
  <2>2. \A i \in 0 .. n : f[i] = IF i = 0 THEN b ELSE Turn(i, f[i - 1])
      BY <1>1, <1>5, <2>1
  <2> QED
      BY <2>2
<1>6. ASSUME NEW f, f = [i \in 0 .. n |-> IF i = 0 THEN b ELSE Turn(i, f[i - 1])]
      PROVE  F = [i \in 0 .. n |-> IF i = 0 THEN b ELSE Turn(i, F[i - 1])]
    BY <1>6
<1> HIDE DEF F
<1>7. ASSUME NEW f \in [0 .. n -> V], f[0] = b, \A i \in 1 .. n : f[i] = G[i][f[i - 1]]
      PROVE  F[0] = b /\ \A i \in 1 .. n : F[i - 1] \in V => F[i] = G[i][F[i - 1]]
  <2>1. F = [i \in 0 .. n |-> IF i = 0 THEN b ELSE Turn(i, F[i - 1])]
      BY <1>5, <1>6, <1>7
  <2>2. F[0] = b /\ \A i \in 1 .. n : F[i] = Turn(i, F[i - 1])
      BY <1>1, <2>1
  <2> QED
      BY <2>2
<1> HIDE DEF G
<1>8. LoopOf(V, b, n, G, F)
    BY <1>1, <1>4, <1>7 DEF LoopOf
<1>9. \A i \in 0 .. n : F[i] \in V
    BY <1>8, LoopKeeps
<1>10. F[0] = b /\ \A i \in 1 .. n : F[i - 1] \in V /\ F[i] = G[i][F[i - 1]]
    BY <1>8, LoopRuns
<1>11. \A i \in 1 .. n : F[i - 1] \in V /\ F[i] = Turn(i, F[i - 1])
    BY <1>10 DEF G
<1> DEFINE Fine == {i \in 0 .. n : Len(F[i]) <= i}
<1>12. 0 \in Fine
  <2>1. Len(b) = 0
      BY DEF b
  <2> QED
      BY <1>1, <1>10, <2>1
<1>13. ASSUME NEW i \in 1 .. n, i - 1 \in Fine PROVE i \in Fine
  <2>1. F[i - 1] \in Seq(Comments) /\ (F[i] = F[i - 1] \/ F[i] = Append(F[i - 1], keys[i]))
      BY <1>11 DEF V, Turn
  <2>2. Len(F[i - 1]) \in Nat /\ Len(F[i - 1]) <= i - 1
      BY <1>13, <2>1
  <2>3. Len(F[i]) = Len(F[i - 1]) \/ Len(F[i]) = Len(F[i - 1]) + 1
      BY <2>1
  <2>4. Len(F[i]) <= i
      BY ONLY <2>2, <2>3, i \in 1 .. n
  <2> QED
      BY <1>1, <2>4
<1>14. \A i \in 0 .. n : i \in Fine
  <2> HIDE DEF Fine
  <2> QED
      BY <1>1, <1>12, <1>13, LoopSteps
<1>15. Len(F[n]) <= n
    BY <1>1, <1>14
<1> QED
    BY <1>1, <1>3, <1>9, <1>15 DEF V, n

-----------------------------------------------------------------------------
(* The rest of what a state of the SSH server is made of.                   *)
SshdOutcomes == {"none", "done", "same", "undone", "failed"}
SshdJail == f2b.active => f2b.enabled /\ f2b.jail /\ f2b.installed
SshdMore ==
    /\ other \in Other /\ include \in BOOLEAN /\ sshdFaults \in 0 .. SshdMaxFaults
    /\ keys \in Seq(Comments) /\ Len(keys) <= MaxKeys
    /\ sshdLast \in SshdOutcomes /\ SshdJail
    /\ ~include => dropIn = Sshd!NoFile

(* The bounds are numbers.                                                  *)
LEMMA SshdNumbers ==
    MaxKeys \in Nat /\ SshdMaxFaults \in Nat
BY SshdAssumption DEF Sshd!SshdBounds

(* It holds at the start.                                                   *)
LEMMA SshdMoreInit == Init => SshdMore
<1> SUFFICES ASSUME Init PROVE SshdMore
    OBVIOUS
<1>1. /\ other \in Other /\ include \in BOOLEAN /\ dropIn = Sshd!NoFile
      /\ keys = <<>> /\ sshdLast = "none" /\ sshdFaults = 0
      /\ f2b = [installed |-> FALSE, jail |-> FALSE, enabled |-> FALSE, active |-> FALSE]
    BY DEF Init, Sshd!Init
<1>2. SshdJail
    BY <1>1 DEF SshdJail
<1>3. keys \in Seq(Comments) /\ Len(keys) = 0
    BY <1>1
<1> QED
    BY <1>1, <1>2, <1>3, SshdNumbers DEF SshdMore, SshdOutcomes

(* A failing step is counted.                                               *)
LEMMA SshdCharged ==
    ASSUME SshdMore, NEW at, Sshd!Charge(at)
    PROVE  sshdFaults' \in 0 .. SshdMaxFaults
BY SshdNumbers DEF SshdMore, Sshd!Charge

(* A step that changes the drop-in, if there may be one, and no more.       *)
LEMMA SshdConfigures ==
    ASSUME SshdMore, UNCHANGED <<other, include, keys, f2b>>, sshdFaults' \in 0 .. SshdMaxFaults,
           sshdLast' \in SshdOutcomes, dropIn' = dropIn \/ include
    PROVE  SshdMore'
<1>1. (~include => dropIn = Sshd!NoFile)'
    BY DEF SshdMore, Sshd!NoFile
<1> QED
    BY <1>1 DEF SshdMore, SshdOutcomes, SshdJail

(* A step on the keys.                                                      *)
LEMMA SshdWritesKeys ==
    ASSUME SshdMore, NEW ks \in Seq(Comments), Len(ks) <= MaxKeys, NEW at, Sshd!Keys(ks, at)
    PROVE  SshdMore'
<1>1. /\ UNCHANGED <<other, include, dropIn, sshdLast, f2b>> /\ Sshd!Charge(at)
      /\ keys' = ks \/ keys' = keys
    BY DEF Sshd!Keys, Sshd!host, Sshd!conf
<1>2. sshdFaults' \in 0 .. SshdMaxFaults
    BY <1>1, SshdCharged
<1>3. keys' \in Seq(Comments) /\ Len(keys') <= MaxKeys
    BY <1>1 DEF SshdMore
<1>4. (~include => dropIn = Sshd!NoFile)'
    BY <1>1 DEF SshdMore, Sshd!NoFile
<1> QED
    BY <1>1, <1>2, <1>3, <1>4 DEF SshdMore, SshdOutcomes, SshdJail

(* Every step of the SSH server keeps it.                                   *)
LEMMA SshdMoreStep ==
    ASSUME SshdMore, Sshd!Next
    PROVE  SshdMore'
<1>1. CASE Sshd!PutConfig
  <2>1. /\ UNCHANGED <<other, include, keys, f2b>> /\ (dropIn' = dropIn \/ include)
        /\ sshdLast' = "none" /\ \E at : Sshd!Charge(at)
      BY <1>1 DEF Sshd!PutConfig, Sshd!SaveConfig, Sshd!saveDropIn, Sshd!hasSSHDIncludeDir, Sshd!host
  <2> QED
      BY <2>1, SshdCharged, SshdConfigures DEF SshdOutcomes
<1>2. CASE Sshd!PostReload
  <2>1. /\ UNCHANGED <<other, include, keys, f2b, dropIn, sshdLast>> /\ \E at : Sshd!Charge(at)
      BY <1>2 DEF Sshd!PostReload, Sshd!ReloadSSH, Sshd!host
  <2>2. sshdLast' \in SshdOutcomes
      BY <2>1 DEF SshdMore
  <2> QED
      BY <2>1, <2>2, SshdCharged, SshdConfigures
<1>3. CASE Sshd!PostHarden
  <2>1. PICK o, at : Sshd!Harden(o, at)
      BY <1>3 DEF Sshd!PostHarden
  <2>2. /\ UNCHANGED <<other, include, keys, f2b>> /\ Sshd!Charge(at)
        /\ \/ sshdLast' = "none" /\ dropIn' = dropIn
           \/ include /\ \E cfg : Sshd!HardenApply(cfg, Sshd!Outcome(o), at)
      BY <2>1 DEF Sshd!Harden, Sshd!hasSSHDIncludeDir, Sshd!host
  <2>3. ASSUME NEW cfg, Sshd!HardenApply(cfg, Sshd!Outcome(o), at)
        PROVE  sshdLast' \in SshdOutcomes
      BY <2>3 DEF Sshd!HardenApply, Sshd!Outcome, SshdOutcomes
  <2>4. sshdLast' \in SshdOutcomes /\ (dropIn' = dropIn \/ include)
      BY <2>2, <2>3 DEF SshdOutcomes
  <2> QED
      BY <2>2, <2>4, SshdCharged, SshdConfigures
<1>4. CASE Sshd!PostKey \/ Sshd!PostKeyPair
  <2>1. PICK c \in Comments, at \in Sshd!Ats : Sshd!AddAuthorizedKey(c, at)
      BY <1>4 DEF Sshd!PostKey, Sshd!PostKeyPair, Sshd!GenerateKeyPair
  <2>2. Len(keys) < MaxKeys /\ Sshd!Keys(Append(keys, c), at)
      BY <2>1 DEF Sshd!AddAuthorizedKey
  <2>3. Append(keys, c) \in Seq(Comments) /\ Len(Append(keys, c)) <= MaxKeys
      BY <2>2, SshdNumbers DEF SshdMore
  <2> QED
      BY <2>2, <2>3, SshdWritesKeys
<1>5. CASE Sshd!DeleteKey
  <2>1. PICK c \in Comments, at \in Sshd!Ats : Sshd!Keys(Sshd!keysWithout(c), at)
      BY <1>5 DEF Sshd!DeleteKey, Sshd!RemoveAuthorizedKey
  <2> DEFINE left == Sshd!keysWithout(c)
  <2>2. keys \in Seq(Comments) /\ Len(keys) <= MaxKeys
      BY DEF SshdMore
  <2>3. left \in Seq(Comments) /\ Len(left) <= Len(keys)
      BY <2>2, SshdKeysLeft
  <2>4. Sshd!Keys(left, at)
      BY <2>1
  <2> HIDE DEF left
  <2>5. Len(left) <= MaxKeys
      BY <2>2, <2>3, SshdNumbers
  <2> QED
      BY <2>3, <2>4, <2>5, SshdWritesKeys
<1>6. CASE Sshd!PostFail2ban
  <2>1. PICK at \in Sshd!Ats :
            /\ Sshd!Charge(at) /\ UNCHANGED <<other, include, dropIn, sshdLast, keys>>
            /\ f2b' = [installed |-> at # "package", jail |-> at \notin {"package", "jail"},
                       enabled |-> at \in {"none", "start"}, active |-> at = "none"]
      BY <1>6 DEF Sshd!PostFail2ban, Sshd!InstallFail2ban, Sshd!host, Sshd!conf
  <2>2. sshdFaults' \in 0 .. SshdMaxFaults
      BY <2>1, SshdCharged
  <2>3. SshdJail'
      BY <2>1 DEF SshdJail
  <2>4. (~include => dropIn = Sshd!NoFile)'
      BY <2>1 DEF SshdMore, Sshd!NoFile
  <2> QED
      BY <2>1, <2>2, <2>3, <2>4 DEF SshdMore, SshdOutcomes
<1>7. CASE Sshd!PostFail2banReload \/ Sshd!PortTaken
  <2>1. UNCHANGED <<other, include, dropIn, sshdLast, keys, f2b>>
      BY <1>7 DEF Sshd!PostFail2banReload, Sshd!ReloadFail2ban, Sshd!PortTaken, Sshd!host, Sshd!conf
  <2>2. UNCHANGED sshdFaults \/ \E at : Sshd!Charge(at)
      BY <1>7 DEF Sshd!PostFail2banReload, Sshd!ReloadFail2ban, Sshd!PortTaken
  <2>3. sshdFaults' \in 0 .. SshdMaxFaults /\ sshdLast' \in SshdOutcomes
      BY <2>1, <2>2, SshdCharged DEF SshdMore
  <2> QED
      BY <2>1, <2>3, SshdConfigures
<1> QED
    BY <1>1, <1>2, <1>3, <1>4, <1>5, <1>6, <1>7 DEF Sshd!Next

(* It holds on while nothing happens.                                       *)
LEMMA SshdMoreStutter ==
    ASSUME SshdMore, UNCHANGED sshdVars
    PROVE  SshdMore'
<1>1. UNCHANGED <<other, include, keys, f2b, sshdFaults, sshdLast, dropIn>>
    BY DEF sshdVars
<1> QED
    BY <1>1, SshdConfigures DEF SshdMore

(* The parts of a state of the SSH server are what they should be.          *)
LEMMA SshdTypes ==
    ASSUME SshdMore
    PROVE  Sshd!TypeOK
<1>1. keys \in [1 .. Len(keys) -> Comments] /\ Len(keys) \in 0 .. MaxKeys
    BY SshdNumbers DEF SshdMore
<1>2. keys \in UNION {[1 .. n -> Comments] : n \in 0 .. MaxKeys}
    BY ONLY <1>1
<1> QED
    BY <1>2 DEF SshdMore, SshdOutcomes, SshdJail, Sshd!TypeOK

-----------------------------------------------------------------------------
(* systemd units. A unit is in step when systemd has loaded its file and    *)
(* its process, if any, was started from it. While at most one step has     *)
(* failed every unit is, except those whose deletion failed at the reload,  *)
(* of which there is none before the first failure.                         *)
UnitsInStep(u) == u.loaded = u.file /\ u.active \in {None, u.file}
UnitsFunction(f) == f = [n \in Units!Services |-> f[n]]
UnitsInv ==
    /\ UnitsFunction(file) /\ UnitsFunction(loaded) /\ UnitsFunction(enabled)
    /\ UnitsFunction(unitsActive)
    /\ unitsFaults \in Nat /\ (unitsFaults = 0 => unread = {})
    /\ unitsFaults <= 1 => \A n \in Units!Services \ unread :
         loaded[n] = file[n] /\ unitsActive[n] \in {None, file[n]}

(* The invariant holds at the start.                                        *)
LEMMA UnitsInit == Init => UnitsInv
<1> SUFFICES ASSUME Init PROVE UnitsInv
    OBVIOUS
<1>1. /\ file = [n \in Units!Services |-> IF n = Panel THEN Units!PanelUnit ELSE None]
      /\ loaded = file /\ unitsActive = file
      /\ enabled = [n \in Units!Services |-> n = Panel]
      /\ unread = {} /\ unitsFaults = 0
    BY DEF Init, Units!Init
<1> HIDE DEF Units!PanelUnit
<1>2. UnitsFunction(file) /\ UnitsFunction(enabled)
    BY <1>1 DEF UnitsFunction
<1> QED
    BY <1>1, <1>2 DEF UnitsInv

(* The steps on a unit, by the fields they leave behind.                    *)
UnitsRecord(u) == u = [file |-> u.file, loaded |-> u.loaded, enabled |-> u.enabled,
                       active |-> u.active, reloaded |-> u.reloaded]
UnitsFields(v, content, read, linked, process) ==
    /\ UnitsRecord(v)
    /\ v.file = content /\ v.loaded = read /\ v.enabled = linked /\ v.active = process

(* One field of a unit is set.                                              *)
LEMMA UnitsPuts ==
    ASSUME NEW u, UnitsRecord(u), NEW x, NEW v
    PROVE  /\ v = [u EXCEPT !.file = x] => UnitsFields(v, x, u.loaded, u.enabled, u.active)
           /\ v = [u EXCEPT !.enabled = x] => UnitsFields(v, u.file, u.loaded, x, u.active)
           /\ v = [u EXCEPT !.active = x] => UnitsFields(v, u.file, u.loaded, u.enabled, x)
BY DEF UnitsRecord, UnitsFields

(* The file is written.                                                     *)
LEMMA UnitsWrites ==
    ASSUME NEW u, UnitsRecord(u), NEW content
    PROVE  UnitsFields(Units!writeUnitFile(u, content), content, u.loaded, u.enabled, u.active)
<1> DEFINE v == Units!writeUnitFile(u, content)
<1>1. v = [u EXCEPT !.file = content]
    BY DEF Units!writeUnitFile
<1> HIDE DEF v
<1>2. UnitsFields(v, content, u.loaded, u.enabled, u.active)
    BY <1>1, UnitsPuts
<1> QED
    BY <1>2 DEF v

(* The file is removed.                                                     *)
LEMMA UnitsRemoves ==
    ASSUME NEW u, UnitsRecord(u)
    PROVE  UnitsFields(Units!removeUnitFile(u, TRUE), None, u.loaded, u.enabled, u.active)
<1> DEFINE v == Units!removeUnitFile(u, TRUE)
<1>1. v = [u EXCEPT !.file = None]
    BY DEF Units!removeUnitFile
<1> HIDE DEF v
<1>2. UnitsFields(v, None, u.loaded, u.enabled, u.active)
    BY <1>1, UnitsPuts
<1> QED
    BY <1>2 DEF v

(* systemd reads the file.                                                  *)
LEMMA UnitsReloads ==
    ASSUME NEW u, UnitsRecord(u)
    PROVE  UnitsFields(Units!daemonReload(u, TRUE), u.file, u.file, u.enabled, u.active)
<1> DEFINE v == Units!daemonReload(u, TRUE)
<1>1. v = [file |-> u.file, loaded |-> u.file, enabled |-> u.enabled, active |-> u.active,
           reloaded |-> TRUE]
    BY DEF Units!daemonReload, UnitsRecord
<1> HIDE DEF v
<1>2. UnitsFields(v, u.file, u.file, u.enabled, u.active)
    BY <1>1 DEF UnitsFields, UnitsRecord
<1> QED
    BY <1>2 DEF v

(* The process is started anew, or that fails and it is gone.               *)
LEMMA UnitsRestarts ==
    ASSUME NEW u, UnitsRecord(u)
    PROVE  /\ UnitsFields(Units!RestartUnit(u, TRUE), u.file, u.loaded, u.enabled, u.loaded)
           /\ UnitsFields(Units!RestartUnit(u, FALSE), u.file, u.loaded, u.enabled, None)
<1> DEFINE v == Units!RestartUnit(u, TRUE)
           w == Units!RestartUnit(u, FALSE)
<1>1. v = [u EXCEPT !.active = u.loaded] /\ w = [u EXCEPT !.active = None]
    BY DEF Units!RestartUnit
<1> HIDE DEF v, w
<1>2. /\ UnitsFields(v, u.file, u.loaded, u.enabled, u.loaded)
      /\ UnitsFields(w, u.file, u.loaded, u.enabled, None)
    BY <1>1, UnitsPuts
<1> QED
    BY <1>2 DEF v, w

(* A step on one unit.                                                      *)
LEMMA UnitsChange ==
    ASSUME UnitsInv, NEW n \in Units!Services, NEW u, Units!SetUnit(n, u),
           unread \subseteq unread', unitsFaults' \in Nat, unitsFaults' >= unitsFaults,
           unitsFaults' = 0 => unread' = {},
           unitsFaults' <= 1 /\ n \notin unread' => UnitsInStep(u)
    PROVE  UnitsInv'
<1>1. /\ file' = [file EXCEPT ![n] = u.file]
      /\ loaded' = [m \in Units!Services |-> IF m = n THEN u.loaded
                                             ELSE IF u.reloaded THEN file[m] ELSE loaded[m]]
      /\ enabled' = [enabled EXCEPT ![n] = u.enabled]
      /\ unitsActive' = [unitsActive EXCEPT ![n] = u.active]
    BY DEF Units!SetUnit
<1>2. /\ UnitsFunction(file') /\ UnitsFunction(loaded') /\ UnitsFunction(enabled')
      /\ UnitsFunction(unitsActive')
    BY <1>1 DEF UnitsInv, UnitsFunction
<1>3. ASSUME unitsFaults' <= 1, NEW m \in Units!Services \ unread'
      PROVE  loaded'[m] = file'[m] /\ unitsActive'[m] \in {None, file'[m]}
  <2>1. loaded[m] = file[m] /\ unitsActive[m] \in {None, file[m]}
    BY <1>3 DEF UnitsInv
  <2>2. CASE m = n
    <3>1. loaded'[m] = u.loaded /\ file'[m] = u.file /\ unitsActive'[m] = u.active
      BY <1>1, <2>2 DEF UnitsInv, UnitsFunction
    <3> QED
      BY <1>3, <2>2, <3>1 DEF UnitsInStep
  <2>3. CASE m # n
    <3>1. file'[m] = file[m] /\ unitsActive'[m] = unitsActive[m] /\ loaded'[m] \in {file[m], loaded[m]}
      BY <1>1, <2>3 DEF UnitsInv, UnitsFunction
    <3> QED
      BY <2>1, <3>1
  <2> QED
    BY <2>2, <2>3
<1> QED
    BY <1>2, <1>3 DEF UnitsInv, UnitsFunction, Units!Services

(* What a request starts from.                                              *)
LEMMA UnitsStart ==
    ASSUME UnitsInv, NEW n \in Units!Services
    PROVE  /\ UnitsRecord(Units!Unit(n))
           /\ Units!Unit(n).file = file[n] /\ Units!Unit(n).enabled = enabled[n]
           /\ Units!Unit(n).active = unitsActive[n]
           /\ unitsFaults <= 1 /\ n \notin unread => UnitsInStep(Units!Unit(n))
BY DEF UnitsInv, Units!Unit, UnitsRecord, UnitsFields, UnitsInStep

(* A failing step is counted.                                               *)
LEMMA UnitsCharge ==
    ASSUME UnitsInv, NEW k \in Nat, Units!Charge(k)
    PROVE  unitsFaults' \in Nat /\ unitsFaults' = unitsFaults + k /\ unitsFaults' >= unitsFaults
BY DEF UnitsInv, Units!Charge

(* What the failing steps of a request add.                                 *)
LEMMA UnitsCost ==
    ASSUME NEW at, NEW back \in BOOLEAN
    PROVE  /\ Units!Cost(at, back) \in Nat
           /\ at = "none" /\ back => Units!Cost(at, back) = 0
           /\ at # "none" /\ ~back => Units!Cost(at, back) = 2
           /\ at # "none" /\ back => Units!Cost(at, back) = 1
BY DEF Units!Cost

(* CreateManaged, whichever step fails, if its clean-up succeeds.           *)
LEMMA UnitsCreated ==
    ASSUME NEW u, UnitsRecord(u), UnitsInStep(u), u.file = None,
           NEW spec, NEW autoStart \in BOOLEAN,
           NEW at \in {"none", "write", "reload", "enable", "start"},
           NEW v, v = Units!CreateManaged(u, spec, autoStart, at, TRUE)
    PROVE  UnitsInStep(v)
<1> DEFINE content == Units!RenderUnit(spec)
           written == Units!writeUnitFile(u, content)
           ready == Units!daemonReload(written, TRUE)
           linked == Units!enableManaged(ready, TRUE)
<1>1. v = CASE at = "write"  -> u
            [] at = "reload" -> Units!removeUnitFile(written, TRUE)
            [] at = "enable" -> Units!daemonReload(Units!removeUnitFile(ready, TRUE), TRUE)
            [] at = "start"  -> Units!daemonReload(Units!removeUnitFile(
                                  Units!disableManaged(linked, TRUE), TRUE), TRUE)
            [] at = "none"   -> IF autoStart THEN Units!startManaged(linked) ELSE ready
    BY DEF Units!CreateManaged
<1>2. linked = [ready EXCEPT !.enabled = TRUE]
    BY DEF Units!enableManaged
<1>3. Units!disableManaged(linked, TRUE) = [linked EXCEPT !.enabled = FALSE]
    BY DEF Units!disableManaged
<1>4. u.active = None /\ u.loaded = None
    BY DEF UnitsInStep
<1> HIDE DEF content
<1>5. UnitsFields(written, content, None, u.enabled, None)
    BY <1>4, UnitsWrites
<1> HIDE DEF written
<1>6. UnitsFields(ready, content, content, u.enabled, None)
    BY <1>5, UnitsReloads DEF UnitsFields
<1> HIDE DEF ready
<1>7. UnitsFields(linked, content, content, TRUE, None)
  <2>1. UnitsRecord(ready)
    BY <1>6 DEF UnitsFields
  <2>2. UnitsFields(linked, ready.file, ready.loaded, TRUE, ready.active)
    BY ONLY <1>2, <2>1, UnitsPuts
  <2> QED
    BY <1>6, <2>2 DEF UnitsFields
<1> HIDE DEF linked
<1>8. CASE at = "write"
    BY <1>1, <1>8
<1>9. CASE at = "reload"
  <2>1. UnitsFields(v, None, None, u.enabled, None)
    BY <1>1, <1>5, <1>9, UnitsRemoves DEF UnitsFields
  <2> QED
    BY <2>1 DEF UnitsInStep, UnitsFields
<1>10. ASSUME NEW x, UnitsRecord(x), x.active = None,
              v = Units!daemonReload(Units!removeUnitFile(x, TRUE), TRUE)
       PROVE  UnitsInStep(v)
  <2> DEFINE y == Units!removeUnitFile(x, TRUE)
  <2>1. UnitsFields(y, None, x.loaded, x.enabled, None)
    BY <1>10, UnitsRemoves
  <2>3. v = Units!daemonReload(y, TRUE)
    BY <1>10
  <2> HIDE DEF y
  <2>2. UnitsFields(v, None, None, y.enabled, None)
    BY <2>1, <2>3, UnitsReloads DEF UnitsFields
  <2> QED
    BY <2>2 DEF UnitsInStep, UnitsFields
<1>11. CASE at = "enable"
  <2>1. UnitsRecord(ready) /\ ready.active = None
    BY <1>6 DEF UnitsFields
  <2> QED
    BY <1>1, <1>10, <1>11, <2>1
<1>12. CASE at = "start"
  <2> DEFINE x == Units!disableManaged(linked, TRUE)
  <2>1. UnitsRecord(linked) /\ x = [linked EXCEPT !.enabled = FALSE]
    BY <1>3, <1>7 DEF UnitsFields
  <2>3. UnitsFields(x, linked.file, linked.loaded, FALSE, linked.active)
    BY ONLY <2>1, UnitsPuts
  <2>2. UnitsRecord(x) /\ x.active = None
    BY <1>7, <2>3 DEF UnitsFields
  <2> QED
    BY <1>1, <1>10, <1>12, <2>2
<1>13. CASE at = "none" /\ autoStart
  <2>1. v = Units!RestartUnit(linked, TRUE)
    BY <1>1, <1>7, <1>13 DEF Units!startManaged, UnitsFields
  <2>2. UnitsFields(v, content, content, TRUE, content)
    BY <1>7, <2>1, UnitsRestarts DEF UnitsFields
  <2> QED
    BY <2>2 DEF UnitsInStep, UnitsFields
<1>14. CASE at = "none" /\ ~autoStart
    BY <1>1, <1>6, <1>14 DEF UnitsInStep, UnitsFields
<1> QED
    BY <1>8, <1>9, <1>11, <1>12, <1>13, <1>14

(* The roll-back of an update.                                              *)
LEMMA UnitsRolledBack ==
    ASSUME NEW now, UnitsRecord(now), NEW old, UnitsRecord(old), UnitsInStep(old),
           now.active \in {old.active, None}, NEW v, v = Units!rollback(now, old, TRUE)
    PROVE  UnitsFields(v, old.file, old.file, old.enabled, old.active)
<1> DEFINE written == Units!writeUnitFile(now, old.file)
           restored == Units!daemonReload(written, TRUE)
           linked == [restored EXCEPT !.enabled = old.enabled]
<1>1. v = IF old.active # None THEN Units!RestartUnit(linked, TRUE) ELSE linked
    BY DEF Units!rollback
<1>2. UnitsFields(written, old.file, now.loaded, now.enabled, now.active)
    BY UnitsWrites
<1> HIDE DEF written
<1>3. UnitsFields(restored, old.file, old.file, now.enabled, now.active)
    BY <1>2, UnitsReloads DEF UnitsFields
<1>4. UnitsRecord(restored) /\ linked = [restored EXCEPT !.enabled = old.enabled]
    BY <1>3 DEF UnitsFields
<1> HIDE DEF restored, linked
<1>5. UnitsFields(linked, restored.file, restored.loaded, old.enabled, restored.active)
    BY ONLY <1>4, UnitsPuts
<1>6. UnitsFields(linked, old.file, old.file, old.enabled, now.active)
    BY <1>3, <1>5 DEF UnitsFields
<1>7. CASE old.active # None
  <2>1. v = Units!RestartUnit(linked, TRUE) /\ UnitsRecord(linked)
    BY <1>1, <1>6, <1>7 DEF UnitsFields
  <2>2. UnitsFields(v, linked.file, linked.loaded, linked.enabled, linked.loaded)
    BY <2>1, UnitsRestarts
  <2>3. old.active = old.file
    BY <1>7 DEF UnitsInStep
  <2> QED
    BY <1>6, <2>2, <2>3 DEF UnitsFields
<1>8. CASE old.active = None
    BY <1>1, <1>6, <1>8
<1> QED
    BY <1>7, <1>8

UnitsDone(u, v, at) ==
    /\ UnitsInStep(v)
    /\ at # "none" => v.file = u.file /\ v.enabled = u.enabled /\ v.active = u.active

(* UpdateManaged, whichever step fails, if the roll-back succeeds.          *)
LEMMA UnitsUpdated ==
    ASSUME NEW u, UnitsRecord(u), UnitsInStep(u), NEW spec, NEW autoStart,
           NEW at \in {"none", "write", "reload", "enable", "restart"},
           NEW v, v = Units!UpdateManaged(u, spec, autoStart, at, TRUE)
    PROVE  UnitsDone(u, v, at)
<1> SUFFICES /\ UnitsInStep(v)
             /\ at # "none" => v.file = u.file /\ v.enabled = u.enabled /\ v.active = u.active
    BY DEF UnitsDone
<1> DEFINE content == Units!RenderUnit(spec)
           written == Units!writeUnitFile(u, content)
           ready == Units!daemonReload(written, TRUE)
           linked == [ready EXCEPT !.enabled = autoStart]
           stopped == Units!RestartUnit(linked, FALSE)
<1>1. v = CASE at = "write"   -> u
            [] at = "reload"  -> Units!rollback(written, u, TRUE)
            [] at = "enable"  -> Units!rollback(ready, u, TRUE)
            [] at = "restart" -> Units!rollback(stopped, u, TRUE)
            [] at = "none"    -> IF u.active # None THEN Units!RestartUnit(linked, TRUE) ELSE linked
    BY DEF Units!UpdateManaged
<1> HIDE DEF content
<1>2. UnitsFields(written, content, u.loaded, u.enabled, u.active)
    BY UnitsWrites
<1> HIDE DEF written
<1>3. UnitsFields(ready, content, content, u.enabled, u.active)
    BY <1>2, UnitsReloads DEF UnitsFields
<1>4. UnitsRecord(ready) /\ linked = [ready EXCEPT !.enabled = autoStart]
    BY <1>3 DEF UnitsFields
<1> HIDE DEF ready, linked
<1>5. UnitsFields(linked, ready.file, ready.loaded, autoStart, ready.active)
    BY ONLY <1>4, UnitsPuts
<1>6. UnitsFields(linked, content, content, autoStart, u.active)
    BY <1>3, <1>5 DEF UnitsFields
<1>7. UnitsRecord(stopped) /\ stopped.active = None
    BY <1>6, UnitsRestarts DEF UnitsFields
<1> HIDE DEF stopped
<1>8. ASSUME UnitsFields(v, u.file, u.file, u.enabled, u.active)
      PROVE  UnitsInStep(v) /\ v.file = u.file /\ v.enabled = u.enabled /\ v.active = u.active
    BY <1>8 DEF UnitsFields, UnitsInStep
<1>9. CASE at = "write"
    BY <1>1, <1>9
<1>10. CASE at = "reload"
  <2>1. v = Units!rollback(written, u, TRUE) /\ UnitsRecord(written) /\ written.active = u.active
    BY <1>1, <1>2, <1>10 DEF UnitsFields
  <2>2. UnitsFields(v, u.file, u.file, u.enabled, u.active)
    BY <2>1, UnitsRolledBack
  <2> QED
    BY <1>8, <2>2
<1>11. CASE at = "enable"
  <2>1. v = Units!rollback(ready, u, TRUE) /\ UnitsRecord(ready) /\ ready.active = u.active
    BY <1>1, <1>3, <1>11 DEF UnitsFields
  <2>2. UnitsFields(v, u.file, u.file, u.enabled, u.active)
    BY <2>1, UnitsRolledBack
  <2> QED
    BY <1>8, <2>2
<1>12. CASE at = "restart"
  <2>1. v = Units!rollback(stopped, u, TRUE)
    BY <1>1, <1>12
  <2>2. UnitsFields(v, u.file, u.file, u.enabled, u.active)
    BY <1>7, <2>1, UnitsRolledBack
  <2> QED
    BY <1>8, <2>2
<1>13. CASE at = "none" /\ u.active # None
  <2>1. v = Units!RestartUnit(linked, TRUE) /\ UnitsRecord(linked)
    BY <1>1, <1>6, <1>13 DEF UnitsFields
  <2>2. UnitsFields(v, linked.file, linked.loaded, linked.enabled, linked.loaded)
    BY <2>1, UnitsRestarts
  <2> QED
    BY <1>6, <1>13, <2>2 DEF UnitsFields, UnitsInStep
<1>14. CASE at = "none" /\ u.active = None
    BY <1>1, <1>6, <1>14 DEF UnitsFields, UnitsInStep
<1> QED
    BY <1>9, <1>10, <1>11, <1>12, <1>13, <1>14

(* DeleteManaged, unless the reload fails.                                  *)
LEMMA UnitsDeleted ==
    ASSUME NEW u, UnitsRecord(u), UnitsInStep(u),
           NEW at \in {"none", "disable", "stop", "remove"}, NEW v, v = Units!DeleteManaged(u, at)
    PROVE  UnitsInStep(v)
<1> DEFINE off == Units!disableManaged(u, at # "disable")
           stopped == [off EXCEPT !.active = None]
           gone == Units!removeUnitFile(stopped, TRUE)
<1>1. v = CASE at = "stop"   -> off
            [] at = "remove" -> stopped
            [] OTHER         -> Units!daemonReload(gone, at # "reload")
    BY DEF Units!DeleteManaged
<1>2. UnitsRecord(off) /\ off.file = u.file /\ off.loaded = u.loaded /\ off.active = u.active
  <2>1. CASE at # "disable"
    <3>1. off = [u EXCEPT !.enabled = FALSE]
      BY <2>1 DEF Units!disableManaged
    <3> HIDE DEF off
    <3> QED
      BY <3>1, UnitsPuts DEF UnitsFields
  <2>2. CASE at = "disable"
    BY <2>2 DEF Units!disableManaged
  <2> QED
    BY <2>1, <2>2
<1>3. stopped = [off EXCEPT !.active = None]
    OBVIOUS
<1> HIDE DEF off, stopped
<1>4. UnitsFields(stopped, off.file, off.loaded, off.enabled, None)
    BY <1>2, <1>3, UnitsPuts
<1>5. UnitsFields(gone, None, off.loaded, off.enabled, None)
    BY <1>4, UnitsRemoves DEF UnitsFields
<1> HIDE DEF gone
<1>6. UnitsFields(Units!daemonReload(gone, TRUE), None, None, gone.enabled, None)
    BY <1>5, UnitsReloads DEF UnitsFields
<1>7. CASE at = "stop"
    BY <1>1, <1>2, <1>7 DEF UnitsInStep
<1>8. CASE at = "remove"
    BY <1>1, <1>2, <1>4, <1>8 DEF UnitsInStep, UnitsFields
<1>9. CASE at \in {"none", "disable"}
  <2>1. v = Units!daemonReload(gone, at # "reload") /\ at # "reload"
    BY <1>1, <1>9
  <2>2. v = Units!daemonReload(gone, TRUE)
    BY <2>1
  <2> QED
    BY <1>6, <2>2 DEF UnitsInStep, UnitsFields
<1> QED
    BY <1>7, <1>8, <1>9

(* The handlers. One that costs at most one failure had its clean-up.       *)
LEMMA UnitsBack ==
    ASSUME UnitsInv, NEW at, NEW back \in BOOLEAN, Units!Charge(Units!Cost(at, back)),
           at = "none" => back
    PROVE  /\ unitsFaults' \in Nat /\ unitsFaults' >= unitsFaults
           /\ unitsFaults' <= 1 => back
           /\ unitsFaults' = 0 => unread = {}
           /\ unitsFaults' # unitsFaults => at # "none"
           /\ at # "none" => unitsFaults' # 0
<1>1. /\ at # "none" => Units!Cost(at, back) # 0
      /\ Units!Cost(at, back) \in Nat
      /\ at = "none" => Units!Cost(at, back) = 0
      /\ ~back => Units!Cost(at, back) = 2
    BY UnitsCost
<1>2. unitsFaults' \in Nat /\ unitsFaults' = unitsFaults + Units!Cost(at, back)
      /\ unitsFaults' >= unitsFaults /\ unitsFaults \in Nat
    BY <1>1, UnitsCharge DEF UnitsInv
<1> HIDE DEF Units!Cost
<1>3. unitsFaults' <= 1 => back
    BY <1>1, <1>2
<1>4. unitsFaults' = 0 => unread = {}
    BY <1>2 DEF UnitsInv
<1>5. unitsFaults' # unitsFaults => at # "none"
    BY <1>1, <1>2
<1>6. at # "none" => unitsFaults' # 0
    BY <1>1, <1>2
<1> QED
    BY <1>2, <1>3, <1>4, <1>5, <1>6

(* HCreate.                                                                 *)
LEMMA UnitsCreates ==
    ASSUME UnitsInv, Units!HCreate
    PROVE  UnitsInv' /\ unitsLast' = "other"
<1>1. PICK n \in Managed, spec \in Units!UnitSpecs, autoStart \in BOOLEAN, back \in BOOLEAN,
           at \in {"none", "write", "reload", "enable", "start"} :
        /\ ~Units!managedUnitExists(n)
        /\ at \in {"none", "write"} => back
        /\ Units!SetUnit(n, Units!CreateManaged(Units!Unit(n), spec, autoStart, at, back))
        /\ Units!Charge(Units!Cost(at, back)) /\ unitsLast' = "other" /\ UNCHANGED unread
    BY DEF Units!HCreate
<1> DEFINE u == Units!Unit(n)
           v == Units!CreateManaged(u, spec, autoStart, at, back)
<1>2. n \in Units!Services /\ file[n] = None
    BY <1>1 DEF Units!Services, Units!managedUnitExists
<1>3. /\ UnitsRecord(u) /\ u.file = None
      /\ unitsFaults <= 1 /\ n \notin unread => UnitsInStep(u)
    BY <1>2, UnitsStart
<1>4. Units!SetUnit(n, v)
    BY <1>1
<1>5. back => v = Units!CreateManaged(u, spec, autoStart, at, TRUE)
  <2>1. back => back = TRUE
    OBVIOUS
  <2> QED
    BY <2>1
<1> HIDE DEF u, v
<1>6. /\ unitsFaults' \in Nat /\ unitsFaults' >= unitsFaults /\ unitsFaults \in Nat
      /\ unitsFaults' <= 1 => back
      /\ unitsFaults' = 0 => unread = {}
    BY <1>1, UnitsBack DEF UnitsInv
<1>7. ASSUME unitsFaults' <= 1, n \notin unread' PROVE UnitsInStep(v)
  <2>1. unitsFaults <= 1 /\ n \notin unread /\ back
    BY <1>1, <1>6, <1>7
  <2>2. UnitsInStep(u) /\ v = Units!CreateManaged(u, spec, autoStart, at, TRUE)
    BY <1>3, <1>5, <2>1
  <2> QED
    BY <1>3, <2>2, UnitsCreated
<1> QED
    BY <1>1, <1>2, <1>4, <1>6, <1>7, UnitsChange

(* HUpdate and EditUnchanged.                                               *)
LEMMA UnitsUpdates ==
    ASSUME UnitsInv, NEW n \in Managed, NEW spec, NEW autoStart, NEW kind,
           Units!UpdateWith(n, spec, autoStart, kind)
    PROVE  UnitsInv' /\ Units!FailedUpdateUndone
<1>1. PICK back \in BOOLEAN, at \in {"none", "write", "reload", "enable", "restart"} :
        /\ at \in {"none", "write"} => back
        /\ Units!SetUnit(n, Units!UpdateManaged(Units!Unit(n), spec, autoStart, at, back))
        /\ Units!Charge(Units!Cost(at, back)) /\ UNCHANGED unread
    BY DEF Units!UpdateWith
<1> DEFINE u == Units!Unit(n)
           v == Units!UpdateManaged(u, spec, autoStart, at, back)
<1>2. n \in Units!Services
    BY DEF Units!Services
<1>3. /\ UnitsRecord(u)
      /\ u.file = file[n] /\ u.enabled = enabled[n] /\ u.active = unitsActive[n]
      /\ unitsFaults <= 1 /\ n \notin unread => UnitsInStep(u)
    BY <1>2, UnitsStart
<1>4. Units!SetUnit(n, v)
    BY <1>1
<1>5. back => v = Units!UpdateManaged(u, spec, autoStart, at, TRUE)
  <2>1. back => back = TRUE
    OBVIOUS
  <2> QED
    BY <2>1
<1> HIDE DEF u, v
<1>6. /\ unitsFaults' \in Nat /\ unitsFaults' >= unitsFaults /\ unitsFaults \in Nat
      /\ unitsFaults' <= 1 => back
      /\ unitsFaults' = 0 => unread = {}
      /\ unitsFaults' # unitsFaults => at # "none"
    BY <1>1, UnitsBack DEF UnitsInv
<1>7. ASSUME unitsFaults' <= 1, n \notin unread'
      PROVE  UnitsDone(u, v, at)
  <2>1. unitsFaults <= 1 /\ n \notin unread /\ back
    BY <1>1, <1>6, <1>7
  <2>2. UnitsInStep(u) /\ v = Units!UpdateManaged(u, spec, autoStart, at, TRUE)
    BY <1>3, <1>5, <2>1
  <2>3. at \in {"none", "write", "reload", "enable", "restart"} /\ UnitsRecord(u)
    BY <1>3
  <2> QED
    BY ONLY <2>2, <2>3, UnitsUpdated
<1>8. UnitsInv'
    BY <1>1, <1>2, <1>4, <1>6, <1>7, UnitsChange DEF UnitsDone
<1>9. ASSUME unitsFaults = 0, unitsFaults' = 1
      PROVE  <<file', enabled', unitsActive'>> = <<file, enabled, unitsActive>>
  <2>1. at # "none" /\ n \notin unread'
    BY <1>1, <1>6, <1>9 DEF UnitsInv
  <2>2. v.file = file[n] /\ v.enabled = enabled[n] /\ v.active = unitsActive[n]
    BY <1>3, <1>7, <1>9, <2>1 DEF UnitsDone
  <2>3. /\ file' = [file EXCEPT ![n] = v.file] /\ enabled' = [enabled EXCEPT ![n] = v.enabled]
        /\ unitsActive' = [unitsActive EXCEPT ![n] = v.active]
    BY <1>4 DEF Units!SetUnit
  <2>4. ASSUME NEW f, UnitsFunction(f) PROVE [f EXCEPT ![n] = f[n]] = f
    BY <1>2, <2>4 DEF UnitsFunction
  <2>5. file' = file /\ enabled' = enabled /\ unitsActive' = unitsActive
    BY <2>2, <2>3, <2>4 DEF UnitsInv
  <2> QED
    BY <2>5
<1> QED
    BY <1>8, <1>9 DEF Units!FailedUpdateUndone

(* HDelete.                                                                 *)
LEMMA UnitsDeletes ==
    ASSUME UnitsInv, Units!HDelete
    PROVE  UnitsInv' /\ unitsLast' = "other"
<1>1. PICK n \in Managed, at \in {"none", "disable", "stop", "remove", "reload"} :
        /\ Units!SetUnit(n, Units!DeleteManaged(Units!Unit(n), at))
        /\ unread' = IF at = "reload" THEN unread \cup {n} ELSE unread
        /\ Units!Charge(Units!Cost(at, TRUE)) /\ unitsLast' = "other"
    BY DEF Units!HDelete
<1> DEFINE u == Units!Unit(n)
           v == Units!DeleteManaged(u, at)
<1>2. n \in Units!Services
    BY DEF Units!Services
<1>3. /\ UnitsRecord(u)
      /\ unitsFaults <= 1 /\ n \notin unread => UnitsInStep(u)
    BY <1>2, UnitsStart
<1>4. Units!SetUnit(n, v)
    BY <1>1
<1> HIDE DEF u
<1>6. /\ unitsFaults' \in Nat /\ unitsFaults' >= unitsFaults /\ unitsFaults \in Nat
      /\ unitsFaults' = 0 => unread = {}
      /\ at = "reload" => unitsFaults' # 0
    BY <1>1, UnitsBack DEF UnitsInv
<1>7. ASSUME unitsFaults' <= 1, n \notin unread' PROVE UnitsInStep(v)
  <2>1. unitsFaults <= 1 /\ n \notin unread /\ at # "reload"
    BY <1>1, <1>6, <1>7
  <2>2. UnitsInStep(u) /\ at \in {"none", "disable", "stop", "remove"}
    BY <1>3, <2>1
  <2> QED
    BY <1>3, <2>2, UnitsDeleted
<1> HIDE DEF v
<1>8. unread \subseteq unread' /\ (unitsFaults' = 0 => unread' = {})
    BY <1>1, <1>6
<1> QED
    BY <1>1, <1>2, <1>4, <1>6, <1>7, <1>8, UnitsChange

(* Start, Stop, Restart, Enable, Disable, and the end of a process.         *)
LEMMA UnitsServes ==
    ASSUME UnitsInv, Units!Start \/ Units!Stop \/ Units!Restart \/ Units!Enable \/ Units!Disable
                     \/ Units!Crash
    PROVE  UnitsInv' /\ (unitsLast' = "other" \/ unitsFaults' = unitsFaults)
<1> DEFINE Q(n, v) ==
        /\ Units!SetUnit(n, v)
        /\ \/ v = Units!RestartUnit(Units!Unit(n), TRUE)
           \/ v = Units!RestartUnit(Units!Unit(n), FALSE)
           \/ v = [Units!Unit(n) EXCEPT !.active = None]
           \/ v = [Units!Unit(n) EXCEPT !.enabled = TRUE]
           \/ v = [Units!Unit(n) EXCEPT !.enabled = FALSE]
        /\ unitsFaults' = unitsFaults \/ unitsFaults' = unitsFaults + 1
        /\ UNCHANGED unread /\ (unitsLast' = "other" \/ unitsFaults' = unitsFaults)
<1>0. PICK n \in Units!Services : \E v : Q(n, v)
  <2>1. CASE Units!Start
    <3>1. PICK n \in Units!Services : Q(n, Units!RestartUnit(Units!Unit(n), TRUE))
      BY <2>1 DEF Units!Start
    <3> QED
      BY <3>1
  <2>2. CASE Units!Stop
    <3>1. PICK n \in Units!Services : Q(n, [Units!Unit(n) EXCEPT !.active = None])
      BY <2>2 DEF Units!Stop
    <3> QED
      BY <3>1
  <2>3. CASE Units!Restart
    <3>1. PICK n \in Units!Services, ok \in BOOLEAN :
            /\ Units!SetUnit(n, Units!RestartUnit(Units!Unit(n), ok)) /\ unitsLast' = "other"
            /\ Units!Charge(IF ok THEN 0 ELSE 1) /\ UNCHANGED unread
      BY <2>3 DEF Units!Restart
    <3>2. unitsFaults' = unitsFaults \/ unitsFaults' = unitsFaults + 1
      BY <3>1 DEF Units!Charge, UnitsInv
    <3>3. CASE ok
      <4>1. ok = TRUE
        BY <3>3
      <4>2. Q(n, Units!RestartUnit(Units!Unit(n), TRUE))
        BY <3>1, <3>2, <4>1
      <4> QED
        BY <4>2
    <3>4. CASE ~ok
      <4>1. ok = FALSE
        BY <3>4
      <4>2. Q(n, Units!RestartUnit(Units!Unit(n), FALSE))
        BY <3>1, <3>2, <4>1
      <4> QED
        BY <4>2
    <3> QED
      BY <3>3, <3>4
  <2>4. CASE Units!Enable
    <3>1. PICK n \in Units!Services : Q(n, [Units!Unit(n) EXCEPT !.enabled = TRUE])
      BY <2>4 DEF Units!Enable, Units!enableManaged
    <3> QED
      BY <3>1
  <2>5. CASE Units!Disable
    <3>1. PICK n \in Units!Services : Q(n, [Units!Unit(n) EXCEPT !.enabled = FALSE])
      BY <2>5 DEF Units!Disable, Units!disableManaged
    <3> QED
      BY <3>1
  <2>6. CASE Units!Crash
    <3>1. PICK n \in Managed : Q(n, [Units!Unit(n) EXCEPT !.active = None])
      BY <2>6 DEF Units!Crash
    <3> QED
      BY <3>1 DEF Units!Services
  <2> QED
    BY <2>1, <2>2, <2>3, <2>4, <2>5, <2>6
<1>1. PICK v : Q(n, v)
    BY <1>0
<1> DEFINE u == Units!Unit(n)
<1>2. /\ UnitsRecord(u)
      /\ unitsFaults <= 1 /\ n \notin unread => UnitsInStep(u)
    BY UnitsStart
<1>3. \/ v = Units!RestartUnit(u, TRUE) \/ v = Units!RestartUnit(u, FALSE)
      \/ v = [u EXCEPT !.active = None]
      \/ v = [u EXCEPT !.enabled = TRUE] \/ v = [u EXCEPT !.enabled = FALSE]
    BY <1>1
<1> HIDE DEF u
<1>4. UnitsInStep(u) => UnitsInStep(v)
  <2>1. CASE v = Units!RestartUnit(u, TRUE) \/ v = Units!RestartUnit(u, FALSE)
    BY <1>2, <2>1, UnitsRestarts DEF UnitsFields, UnitsInStep
  <2>2. CASE v = [u EXCEPT !.active = None]
    <3>1. UnitsFields(v, u.file, u.loaded, u.enabled, None)
      BY ONLY <1>2, <2>2, UnitsPuts
    <3> QED
      BY <3>1 DEF UnitsFields, UnitsInStep
  <2>3. CASE v = [u EXCEPT !.enabled = TRUE]
    <3>1. UnitsFields(v, u.file, u.loaded, TRUE, u.active)
      BY ONLY <1>2, <2>3, UnitsPuts
    <3> QED
      BY <3>1 DEF UnitsFields, UnitsInStep
  <2>4. CASE v = [u EXCEPT !.enabled = FALSE]
    <3>1. UnitsFields(v, u.file, u.loaded, FALSE, u.active)
      BY ONLY <1>2, <2>4, UnitsPuts
    <3> QED
      BY <3>1 DEF UnitsFields, UnitsInStep
  <2> QED
    BY <1>3, <2>1, <2>2, <2>3, <2>4
<1>5. /\ unitsFaults' \in Nat /\ unitsFaults' >= unitsFaults
      /\ unitsFaults' <= 1 => unitsFaults <= 1
      /\ unitsFaults' = 0 => unread' = {}
    BY <1>1 DEF UnitsInv
<1>6. unitsFaults' <= 1 /\ n \notin unread' => UnitsInStep(v)
    BY <1>1, <1>2, <1>4, <1>5
<1> QED
    BY <1>1, <1>5, <1>6, UnitsChange

(* The host boots.                                                          *)
LEMMA UnitsBoots ==
    ASSUME UnitsInv, Units!Reboot
    PROVE  UnitsInv' /\ unitsLast' = "other"
<1>1. /\ loaded' = file /\ UNCHANGED <<file, enabled, unread, unitsFaults>>
      /\ unitsActive' = [n \in Units!Services |-> IF enabled[n] THEN file[n] ELSE None]
      /\ unitsLast' = "other"
    BY DEF Units!Reboot
<1>2. /\ UnitsFunction(file') /\ UnitsFunction(loaded') /\ UnitsFunction(enabled')
      /\ UnitsFunction(unitsActive')
    BY <1>1 DEF UnitsInv, UnitsFunction
<1>3. ASSUME NEW n \in Units!Services
      PROVE  loaded'[n] = file'[n] /\ unitsActive'[n] \in {None, file'[n]}
    BY <1>1
<1> QED
    BY <1>1, <1>2, <1>3 DEF UnitsInv, UnitsFunction, Units!Services

(* The invariant holds on while the part does nothing.                      *)
LEMMA UnitsStutter ==
    ASSUME UnitsInv, UNCHANGED unitsVars
    PROVE  UnitsInv'
BY DEF UnitsInv, UnitsFunction, unitsVars, Units!Services

(* Every step of the units keeps the invariant, and a failed update is      *)
(* undone.                                                                  *)
LEMMA UnitsStep ==
    ASSUME UnitsInv, Units!Next
    PROVE  UnitsInv' /\ Units!FailedUpdateUndone
<1>1. CASE Units!HCreate \/ Units!HDelete \/ Units!Reboot
    BY <1>1, UnitsCreates, UnitsDeletes, UnitsBoots DEF Units!FailedUpdateUndone
<1>2. CASE Units!HUpdate
    BY <1>2, UnitsUpdates DEF Units!HUpdate
<1>3. CASE Units!EditUnchanged
    BY <1>3, UnitsUpdates DEF Units!EditUnchanged
<1>4. CASE Units!Start \/ Units!Stop \/ Units!Restart \/ Units!Enable \/ Units!Disable \/ Units!Crash
  <2>1. UnitsInv' /\ (unitsLast' = "other" \/ unitsFaults' = unitsFaults)
    BY <1>4, UnitsServes
  <2>2. unitsFaults \in Nat
    BY DEF UnitsInv
  <2>3. ~(unitsLast' = "failed update" /\ unitsFaults = 0 /\ unitsFaults' = 1)
    <3>1. ASSUME unitsFaults = 0, unitsFaults' = 1 PROVE unitsFaults' # unitsFaults
      BY <3>1
    <3>2. "other" # "failed update"
      OBVIOUS
    <3> QED
      BY <2>1, <3>1, <3>2, Zenon
  <2> QED
    BY <2>1, <2>3, Zenon DEF Units!FailedUpdateUndone
<1> QED
    BY <1>1, <1>2, <1>3, <1>4 DEF Units!Next

(* What the invariant says of units and processes.                          *)
LEMMA UnitsShow == UnitsInv => Units!NoOrphanProcess /\ Units!RunsItsFile
BY DEF UnitsInv, Units!NoOrphanProcess, Units!RunsItsFile

-----------------------------------------------------------------------------
(* The rest of what a state of the units is made of: the link of a unit is  *)
(* there or not, whatever a request ends in.                                *)
UnitsLasts == {"failed update", "edit", "other"}
UnitsMore ==
    /\ enabled \in [Units!Services -> BOOLEAN] /\ unread \subseteq Managed
    /\ unitsFaults \in 0 .. UnitsMaxFaults /\ unitsLast \in UnitsLasts
UnitsFlag(u) == UnitsRecord(u) /\ u.enabled \in BOOLEAN

(* The bound is a number.                                                   *)
LEMMA UnitsNumbers == UnitsMaxFaults \in Nat
BY UnitsAssumption DEF Units!UnitsBounds

(* It holds at the start.                                                   *)
LEMMA UnitsMoreInit == Init => UnitsMore
<1> SUFFICES ASSUME Init PROVE UnitsMore
    OBVIOUS
<1>1. /\ enabled = [n \in Units!Services |-> n = Panel]
      /\ unread = {} /\ unitsFaults = 0 /\ unitsLast = "other"
    BY DEF Init, Units!Init
<1>2. enabled \in [Units!Services -> BOOLEAN]
    BY ONLY <1>1
<1> QED
    BY <1>1, <1>2, UnitsNumbers DEF UnitsMore, UnitsLasts

(* It holds on while nothing happens.                                       *)
LEMMA UnitsMoreStutter ==
    ASSUME UnitsMore, UNCHANGED <<enabled, unread, unitsFaults, unitsLast>>
    PROVE  UnitsMore'
BY DEF UnitsMore, Units!Services, UnitsLasts

(* Every step leaves the link a link.                                       *)
LEMMA UnitsFlags ==
    ASSUME NEW u, UnitsFlag(u)
    PROVE  /\ \A content : UnitsFlag(Units!writeUnitFile(u, content))
           /\ \A ok \in BOOLEAN :
                /\ UnitsFlag(Units!removeUnitFile(u, ok)) /\ UnitsFlag(Units!daemonReload(u, ok))
                /\ UnitsFlag(Units!enableManaged(u, ok)) /\ UnitsFlag(Units!disableManaged(u, ok))
                /\ UnitsFlag(Units!RestartUnit(u, ok)) /\ UnitsFlag([u EXCEPT !.enabled = ok])
           /\ \A p : UnitsFlag([u EXCEPT !.active = p])
<1>0. /\ u = [file |-> u.file, loaded |-> u.loaded, enabled |-> u.enabled,
              active |-> u.active, reloaded |-> u.reloaded]
      /\ u.enabled \in BOOLEAN
    BY DEF UnitsFlag, UnitsRecord
<1>1. \A content : UnitsFlag(Units!writeUnitFile(u, content))
    BY <1>0 DEF Units!writeUnitFile, UnitsFlag, UnitsRecord
<1>2. ASSUME NEW ok \in BOOLEAN
      PROVE  UnitsFlag(Units!removeUnitFile(u, ok)) /\ UnitsFlag(Units!daemonReload(u, ok))
    BY <1>0 DEF Units!removeUnitFile, Units!daemonReload, UnitsFlag, UnitsRecord
<1>3. ASSUME NEW ok \in BOOLEAN
      PROVE  UnitsFlag(Units!enableManaged(u, ok)) /\ UnitsFlag(Units!disableManaged(u, ok))
    BY <1>0 DEF Units!enableManaged, Units!disableManaged, UnitsFlag, UnitsRecord
<1>4. ASSUME NEW ok \in BOOLEAN
      PROVE  UnitsFlag(Units!RestartUnit(u, ok)) /\ UnitsFlag([u EXCEPT !.enabled = ok])
    BY <1>0 DEF Units!RestartUnit, UnitsFlag, UnitsRecord
<1>5. \A p : UnitsFlag([u EXCEPT !.active = p])
    BY <1>0 DEF UnitsFlag, UnitsRecord
<1> QED
    BY <1>1, <1>2, <1>3, <1>4, <1>5

(* So does a roll-back, whether it succeeds or not,                         *)
LEMMA UnitsFlagRolledBack ==
    ASSUME NEW now, UnitsFlag(now), NEW old, UnitsFlag(old), NEW back \in BOOLEAN
    PROVE  UnitsFlag(Units!rollback(now, old, back))
<1> DEFINE written == Units!writeUnitFile(now, old.file)
           restored == IF back THEN Units!daemonReload(written, TRUE) ELSE now
           linked == IF back THEN [restored EXCEPT !.enabled = old.enabled] ELSE restored
<1>1. UnitsFlag(written)
    BY UnitsFlags
<1> HIDE DEF written
<1>2. UnitsFlag(Units!daemonReload(written, TRUE))
    BY <1>1, UnitsFlags
<1>3. UnitsFlag(restored)
    BY <1>2
<1>4. Units!rollback(now, old, back) =
        IF old.active # None THEN Units!RestartUnit(linked, back) ELSE linked
    BY DEF Units!rollback, written
<1> HIDE DEF restored
<1>5. old.enabled \in BOOLEAN
    BY DEF UnitsFlag
<1>6. UnitsFlag(linked)
    BY <1>3, <1>5, UnitsFlags
<1> HIDE DEF linked
<1>7. UnitsFlag(Units!RestartUnit(linked, back))
    BY <1>6, UnitsFlags
<1> QED
    BY <1>4, <1>6, <1>7

(* CreateManaged, whichever step fails,                                     *)
LEMMA UnitsFlagCreated ==
    ASSUME NEW u, UnitsFlag(u), NEW spec, NEW autoStart \in BOOLEAN, NEW back \in BOOLEAN,
           NEW at \in {"none", "write", "reload", "enable", "start"}
    PROVE  UnitsFlag(Units!CreateManaged(u, spec, autoStart, at, back))
<1> DEFINE written == Units!writeUnitFile(u, Units!RenderUnit(spec))
           ready == Units!daemonReload(written, TRUE)
           linked == Units!enableManaged(ready, TRUE)
           bare == Units!removeUnitFile(ready, back)
           off == Units!disableManaged(linked, back)
           gone == Units!removeUnitFile(off, back)
           res == Units!CreateManaged(u, spec, autoStart, at, back)
<1>1. \/ res = u \/ res = Units!removeUnitFile(written, back)
      \/ res = Units!daemonReload(bare, back) \/ res = Units!daemonReload(gone, back)
      \/ res = linked \/ res = Units!RestartUnit(linked, TRUE) \/ res = ready
    BY DEF Units!CreateManaged, Units!startManaged
<1>2. UnitsFlag(written)
    BY UnitsFlags
<1> HIDE DEF res, written
<1>3. UnitsFlag(ready)
    BY <1>2, UnitsFlags
<1> HIDE DEF ready
<1>4. UnitsFlag(linked) /\ UnitsFlag(bare)
    BY <1>3, UnitsFlags
<1> HIDE DEF linked, bare
<1>5. UnitsFlag(off)
    BY <1>4, UnitsFlags
<1> HIDE DEF off
<1>6. UnitsFlag(gone)
    BY <1>5, UnitsFlags
<1> HIDE DEF gone
<1>7. /\ UnitsFlag(Units!removeUnitFile(written, back)) /\ UnitsFlag(Units!daemonReload(bare, back))
      /\ UnitsFlag(Units!daemonReload(gone, back)) /\ UnitsFlag(Units!RestartUnit(linked, TRUE))
    BY <1>2, <1>4, <1>6, UnitsFlags
<1>8. UnitsFlag(res)
    BY ONLY UnitsFlag(u), <1>1, <1>3, <1>4, <1>7, Zenon
<1> QED
    BY <1>8 DEF res

(* UpdateManaged, whichever step fails,                                     *)
LEMMA UnitsFlagUpdated ==
    ASSUME NEW u, UnitsFlag(u), NEW spec, NEW autoStart \in BOOLEAN, NEW back \in BOOLEAN,
           NEW at \in {"none", "write", "reload", "enable", "restart"}
    PROVE  UnitsFlag(Units!UpdateManaged(u, spec, autoStart, at, back))
<1> DEFINE written == Units!writeUnitFile(u, Units!RenderUnit(spec))
           ready == Units!daemonReload(written, TRUE)
           linked == [ready EXCEPT !.enabled = autoStart]
           failed == Units!RestartUnit(linked, FALSE)
           run == Units!RestartUnit(linked, TRUE)
           res == Units!UpdateManaged(u, spec, autoStart, at, back)
<1>1. \/ res = u \/ res = linked \/ res = run
      \/ res = Units!rollback(written, u, back) \/ res = Units!rollback(ready, u, back)
      \/ res = Units!rollback(failed, u, back)
    BY DEF Units!UpdateManaged
<1>2. UnitsFlag(written)
    BY UnitsFlags
<1> HIDE DEF res, written
<1>3. UnitsFlag(ready)
    BY <1>2, UnitsFlags
<1> HIDE DEF ready
<1>4. UnitsFlag(linked)
    BY <1>3, UnitsFlags
<1> HIDE DEF linked
<1>5. UnitsFlag(failed) /\ UnitsFlag(run)
    BY <1>4, UnitsFlags
<1> HIDE DEF failed, run
<1>6. /\ UnitsFlag(Units!rollback(written, u, back)) /\ UnitsFlag(Units!rollback(ready, u, back))
      /\ UnitsFlag(Units!rollback(failed, u, back))
    BY <1>2, <1>3, <1>5, UnitsFlagRolledBack
<1>7. UnitsFlag(res)
    BY ONLY UnitsFlag(u), <1>1, <1>4, <1>5, <1>6, Zenon
<1> QED
    BY <1>7 DEF res

(* and DeleteManaged.                                                       *)
LEMMA UnitsFlagDeleted ==
    ASSUME NEW u, UnitsFlag(u), NEW at
    PROVE  UnitsFlag(Units!DeleteManaged(u, at))
<1> DEFINE off == Units!disableManaged(u, at # "disable")
           stopped == [off EXCEPT !.active = None]
           bare == Units!removeUnitFile(stopped, TRUE)
           res == Units!DeleteManaged(u, at)
<1>1. \/ res = off \/ res = stopped \/ res = Units!daemonReload(bare, at # "reload")
    BY DEF Units!DeleteManaged
<1>2. UnitsFlag(off)
    BY UnitsFlags
<1> HIDE DEF res, off
<1>3. UnitsFlag(stopped)
    BY <1>2, UnitsFlags
<1> HIDE DEF stopped
<1>4. UnitsFlag(bare)
    BY <1>3, UnitsFlags
<1> HIDE DEF bare
<1>5. UnitsFlag(Units!daemonReload(bare, at # "reload"))
    BY <1>4, UnitsFlags
<1>6. UnitsFlag(res)
    BY ONLY <1>1, <1>2, <1>3, <1>5, Zenon
<1> QED
    BY <1>6 DEF res

(* A step of a unit that leaves its link a link.                            *)
LEMMA UnitsMoves ==
    ASSUME UnitsMore, NEW n \in Units!Services, NEW u, UnitsFlag(u), Units!SetUnit(n, u)
    PROVE  enabled' \in [Units!Services -> BOOLEAN]
<1>1. enabled' = [enabled EXCEPT ![n] = u.enabled] /\ u.enabled \in BOOLEAN
    BY DEF Units!SetUnit, UnitsFlag
<1> QED
    BY <1>1 DEF UnitsMore

(* A failing step is counted.                                               *)
LEMMA UnitsCounted ==
    ASSUME UnitsMore, NEW k \in Nat, Units!Charge(k)
    PROVE  unitsFaults' \in 0 .. UnitsMaxFaults
BY UnitsNumbers DEF UnitsMore, Units!Charge

(* What a step has to leave.                                                *)
LEMMA UnitsMade ==
    ASSUME enabled' \in [Units!Services -> BOOLEAN], unread' \subseteq Managed,
           unitsFaults' \in 0 .. UnitsMaxFaults, unitsLast' \in UnitsLasts
    PROVE  UnitsMore'
BY DEF UnitsMore, Units!Services, UnitsLasts

(* What a request starts from.                                              *)
LEMMA UnitsFlagStart ==
    ASSUME UnitsMore, NEW n \in Units!Services
    PROVE  UnitsFlag(Units!Unit(n)) /\ enabled[n] \in BOOLEAN
BY DEF UnitsMore, UnitsFlag, UnitsRecord, Units!Unit

(* HUpdate and EditUnchanged.                                               *)
LEMMA UnitsMoreUpdates ==
    ASSUME UnitsMore, NEW n \in Managed, NEW spec, NEW autoStart \in BOOLEAN,
           NEW kind \in UnitsLasts, Units!UpdateWith(n, spec, autoStart, kind)
    PROVE  UnitsMore'
<1>1. PICK back \in BOOLEAN, at \in {"none", "write", "reload", "enable", "restart"} :
        /\ Units!SetUnit(n, Units!UpdateManaged(Units!Unit(n), spec, autoStart, at, back))
        /\ Units!Charge(Units!Cost(at, back))
        /\ unitsLast' = IF at = "none" THEN kind ELSE "failed update"
        /\ unread' = unread
    BY DEF Units!UpdateWith
<1> DEFINE u == Units!Unit(n)
           v == Units!UpdateManaged(u, spec, autoStart, at, back)
<1>2. n \in Units!Services
    BY DEF Units!Services
<1>3. UnitsFlag(u)
    BY <1>2, UnitsFlagStart
<1>4. Units!SetUnit(n, v)
    BY <1>1
<1> HIDE DEF u
<1>5. UnitsFlag(v)
    BY <1>3, UnitsFlagUpdated
<1> HIDE DEF v
<1>6. enabled' \in [Units!Services -> BOOLEAN]
    BY <1>2, <1>4, <1>5, UnitsMoves
<1>7. unitsFaults' \in 0 .. UnitsMaxFaults
    BY <1>1, UnitsCost, UnitsCounted
<1>8. unitsLast' \in UnitsLasts /\ unread' \subseteq Managed
    BY <1>1 DEF UnitsLasts, UnitsMore
<1> QED
    BY <1>6, <1>7, <1>8, UnitsMade

(* Start, Stop, Restart, Enable, Disable, and the end of a process.         *)
LEMMA UnitsMoreServes ==
    ASSUME UnitsMore, Units!Start \/ Units!Stop \/ Units!Restart \/ Units!Enable \/ Units!Disable
                      \/ Units!Crash
    PROVE  UnitsMore'
<1> DEFINE Q(n, v) ==
             \/ \E ok \in BOOLEAN : v = Units!RestartUnit(Units!Unit(n), ok)
             \/ v = [Units!Unit(n) EXCEPT !.active = None]
             \/ v = Units!enableManaged(Units!Unit(n), TRUE)
             \/ v = Units!disableManaged(Units!Unit(n), TRUE)
<1>1. \E n \in Units!Services : \E v : Q(n, v) /\ Units!SetUnit(n, v)
  <2>1. CASE Units!Start \/ Units!Restart
      BY <2>1 DEF Units!Start, Units!Restart
  <2>2. CASE Units!Stop \/ Units!Crash
      BY <2>2 DEF Units!Stop, Units!Crash, Units!Services
  <2>3. CASE Units!Enable \/ Units!Disable
      BY <2>3 DEF Units!Enable, Units!Disable
  <2> QED
      BY <2>1, <2>2, <2>3
<1>2. PICK n \in Units!Services : \E v : Q(n, v) /\ Units!SetUnit(n, v)
    BY <1>1
<1>3. PICK v : Q(n, v) /\ Units!SetUnit(n, v)
    BY <1>2
<1>4. UnitsFlag(Units!Unit(n))
    BY UnitsFlagStart
<1>5. UnitsFlag(v)
  <2> DEFINE u == Units!Unit(n)
  <2>1. \/ \E ok \in BOOLEAN : v = Units!RestartUnit(u, ok)
        \/ v = [u EXCEPT !.active = None]
        \/ v = Units!enableManaged(u, TRUE) \/ v = Units!disableManaged(u, TRUE)
      BY <1>3
  <2>2. UnitsFlag(u)
      BY <1>4
  <2> HIDE DEF u
  <2>3. \A ok \in BOOLEAN : UnitsFlag(Units!RestartUnit(u, ok))
      BY ONLY <2>2, UnitsFlags
  <2>4. /\ UnitsFlag(Units!enableManaged(u, TRUE)) /\ UnitsFlag(Units!disableManaged(u, TRUE))
        /\ UnitsFlag([u EXCEPT !.active = None])
      BY ONLY <2>2, UnitsFlags
  <2> QED
      BY ONLY <2>1, <2>3, <2>4, Zenon
<1>6. enabled' \in [Units!Services -> BOOLEAN]
  <2> HIDE DEF Q
  <2> QED
    BY <1>3, <1>5, UnitsMoves
<1>7. /\ unread' = unread /\ unitsLast' \in {unitsLast, "other"}
      /\ UNCHANGED unitsFaults \/ \E k \in Nat : Units!Charge(k)
  <2>1. CASE Units!Start \/ Units!Restart
      BY <2>1 DEF Units!Start, Units!Restart
  <2>2. CASE Units!Stop \/ Units!Crash
      BY <2>2 DEF Units!Stop, Units!Crash
  <2>3. CASE Units!Enable \/ Units!Disable
      BY <2>3 DEF Units!Enable, Units!Disable
  <2> QED
      BY <2>1, <2>2, <2>3
<1>8. unitsFaults' \in 0 .. UnitsMaxFaults
  <2>1. CASE UNCHANGED unitsFaults
      BY <2>1 DEF UnitsMore
  <2>2. CASE \E k \in Nat : Units!Charge(k)
      BY <2>2, UnitsCounted
  <2> QED
      BY <1>7, <2>1, <2>2
<1>9. unitsLast' \in UnitsLasts /\ unread' \subseteq Managed
    BY <1>7 DEF UnitsMore, UnitsLasts
<1> QED
    BY <1>6, <1>8, <1>9, UnitsMade

(* Every step of the units keeps it.                                        *)
LEMMA UnitsMoreStep ==
    ASSUME UnitsMore, Units!Next
    PROVE  UnitsMore'
<1>1. CASE Units!HCreate
  <2>1. PICK n \in Managed, spec \in Units!UnitSpecs, autoStart \in BOOLEAN, back \in BOOLEAN,
             at \in {"none", "write", "reload", "enable", "start"} :
          /\ Units!SetUnit(n, Units!CreateManaged(Units!Unit(n), spec, autoStart, at, back))
          /\ Units!Charge(Units!Cost(at, back)) /\ unitsLast' = "other" /\ unread' = unread
      BY <1>1 DEF Units!HCreate
  <2> DEFINE u == Units!Unit(n)
             v == Units!CreateManaged(u, spec, autoStart, at, back)
  <2>2. n \in Units!Services
      BY DEF Units!Services
  <2>3. UnitsFlag(u)
      BY <2>2, UnitsFlagStart
  <2>4. Units!SetUnit(n, v)
      BY <2>1
  <2> HIDE DEF u
  <2>5. UnitsFlag(v)
      BY <2>3, UnitsFlagCreated
  <2> HIDE DEF v
  <2>6. enabled' \in [Units!Services -> BOOLEAN]
      BY <2>2, <2>4, <2>5, UnitsMoves
  <2>7. unitsFaults' \in 0 .. UnitsMaxFaults
      BY <2>1, UnitsCost, UnitsCounted
  <2>8. unitsLast' \in UnitsLasts /\ unread' \subseteq Managed
      BY <2>1 DEF UnitsLasts, UnitsMore
  <2> QED
      BY <2>6, <2>7, <2>8, UnitsMade
<1>2. CASE Units!HUpdate
  <2>1. "other" \in UnitsLasts
      BY DEF UnitsLasts
  <2> QED
      BY <1>2, <2>1, UnitsMoreUpdates DEF Units!HUpdate
<1>3. CASE Units!EditUnchanged
  <2>1. PICK n \in Managed : \E spec : Units!UpdateWith(n, spec, enabled[n], "edit")
      BY <1>3 DEF Units!EditUnchanged, Units!isEnabled
  <2>2. enabled[n] \in BOOLEAN /\ "edit" \in UnitsLasts
      BY UnitsFlagStart DEF UnitsLasts, Units!Services
  <2> QED
      BY <2>1, <2>2, UnitsMoreUpdates
<1>4. CASE Units!HDelete
  <2>1. PICK n \in Managed, at \in {"none", "disable", "stop", "remove", "reload"} :
          /\ Units!SetUnit(n, Units!DeleteManaged(Units!Unit(n), at))
          /\ unread' = IF at = "reload" THEN unread \cup {n} ELSE unread
          /\ Units!Charge(Units!Cost(at, TRUE)) /\ unitsLast' = "other"
      BY <1>4 DEF Units!HDelete
  <2> DEFINE u == Units!Unit(n)
             v == Units!DeleteManaged(u, at)
  <2>2. n \in Units!Services
      BY DEF Units!Services
  <2>3. UnitsFlag(u)
      BY <2>2, UnitsFlagStart
  <2>4. Units!SetUnit(n, v)
      BY <2>1
  <2> HIDE DEF u
  <2>5. UnitsFlag(v)
      BY <2>3, UnitsFlagDeleted
  <2> HIDE DEF v
  <2>6. enabled' \in [Units!Services -> BOOLEAN]
      BY <2>2, <2>4, <2>5, UnitsMoves
  <2>7. unitsFaults' \in 0 .. UnitsMaxFaults
      BY <2>1, UnitsCost, UnitsCounted
  <2>8. unitsLast' \in UnitsLasts /\ unread' \subseteq Managed
      BY <2>1 DEF UnitsLasts, UnitsMore
  <2> QED
      BY <2>6, <2>7, <2>8, UnitsMade
<1>5. CASE Units!Start \/ Units!Stop \/ Units!Restart \/ Units!Enable \/ Units!Disable \/ Units!Crash
    BY <1>5, UnitsMoreServes
<1>6. CASE Units!Reboot
  <2>1. unitsLast' = "other" /\ UNCHANGED <<enabled, unread, unitsFaults>>
      BY <1>6 DEF Units!Reboot
  <2> QED
      BY <2>1 DEF UnitsMore, Units!Services, UnitsLasts
<1> QED
    BY <1>1, <1>2, <1>3, <1>4, <1>5, <1>6 DEF Units!Next

(* The parts of a state of the units are what they should be.               *)
LEMMA UnitsTypes ==
    ASSUME UnitsInv, UnitsMore
    PROVE  Units!TypeOK
<1>1. DOMAIN file = Units!Services /\ DOMAIN loaded = Units!Services
      /\ DOMAIN unitsActive = Units!Services
    BY DEF UnitsInv, UnitsFunction
<1> QED
    BY <1>1 DEF UnitsMore, UnitsLasts, Units!TypeOK

-----------------------------------------------------------------------------
(* The parts together.                                                      *)
IInv ==
    /\ FwInv /\ AclInv /\ FwdInv
    /\ CronInv /\ ScriptsInv /\ UnitsInv /\ SshdInv
UndoneSoFar ==
    /\ part = "cron" => Cron!FailedUpdateUndone
    /\ part = "units" => Units!FailedUpdateUndone

(* The invariant holds in the initial states.                               *)
LEMMA IInit == Init => IInv
BY FwInit, AclInit, FwdInit, CronInit, ScriptsInit, UnitsInit, SshdInit DEF IInv

(* The invariant holds on while a part does nothing.                        *)
LEMMA IStutter ==
    /\ FwInv /\ UNCHANGED fwVars => FwInv'
    /\ AclInv /\ UNCHANGED aclVars => AclInv'
    /\ FwdInv /\ UNCHANGED fwdVars => FwdInv'
    /\ CronInv /\ UNCHANGED cronVars => CronInv'
    /\ ScriptsInv /\ UNCHANGED scriptsVars => ScriptsInv'
    /\ UnitsInv /\ UNCHANGED unitsVars => UnitsInv'
    /\ SshdInv /\ UNCHANGED sshdVars => SshdInv'
<1>1. CronInv /\ UNCHANGED cronVars => CronInv'
  <2> SUFFICES ASSUME CronInv, UNCHANGED cronVars PROVE CronInv'
    OBVIOUS
  <2>1. UNCHANGED unit /\ cronFaults' \in Nat /\ cronFaults' >= cronFaults
    BY DEF cronVars, CronInv
  <2> QED
    BY <2>1, CronStutter
<1>2. ScriptsInv /\ UNCHANGED scriptsVars => ScriptsInv'
    BY ScriptsStutter DEF scriptsVars
<1>3. UnitsInv /\ UNCHANGED unitsVars => UnitsInv'
    BY UnitsStutter
<1>4. SshdInv /\ UNCHANGED sshdVars => SshdInv'
    BY SshdStutter DEF sshdVars
<1>5. FwInv /\ UNCHANGED fwVars => FwInv'
    BY FwStutter DEF fwVars
<1> QED
    BY <1>1, <1>2, <1>3, <1>4, <1>5, AclStutter, FwdStutter

(* A step of one part keeps its invariant and leaves the other parts alone; *)
(* one that ends in a failed update has undone it.                          *)
LEMMA IStep == IInv /\ [Next]_vars => IInv' /\ [UndoneSoFar]_vars
<1> SUFFICES ASSUME IInv, [Next]_vars PROVE IInv' /\ [UndoneSoFar]_vars
    OBVIOUS
<1> USE IStutter DEF IInv
<1>1. CASE /\ part = "fw" /\ Rules!Next
           /\ UNCHANGED <<aclVars, fwdVars, cronVars, scriptsVars, unitsVars, sshdVars>>
    BY <1>1, FwStep DEF UndoneSoFar
<1>2. CASE /\ part = "acl" /\ Acl!Next
           /\ UNCHANGED <<fwVars, fwdVars, cronVars, scriptsVars, unitsVars, sshdVars>>
    BY <1>2, AclStep DEF UndoneSoFar
<1>3. CASE /\ part = "fwd" /\ Forwards!Next
           /\ UNCHANGED <<fwVars, aclVars, cronVars, scriptsVars, unitsVars, sshdVars>>
    BY <1>3, FwdStep DEF UndoneSoFar
<1>4. CASE /\ part = "cron" /\ Cron!Next
           /\ UNCHANGED <<fwVars, aclVars, fwdVars, scriptsVars, unitsVars, sshdVars>>
    BY <1>4, CronStep DEF UndoneSoFar
<1>5. CASE /\ part = "scripts" /\ Scripts!Next
           /\ UNCHANGED <<fwVars, aclVars, fwdVars, cronVars, unitsVars, sshdVars>>
    BY <1>5, ScriptsStep DEF UndoneSoFar
<1>6. CASE /\ part = "units" /\ Units!Next
           /\ UNCHANGED <<fwVars, aclVars, fwdVars, cronVars, scriptsVars, sshdVars>>
    BY <1>6, UnitsStep DEF UndoneSoFar
<1>7. CASE /\ part = "sshd" /\ Sshd!Next
           /\ UNCHANGED <<fwVars, aclVars, fwdVars, cronVars, scriptsVars, unitsVars>>
    BY <1>7, SshdStep DEF UndoneSoFar
<1>8. CASE UNCHANGED vars
  <2>1. UNCHANGED <<fwVars, aclVars, fwdVars, cronVars, scriptsVars, unitsVars, sshdVars>>
    BY <1>8 DEF vars
  <2>2. [UndoneSoFar]_vars
    BY <1>8
  <2> QED
    BY <2>1, <2>2
<1> QED
    BY <1>1, <1>2, <1>3, <1>4, <1>5, <1>6, <1>7, <1>8 DEF Next

(* The invariant holds throughout.                                          *)
THEOREM Invariance == Spec => []IInv
BY IInit, IStep, PTL DEF Spec

(* No sequence of requests, imports, bulk changes, roll-backs of the        *)
(* policy and restarts installs a rule that refuses a protected port, and   *)
(* no two enabled forwards listen on a common port (the checks of           *)
(* isProtectedPort in the handlers, checkConflict of the forwards).         *)
THEOREM PortsStayKept == Spec => []PortsKept
<1>1. IInv => PortsKept
    BY FwShows, FwdShows DEF IInv, PortsKept
<1> QED
    BY <1>1, Invariance, PTL

(* After a start of the panel whose replay met no error the kernel holds,   *)
(* for every access list and every forward, the rules of its row once and   *)
(* nothing older (ReapplyAll of both services), whatever failed requests,   *)
(* repeated exposes and flushes left before.                                *)
THEOREM StartsAlign == Spec => []StartAligns
<1>1. IInv => StartAligns
    BY AclShows, FwdShows DEF IInv, StartAligns
<1> QED
    BY <1>1, Invariance, PTL

(* While at most one step has failed every timer has its service and its    *)
(* script and what is enabled or active has a timer; every script row has   *)
(* its file; no process runs without its unit and each runs what its file   *)
(* says, but for a unit whose deletion failed at the reload; and a          *)
(* hardening that reports a roll-back has put back the file that sshd runs  *)
(* by (TimerManager.Create, Update, Delete; CreateScript, DeleteScript;     *)
(* CreateManaged, UpdateManaged, DeleteManaged; Harden).                    *)
THEOREM NothingStaysHalfDone == Spec => []NothingHalfDone
<1>1. IInv => NothingHalfDone
    BY CronShows, ScriptsShow, UnitsShow, SshdShows DEF IInv, NothingHalfDone
<1> QED
    BY <1>1, Invariance, PTL

(* An update in which a single step fails leaves the unit files, the enable *)
(* state and what runs as they were (the closures rollback of Update and    *)
(* UpdateManaged).                                                          *)
THEOREM FailedUpdatesAreUndone == Spec => FailedUpdateUndone
<1>1. IInv /\ [Next]_vars => [UndoneSoFar]_vars
    BY IStep
<1> QED
    BY <1>1, Invariance, PTL DEF Spec, FailedUpdateUndone, UndoneSoFar

-----------------------------------------------------------------------------
(* What the states are made of, beside the invariant.                       *)
ITyped == FwMore /\ AclMore /\ CronMore /\ ScriptsMore /\ UnitsMore /\ SshdMore

(* It holds on while a part does nothing.                                   *)
LEMMA TypedStutter ==
    /\ FwMore /\ UNCHANGED fwVars => FwMore'
    /\ AclMore /\ UNCHANGED aclVars => AclMore'
    /\ CronMore /\ UNCHANGED cronVars => CronMore'
    /\ ScriptsMore /\ UNCHANGED scriptsVars => ScriptsMore'
    /\ UnitsMore /\ UNCHANGED unitsVars => UnitsMore'
    /\ SshdMore /\ UNCHANGED sshdVars => SshdMore'
<1>1. FwMore /\ UNCHANGED fwVars => FwMore'
    BY FwMoreStutter DEF fwVars
<1>2. CronMore /\ UNCHANGED cronVars => CronMore'
    BY DEF cronVars, CronMore
<1>3. ScriptsMore /\ UNCHANGED scriptsVars => ScriptsMore'
    BY DEF scriptsVars, ScriptsMore
<1>4. UnitsMore /\ UNCHANGED unitsVars => UnitsMore'
    BY UnitsMoreStutter DEF unitsVars
<1> QED
    BY <1>1, <1>2, <1>3, <1>4, AclMoreStutter, SshdMoreStutter

(* A step of one part keeps it and leaves the other parts alone.            *)
LEMMA TypedStep == IInv /\ ITyped /\ [Next]_vars => ITyped'
<1> SUFFICES ASSUME IInv, ITyped, [Next]_vars PROVE ITyped'
    OBVIOUS
<1> USE TypedStutter DEF ITyped
<1>0. AclInv /\ ScriptsInv
    BY DEF IInv
<1>1. CASE /\ part = "fw" /\ Rules!Next
           /\ UNCHANGED <<aclVars, cronVars, scriptsVars, unitsVars, sshdVars>>
    BY <1>1, FwMoreStep
<1>2. CASE /\ part = "acl" /\ Acl!Next
           /\ UNCHANGED <<fwVars, cronVars, scriptsVars, unitsVars, sshdVars>>
    BY <1>0, <1>2, AclMoreStep
<1>3. CASE UNCHANGED <<fwVars, aclVars, cronVars, scriptsVars, unitsVars, sshdVars>>
    BY <1>3
<1>4. CASE /\ part = "cron" /\ Cron!Next
           /\ UNCHANGED <<fwVars, aclVars, scriptsVars, unitsVars, sshdVars>>
    BY <1>4, CronMoreStep
<1>5. CASE /\ part = "scripts" /\ Scripts!Next
           /\ UNCHANGED <<fwVars, aclVars, cronVars, unitsVars, sshdVars>>
    BY <1>0, <1>5, ScriptsMoreStep
<1>6. CASE /\ part = "units" /\ Units!Next
           /\ UNCHANGED <<fwVars, aclVars, cronVars, scriptsVars, sshdVars>>
    BY <1>6, UnitsMoreStep
<1>7. CASE /\ part = "sshd" /\ Sshd!Next
           /\ UNCHANGED <<fwVars, aclVars, cronVars, scriptsVars, unitsVars>>
    BY <1>7, SshdMoreStep
<1>8. CASE UNCHANGED vars
  <2>1. UNCHANGED <<fwVars, aclVars, cronVars, scriptsVars, unitsVars, sshdVars>>
    BY <1>8 DEF vars
  <2> QED
    BY <2>1
<1> QED
    BY <1>1, <1>2, <1>3, <1>4, <1>5, <1>6, <1>7, <1>8 DEF Next

(* The states are made of what they should be: ids are those the sequences  *)
(* have given, every row of the firewall is a rule that was asked for, a    *)
(* step that ends in the roll-back of another one leaves units, links and   *)
(* files that are some, and fail2ban is active only with its jail (the      *)
(* handlers of all seven parts).                                            *)
THEOREM TypeCorrect == Spec => []TypeOK
<1>1. Init => ITyped
    BY FwMoreInit, AclMoreInit, CronMoreInit, ScriptsMoreInit, UnitsMoreInit, SshdMoreInit DEF ITyped
<1>2. IInv /\ ITyped => TypeOK
    BY FwTypes, AclTypes, FwdTypesShow, CronTypes, ScriptsTypes, UnitsTypes, SshdTypes
       DEF IInv, ITyped, TypeOK
<1> QED
    BY <1>1, <1>2, TypedStep, Invariance, PTL DEF Spec
=============================================================================
