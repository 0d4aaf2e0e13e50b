--------------------------- MODULE ContractProofs ---------------------------
(***************************************************************************)
(* Proofs about the contracts on Ethereum, for any validators, prophecies, *)
(* tokens and addresses.  CosmosBridge: type correctness; that a prophecy  *)
(* is paid at most once as long as the total power of the validators does  *)
(* not grow; that the totals of Valset are those of its validators; and    *)
(* that assets and payments keep to their symbols as long as the symbols   *)
(* differ in lower case.  Blocklist: operations on addresses, one or a     *)
(* batch, keep the index and act on isBlocklisted as on a set.             *)
(***************************************************************************)
EXTENDS CosmosBridge, Blocklist, SumLemmas, TLAPS

(***************************************************************************)
(* Blocklist, at the level of the record that a batch threads through its  *)
(* turns.                                                                  *)
(***************************************************************************)
ListRecords == [ok : BOOLEAN, index : [Accounts -> Nat], list : Seq(Accounts)]
Agrees(st) == \A i \in 1 .. Len(st.list) : st.index[st.list[i]] = i - 1
Members(st) == {a \in Accounts : isBlocklistedIn(st.index, st.list, a)}

\* An address is found exactly when it is listed.
LEMMA FoundIffListed ==
    ASSUME NEW st \in ListRecords, Agrees(st)
    PROVE  Members(st) = {a \in Accounts : \E i \in 1 .. Len(st.list) : st.list[i] = a}
<1>0. st.index \in [Accounts -> Nat] /\ st.list \in Seq(Accounts)
    BY Zenon DEF ListRecords
<1>1. ASSUME NEW a \in Accounts, isBlocklistedIn(st.index, st.list, a)
      PROVE  \E i \in 1 .. Len(st.list) : st.list[i] = a
    <2>1. st.index[a] + 1 \in 1 .. Len(st.list) /\ st.list[st.index[a] + 1] = a
        BY <1>0, <1>1 DEF isBlocklistedIn
    <2> QED BY Zenon, <2>1
<1>2. ASSUME NEW a \in Accounts, NEW i \in 1 .. Len(st.list), st.list[i] = a
      PROVE  isBlocklistedIn(st.index, st.list, a)
    <2>1. st.index[a] = i - 1
        BY Zenon, <1>2 DEF Agrees
    <2> QED BY <1>0, <1>2, <2>1 DEF isBlocklistedIn
<1> QED BY Zenon, <1>1, <1>2 DEF Members

\* _addToBlocklist takes an address that is not listed and lists it, and no other.
LEMMA AddedStep ==
    ASSUME NEW st \in ListRecords, NEW a \in Accounts
    PROVE  /\ Added(st, a) \in ListRecords
           /\ Added(st, a).ok => st.ok
           /\ Agrees(st) /\ Added(st, a).ok =>
                /\ Agrees(Added(st, a))
                /\ a \notin Members(st)
                /\ Members(Added(st, a)) = Members(st) \cup {a}
<1> DEFINE n == Len(st.list)
<1>0. st.index \in [Accounts -> Nat] /\ st.list \in Seq(Accounts) /\ st.ok \in BOOLEAN /\ n \in Nat
    BY DEF ListRecords
<1>1. PICK t : t = Added(st, a)
    BY Zenon
<1>2. /\ t.ok = (st.ok /\ ~isBlocklistedIn(st.index, st.list, a))
      /\ t.index = [st.index EXCEPT ![a] = n]
      /\ t.list = Append(st.list, a)
      /\ t = [ok |-> t.ok, index |-> t.index, list |-> t.list]
    BY Zenon, <1>1 DEF Added
<1>3. t \in ListRecords
    <2>1. t.index \in [Accounts -> Nat] /\ t.list \in Seq(Accounts) /\ t.ok \in BOOLEAN
        BY <1>0, <1>2
    <2> QED BY ONLY Zenon, <1>2, <2>1 DEF ListRecords
<1>4. ASSUME Agrees(st), t.ok
      PROVE  Agrees(t) /\ a \notin Members(st) /\ Members(t) = Members(st) \cup {a}
    <2>1. a \notin Members(st)
        BY Zenon, <1>2, <1>4 DEF Members
    <2>2. \A i \in 1 .. n : st.list[i] # a
        BY Zenon, <1>4, <2>1, FoundIffListed
    <2>3. Len(t.list) = n + 1 /\ t.list[n + 1] = a /\ \A i \in 1 .. n : t.list[i] = st.list[i]
        BY <1>0, <1>2
    <2>4. ASSUME NEW i \in 1 .. n + 1 PROVE t.index[t.list[i]] = i - 1
        <3>1. CASE i = n + 1
            BY <1>0, <1>2, <2>3, <3>1
        <3>2. CASE i \in 1 .. n
            <4>1. st.list[i] \in Accounts /\ st.list[i] # a /\ st.index[st.list[i]] = i - 1
                BY SMTT(30), <1>0, <1>4, <2>2, <3>2 DEF Agrees
            <4> QED BY <1>0, <1>2, <2>3, <3>2, <4>1
        <3> QED BY <1>0, <3>1, <3>2
    <2>5. Agrees(t)
        BY Zenon, <2>3, <2>4 DEF Agrees
    <2>6. \A b \in Accounts : (\E i \in 1 .. n + 1 : t.list[i] = b) <=> (b = a \/ \E i \in 1 .. n : st.list[i] = b)
        <3> HIDE DEF n
        <3>1. \A i : i \in 1 .. n + 1 <=> (i \in 1 .. n \/ i = n + 1)
            BY <1>0
        <3> QED BY Zenon, <2>3, <3>1
    <2>7. Members(t) = {b \in Accounts : \E i \in 1 .. n + 1 : t.list[i] = b}
        BY <1>3, <2>3, <2>5, FoundIffListed
    <2>8. Members(st) = {b \in Accounts : \E i \in 1 .. n : st.list[i] = b}
        BY Zenon, <1>4, FoundIffListed
    <2>9. Members(t) = Members(st) \cup {a}
        <3> HIDE DEF n
        <3> QED BY Zenon, <2>6, <2>7, <2>8
    <2> QED BY Zenon, <2>1, <2>5, <2>9
<1>5. t.ok => st.ok
    BY Zenon, <1>2
<1> QED BY Zenon, <1>1, <1>3, <1>4, <1>5

\* _removeFromBlocklist takes a listed address and takes it, and no other, from
\* the list.
LEMMA RemovedStep ==
    ASSUME NEW st \in ListRecords, NEW a \in Accounts
    PROVE  /\ Removed(st, a) \in ListRecords
           /\ Removed(st, a).ok => st.ok
           /\ Agrees(st) /\ Removed(st, a).ok =>
                /\ Agrees(Removed(st, a))
                /\ a \in Members(st)
                /\ Members(Removed(st, a)) = Members(st) \ {a}
<1> DEFINE n == Len(st.list)
           r == st.index[a]
           last == st.list[n]
           moved == [st.list EXCEPT ![r + 1] = last]
<1>0. st.index \in [Accounts -> Nat] /\ st.list \in Seq(Accounts) /\ st.ok \in BOOLEAN /\ n \in Nat /\ r \in Nat
    BY DEF ListRecords
<1>1. PICK t : t = Removed(st, a)
    BY Zenon
<1>2. CASE ~(st.ok /\ isBlocklistedIn(st.index, st.list, a))
    <2>1. t = [st EXCEPT !.ok = FALSE]
        BY Zenon, <1>1, <1>2 DEF Removed
    <2>2. t.ok = FALSE /\ t \in ListRecords
        BY Zenon, <2>1 DEF ListRecords
    <2> QED BY Zenon, <1>1, <2>2
<1>3. CASE st.ok /\ isBlocklistedIn(st.index, st.list, a)
    <2>1. /\ t.ok = TRUE
          /\ t.index = [st.index EXCEPT ![last] = r]
          /\ t.list = SubSeq(moved, 1, n - 1)
          /\ t = [ok |-> t.ok, index |-> t.index, list |-> t.list]
        BY Zenon, <1>1, <1>3 DEF Removed
    <2>2. r \in 0 .. n - 1 /\ st.list[r + 1] = a /\ last \in Accounts
        BY <1>0, <1>3 DEF isBlocklistedIn
    <2>3. moved \in Seq(Accounts) /\ Len(moved) = n
        BY <1>0, <2>2
    <2>4. \A i \in 1 .. n : moved[i] = IF i = r + 1 THEN last ELSE st.list[i]
        BY <1>0, <2>2
    <2> HIDE DEF moved, last, r, n
    <2>5. /\ t.list \in Seq(Accounts) /\ Len(t.list) = n - 1
          /\ \A i \in 1 .. n - 1 : t.list[i] = moved[i]
        <3>1. \A s \in Seq(Accounts), k \in Nat : k <= Len(s) =>
                /\ SubSeq(s, 1, k) \in Seq(Accounts) /\ Len(SubSeq(s, 1, k)) = k
                /\ \A i \in 1 .. k : SubSeq(s, 1, k)[i] = s[i]
            OBVIOUS
        <3>2. n - 1 \in Nat /\ n - 1 <= n
            BY <1>0, <2>2
        <3> QED BY <2>1, <2>3, <3>1, <3>2
    <2>6. \A i \in 1 .. n - 1 : t.list[i] = IF i = r + 1 THEN last ELSE st.list[i]
        BY <1>0, <2>4, <2>5
    <2>7. t \in ListRecords
        <3>1. t.index \in [Accounts -> Nat]
            BY Zenon, <1>0, <2>1, <2>2
        <3> QED BY ONLY Zenon, <2>1, <2>5, <3>1 DEF ListRecords
    <2>8. ASSUME Agrees(st)
          PROVE  Agrees(t) /\ a \in Members(st) /\ Members(t) = Members(st) \ {a}
        <3>1. \A i \in 1 .. n : st.list[i] \in Accounts /\ st.index[st.list[i]] = i - 1
            BY <1>0, <2>8 DEF Agrees, n
        <3>2. st.index[last] = n - 1 /\ last = st.list[n] /\ n \in 1 .. n
            BY SMTT(30), <1>0, <2>2, <3>1 DEF last
        <3>3. ASSUME NEW i \in 1 .. n - 1 PROVE t.index[t.list[i]] = i - 1
            <4>1. CASE i = r + 1
                BY SMTT(30), <1>0, <2>1, <2>2, <2>6, <4>1
            <4>2. CASE i # r + 1
                <5>1. i \in 1 .. n
                    BY <1>0
                <5>2. st.list[i] \in Accounts /\ st.index[st.list[i]] = i - 1
                    BY Zenon, <3>1, <5>1
                <5>3. st.list[i] # last
                    BY SMTT(30), <1>0, <3>2, <5>2
                <5>4. t.list[i] = st.list[i]
                    BY Zenon, <2>6, <4>2
                <5>5. t.index[st.list[i]] = st.index[st.list[i]]
                    BY Zenon, <1>0, <2>1, <5>2, <5>3
                <5> QED BY Zenon, <5>2, <5>4, <5>5
            <4> QED BY Zenon, <4>1, <4>2
        <3>4. Agrees(t)
            BY Zenon, <2>5, <3>3 DEF Agrees
        <3>5. a \in Members(st)
            BY Zenon, <1>3 DEF Members
        <3>6. Members(t) = {b \in Accounts : \E i \in 1 .. n - 1 : t.list[i] = b}
            BY <2>5, <2>7, <3>4, FoundIffListed
        <3>7. Members(st) = {b \in Accounts : \E i \in 1 .. n : st.list[i] = b}
            BY Zenon, <2>8, FoundIffListed DEF n
        <3>8. ASSUME NEW b \in Accounts, NEW i \in 1 .. n - 1, t.list[i] = b
              PROVE  b # a /\ \E k \in 1 .. n : st.list[k] = b
            <4>1. CASE i = r + 1
                <5>1. b = last /\ last = st.list[n]
                    BY Zenon, <2>6, <3>2, <3>8, <4>1
                <5>2. b # a
                    BY <1>0, <2>2, <3>1, <3>2, <4>1, <5>1 DEF r
                <5> QED BY Zenon, <3>2, <5>1, <5>2
            <4>2. CASE i # r + 1
                <5>1. b = st.list[i] /\ i \in 1 .. n
                    BY <1>0, <2>6, <3>8, <4>2
                <5>2. b # a
                    BY SMTT(30), <1>0, <2>2, <3>1, <4>2, <5>1 DEF r
                <5> QED BY Zenon, <5>1, <5>2
            <4> QED BY Zenon, <4>1, <4>2
        <3>9. ASSUME NEW b \in Accounts, b # a, NEW k \in 1 .. n, st.list[k] = b
              PROVE  \E i \in 1 .. n - 1 : t.list[i] = b
            <4>1. k # r + 1
                BY Zenon, <2>2, <3>9
            <4>2. CASE k = n
                <5>1. r + 1 \in 1 .. n - 1
                    BY <1>0, <2>2, <4>1, <4>2
                <5>2. t.list[r + 1] = b
                    BY Zenon, <2>6, <3>2, <3>9, <4>2, <5>1
                <5> QED BY Zenon, <5>1, <5>2
            <4>3. CASE k # n
                <5>1. k \in 1 .. n - 1
                    BY <1>0, <4>3
                <5>2. t.list[k] = b
                    BY Zenon, <2>6, <3>9, <4>1, <5>1
                <5> QED BY Zenon, <5>1, <5>2
            <4> QED BY Zenon, <4>2, <4>3
        <3>10. Members(t) = Members(st) \ {a}
            BY Zenon, <3>6, <3>7, <3>8, <3>9
        <3> QED BY Zenon, <3>4, <3>5, <3>10
    <2> QED BY Zenon, <1>1, <1>3, <2>7, <2>8
<1> QED BY Zenon, <1>2, <1>3

-----------------------------------------------------------------------------
(***************************************************************************)
(* A batch: the addresses of a sequence in turn.  f gives the record after *)
(* each turn.                                                              *)
(***************************************************************************)
AddTurns(f, batch) ==
    f = [n \in 0 .. Len(batch) |-> IF n = 0 THEN Now ELSE Added(f[n - 1], batch[n])]
RemoveTurns(f, batch) ==
    f = [n \in 0 .. Len(batch) |-> IF n = 0 THEN Now ELSE Removed(f[n - 1], batch[n])]

Changed(adding, st, a) == IF adding THEN Added(st, a) ELSE Removed(st, a)
Turns(adding, f, batch, k) ==
    f = [n \in 0 .. k |-> IF n = 0 THEN Now ELSE Changed(adding, f[n - 1], batch[n])]

\* A set of natural numbers has a smallest member.
LEMMA SmallestNat ==
    ASSUME NEW S, S \subseteq Nat, S # {}
    PROVE  \E n \in S : \A m \in S : n <= m
<1>1. IsWellFoundedOn(OpToRel(<, Nat), Nat)
    BY Zenon, NatLessThanWellFounded
<1>2. PICK n \in S : \A m \in S : ~(<<m, n>> \in OpToRel(<, Nat))
    BY Zenon, <1>1, WFMin
<1>3. \A m \in S : ~(m < n)
    BY Zenon, <1>2 DEF OpToRel
<1> QED BY <1>3

\* The turns of a batch are defined for every number of addresses.
LEMMA TurnsExist ==
    ASSUME NEW adding \in BOOLEAN, NEW batch, NEW k \in Nat
    PROVE  \E f : Turns(adding, f, batch, k)
<1> DEFINE C == {n \in Nat : ~ \E f : Turns(adding, f, batch, n)}
<1> SUFFICES ASSUME C # {} PROVE FALSE
    BY Zenon
<1>1. PICK n \in C : \A m \in C : n <= m
    <2>1. C \subseteq Nat
        BY Zenon
    <2> HIDE DEF C
    <2> QED BY Zenon, <2>1, SmallestNat
<1>2. CASE n = 0
    <2> DEFINE f == [m \in 0 .. 0 |-> Now]
    <2>1. Turns(adding, f, batch, 0)
        BY DEF Turns
    <2> QED BY Zenon, <1>2, <2>1
<1>3. CASE n # 0
    <2>1. n - 1 \in Nat /\ ~(n <= n - 1)
        BY <1>3
    <2>2. PICK g : Turns(adding, g, batch, n - 1)
        BY Zenon, <1>1, <2>1
    <2> DEFINE f == [m \in 0 .. n |-> IF m = n THEN Changed(adding, g[n - 1], batch[n]) ELSE g[m]]
    <2>3. ASSUME NEW m \in 0 .. n
          PROVE  f[m] = IF m = 0 THEN Now ELSE Changed(adding, f[m - 1], batch[m])
        <3>1. CASE m = 0
            BY <1>3, <2>2, <3>1 DEF Turns
        <3>2. CASE m # 0
            <4>1. m - 1 \in 0 .. n - 1 /\ m - 1 \in 0 .. n /\ m - 1 # n
                BY <3>2
            <4>2. f[m - 1] = g[m - 1]
                BY Zenon, <4>1
            <4>3. CASE m = n
                <5>1. f[m] = Changed(adding, g[m - 1], batch[m])
                    BY Zenon, <4>3
                <5> QED BY Zenon, <3>2, <4>2, <5>1
            <4>4. CASE m # n
                <5>1. m \in 0 .. n - 1
                    BY <4>4
                <5>2. g[m] = Changed(adding, g[m - 1], batch[m])
                    BY Zenon, <2>2, <3>2, <5>1 DEF Turns
                <5> QED BY Zenon, <3>2, <4>2, <4>4, <5>2
            <4> QED BY Zenon, <4>3, <4>4
        <3> QED BY Zenon, <3>1, <3>2
    <2>4. f = [m \in 0 .. n |-> f[m]]
        BY Zenon
    <2> HIDE DEF f
    <2>5. Turns(adding, f, batch, n)
        BY Zenon, <2>3, <2>4 DEF Turns
    <2> QED BY Zenon, <2>5
<1> QED BY Zenon, <1>2, <1>3

\* What a batch does to a list whose index is right, if no turn of it fails:
\* every address is taken once.
LEMMA TurnsAct ==
    ASSUME NEW adding \in BOOLEAN, NEW batch \in Seq(Accounts), Now \in ListRecords, Agrees(Now),
           NEW f, Turns(adding, f, batch, Len(batch)), f[Len(batch)].ok
    PROVE  /\ f[Len(batch)] \in ListRecords /\ Agrees(f[Len(batch)])
           /\ adding => /\ Range(batch) \cap Members(Now) = {}
                        /\ Members(f[Len(batch)]) = Members(Now) \cup Range(batch)
           /\ ~adding => /\ Range(batch) \subseteq Members(Now)
                         /\ Members(f[Len(batch)]) = Members(Now) \ Range(batch)
<1> DEFINE Upto(n) == {batch[i] : i \in 1 .. n}
           Good(n) == /\ f[n] \in ListRecords
                      /\ f[n].ok =>
                           /\ Agrees(f[n])
                           /\ adding => /\ Upto(n) \cap Members(Now) = {}
                                        /\ Members(f[n]) = Members(Now) \cup Upto(n)
                           /\ ~adding => /\ Upto(n) \subseteq Members(Now)
                                         /\ Members(f[n]) = Members(Now) \ Upto(n)
           C == {n \in 0 .. Len(batch) : ~Good(n)}
<1>0. Len(batch) \in Nat /\ \A i \in 1 .. Len(batch) : batch[i] \in Accounts
    BY ONLY batch \in Seq(Accounts)
<1>1. C = {}
    <2> SUFFICES ASSUME C # {} PROVE FALSE
        BY Zenon
    <2>1. PICK n \in C : \A m \in C : n <= m
        <3>1. C \subseteq Nat
            BY ONLY <1>0
        <3> HIDE DEF C
        <3> QED BY Zenon, <3>1, SmallestNat
    <2>2. n \in 0 .. Len(batch) /\ ~Good(n)
        BY Zenon
    <2>3. CASE n = 0
        <3>1. f[0] = Now /\ Upto(0) = {}
            BY <1>0 DEF Turns
        <3> HIDE DEF Upto
        <3> QED BY Zenon, <2>2, <2>3, <3>1
    <2>4. CASE n # 0
        <3> DEFINE m == n - 1
        <3>1. m \in 0 .. Len(batch) /\ ~(n <= m) /\ n \in 1 .. Len(batch)
            BY ONLY SMTT(30), <1>0, <2>2, <2>4
        <3>2. Good(m)
            BY Zenon, <2>1, <3>1
        <3>3. f[n] = Changed(adding, f[m], batch[n]) /\ batch[n] \in Accounts
            BY ONLY Zenon, SMTT(30), <1>0, <2>2, <2>4, <3>1, Turns(adding, f, batch, Len(batch)) DEF Turns
        <3>4. Upto(n) = Upto(m) \cup {batch[n]}
            <4>1. \A i : i \in 1 .. n <=> (i \in 1 .. m \/ i = n)
                BY <3>1
            <4> QED BY Zenon, <4>1
        <3>5. PICK U, V : U = Upto(n) /\ V = Upto(m)
            BY Zenon
        <3>6. PICK s, t, a : s = f[m] /\ t = f[n] /\ a = batch[n]
            BY Zenon
        <3>7. /\ s \in ListRecords
              /\ s.ok => /\ Agrees(s)
                         /\ adding => V \cap Members(Now) = {} /\ Members(s) = Members(Now) \cup V
                         /\ ~adding => V \subseteq Members(Now) /\ Members(s) = Members(Now) \ V
            BY ONLY Zenon, <3>2, <3>5, <3>6
        <3>8. U = V \cup {a} /\ a \in Accounts
            BY ONLY Zenon, SMTT(30), <3>3, <3>4, <3>5, <3>6
        <3>9. CASE adding
            <4>1. t = Added(s, a)
                BY ONLY Zenon, SMTT(30), <3>3, <3>6, <3>9 DEF Changed
            <4>2. /\ t \in ListRecords /\ (t.ok => s.ok)
                  /\ Agrees(s) /\ t.ok => /\ Agrees(t) /\ a \notin Members(s)
                                          /\ Members(t) = Members(s) \cup {a}
                BY ONLY Zenon, SMTT(30), <3>7, <3>8, <4>1, AddedStep
            <4>3. /\ t \in ListRecords
                  /\ t.ok => /\ Agrees(t) /\ U \cap Members(Now) = {}
                             /\ Members(t) = Members(Now) \cup U
                BY ONLY SMTT(30), <3>7, <3>8, <3>9, <4>2
            <4> QED BY ONLY Zenon, SMTT(30), <2>2, <3>5, <3>6, <3>9, <4>3
        <3>10. CASE ~adding
            <4>1. t = Removed(s, a)
                BY ONLY Zenon, SMTT(30), <3>3, <3>6, <3>10 DEF Changed
            <4>2. /\ t \in ListRecords /\ (t.ok => s.ok)
                  /\ Agrees(s) /\ t.ok => /\ Agrees(t) /\ a \in Members(s)
                                          /\ Members(t) = Members(s) \ {a}
                BY ONLY Zenon, SMTT(30), <3>7, <3>8, <4>1, RemovedStep
            <4>3. /\ t \in ListRecords
                  /\ t.ok => /\ Agrees(t) /\ U \subseteq Members(Now)
                             /\ Members(t) = Members(Now) \ U
                BY ONLY Zenon, <3>7, <3>8, <3>10, <4>2
            <4> QED BY ONLY Zenon, SMTT(30), <2>2, <3>5, <3>6, <3>10, <4>3
        <3> QED BY Zenon, <3>9, <3>10
    <2> QED BY Zenon, <2>3, <2>4
<1>2. Good(Len(batch))
    <2>1. Len(batch) \in 0 .. Len(batch)
        BY ONLY <1>0
    <2> HIDE DEF Good
    <2> QED BY ONLY Zenon, <1>1, <2>1 DEF C
<1>3. Upto(Len(batch)) = Range(batch)
    <2>1. DOMAIN batch = 1 .. Len(batch)
        BY ONLY batch \in Seq(Accounts)
    <2> QED BY ONLY Zenon, <2>1 DEF Range
<1> HIDE DEF Upto
<1> QED BY Zenon, <1>2, <1>3

-----------------------------------------------------------------------------
(***************************************************************************)
(* The contract: its state is such a record, committed if no turn fails.   *)
(***************************************************************************)
BlocklistInv == ListTypeOK /\ IndexAgrees

\* The empty list has its index.
LEMMA BlocklistStart == ListInit => BlocklistInv
BY DEF ListInit, BlocklistInv, ListTypeOK, IndexAgrees

\* The state as a record.
LEMMA NowGood ==
    ASSUME BlocklistInv
    PROVE  Now \in ListRecords /\ Agrees(Now) /\ Members(Now) = Blocked
<1>1. /\ Now \in ListRecords /\ Now.index = userIndex /\ Now.list = userList
      /\ DOMAIN userList = 1 .. Len(userList)
    BY DEF BlocklistInv, ListTypeOK, Now, ListRecords
<1>2. Agrees(Now)
    BY Zenon, <1>1 DEF BlocklistInv, IndexAgrees, Agrees
<1> QED BY Zenon, <1>1, <1>2 DEF Members, Blocked, isBlocklisted

\* What is committed becomes the state.
LEMMA Committed ==
    ASSUME NEW st \in ListRecords, Agrees(st), Commit(st)
    PROVE  BlocklistInv' /\ Blocked' = Members(st)
<1>1. /\ st.index \in [Accounts -> Nat] /\ st.list \in Seq(Accounts)
      /\ DOMAIN st.list = 1 .. Len(st.list)
    BY DEF ListRecords
<1>2. userIndex' = st.index /\ userList' = st.list
    BY Zenon DEF Commit
<1>3. BlocklistInv'
    BY Zenon, <1>1, <1>2 DEF Agrees, BlocklistInv, ListTypeOK, IndexAgrees
<1>4. Blocked' = {a \in Accounts : isBlocklistedIn(userIndex', userList', a)}
    BY Zenon DEF Blocked, isBlocklisted, isBlocklistedIn
<1> QED BY Zenon, <1>2, <1>3, <1>4 DEF Members

\* addToBlocklist keeps the index, and blocks its address and no other.
LEMMA AddIsSet ==
    ASSUME BlocklistInv, NEW a \in Accounts, addToBlocklist(a)
    PROVE  BlocklistInv' /\ AddsTo({a})
<1>1. Commit(Added(Now, a)) /\ Added(Now, a).ok
    BY Zenon DEF addToBlocklist, Commit
<1>2. /\ Added(Now, a) \in ListRecords /\ Agrees(Added(Now, a)) /\ a \notin Members(Now)
      /\ Members(Added(Now, a)) = Members(Now) \cup {a}
    BY Zenon, <1>1, NowGood, AddedStep
<1>3. BlocklistInv' /\ Blocked' = Blocked \cup {a}
    BY Zenon, <1>1, <1>2, Committed, NowGood
<1> QED BY Zenon, <1>2, <1>3, NowGood DEF AddsTo

\* removeFromBlocklist keeps the index, and unblocks its address and no other.
LEMMA RemoveIsSet ==
    ASSUME BlocklistInv, NEW a \in Accounts, removeFromBlocklist(a)
    PROVE  BlocklistInv' /\ RemovesFrom({a})
<1>1. Commit(Removed(Now, a)) /\ Removed(Now, a).ok
    BY Zenon DEF removeFromBlocklist, Commit
<1>2. /\ Removed(Now, a) \in ListRecords /\ Agrees(Removed(Now, a)) /\ a \in Members(Now)
      /\ Members(Removed(Now, a)) = Members(Now) \ {a}
    BY Zenon, <1>1, NowGood, RemovedStep
<1>3. BlocklistInv' /\ Blocked' = Blocked \ {a}
    BY Zenon, <1>1, <1>2, Committed, NowGood
<1> QED BY Zenon, <1>2, <1>3, NowGood DEF RemovesFrom

\* A batch is a sequence of addresses.
LEMMA BatchIsSeq == ASSUME NEW batch \in Batches PROVE batch \in Seq(Accounts) /\ Len(batch) \in Nat
<1>1. PICK n \in 0 .. MaxBatch : batch \in [1 .. n -> Accounts]
    BY Zenon DEF Batches
<1>2. n \in Nat
    BY <1>1, BatchAssumption
<1> QED BY <1>1, <1>2

\* batchAddToBlocklist keeps the index, and blocks the addresses of the batch
\* and no other; none of them was blocked.
LEMMA BatchAddIsSet ==
    ASSUME BlocklistInv, NEW batch \in Batches, batchAddToBlocklist(batch)
    PROVE  BlocklistInv' /\ AddsTo(Range(batch))
<1> DEFINE f == CHOOSE g : AddTurns(g, batch)
           st == f[Len(batch)]
<1>0. batch \in Seq(Accounts) /\ Len(batch) \in Nat
    BY Zenon, BatchIsSeq
<1>1. Commit(st)
    BY Zenon DEF batchAddToBlocklist, AddTurns
<1>2. AddTurns(f, batch)
    <2>1. PICK g : Turns(TRUE, g, batch, Len(batch))
        BY Zenon, <1>0, TurnsExist
    <2>2. AddTurns(g, batch)
        BY Zenon, <2>1 DEF Turns, AddTurns, Changed
    <2> QED BY Zenon, <2>2
<1> HIDE DEF f
<1>3. Turns(TRUE, f, batch, Len(batch))
    BY Zenon, <1>2 DEF Turns, AddTurns, Changed
<1>4. st.ok
    BY Zenon, <1>1 DEF Commit
<1>5. /\ st \in ListRecords /\ Agrees(st) /\ Range(batch) \cap Members(Now) = {}
      /\ Members(st) = Members(Now) \cup Range(batch)
    BY Zenon, <1>0, <1>3, <1>4, NowGood, TurnsAct
<1> HIDE DEF st
<1>6. BlocklistInv' /\ Blocked' = Blocked \cup Range(batch)
    BY Zenon, <1>1, <1>5, Committed, NowGood
<1> QED BY Zenon, <1>5, <1>6, NowGood DEF AddsTo

\* batchRemoveFromBlocklist keeps the index, and unblocks the addresses of the
\* batch and no other; all of them were blocked.
LEMMA BatchRemoveIsSet ==
    ASSUME BlocklistInv, NEW batch \in Batches, batchRemoveFromBlocklist(batch)
    PROVE  BlocklistInv' /\ RemovesFrom(Range(batch))
<1> DEFINE f == CHOOSE g : RemoveTurns(g, batch)
           st == f[Len(batch)]
<1>0. batch \in Seq(Accounts) /\ Len(batch) \in Nat
    BY Zenon, BatchIsSeq
<1>1. Commit(st)
    BY Zenon DEF batchRemoveFromBlocklist, RemoveTurns
<1>2. RemoveTurns(f, batch)
    <2>1. PICK g : Turns(FALSE, g, batch, Len(batch))
        BY Zenon, <1>0, TurnsExist
    <2>2. RemoveTurns(g, batch)
        BY Zenon, <2>1 DEF Turns, RemoveTurns, Changed
    <2> QED BY Zenon, <2>2
<1> HIDE DEF f
<1>3. Turns(FALSE, f, batch, Len(batch))
    BY Zenon, <1>2 DEF Turns, RemoveTurns, Changed
<1>4. st.ok
    BY Zenon, <1>1 DEF Commit
<1>5. /\ st \in ListRecords /\ Agrees(st) /\ Range(batch) \subseteq Members(Now)
      /\ Members(st) = Members(Now) \ Range(batch)
    BY Zenon, <1>0, <1>3, <1>4, NowGood, TurnsAct
<1> HIDE DEF st
<1>6. BlocklistInv' /\ Blocked' = Blocked \ Range(batch)
    BY Zenon, <1>1, <1>5, Committed, NowGood
<1> QED BY Zenon, <1>5, <1>6, NowGood DEF RemovesFrom

\* Every operation of the contract keeps the index.
LEMMA BlocklistStep == BlocklistInv /\ [ListNext]_listState => BlocklistInv'
<1> SUFFICES ASSUME BlocklistInv, [ListNext]_listState PROVE BlocklistInv'
    BY Zenon
<1>1. CASE SingleStep
    BY Zenon, <1>1, AddIsSet, RemoveIsSet DEF SingleStep
<1>2. CASE BatchStep
    BY Zenon, <1>2, BatchAddIsSet, BatchRemoveIsSet DEF BatchStep
<1>3. CASE UNCHANGED listState
    BY Zenon, <1>3 DEF BlocklistInv, ListTypeOK, IndexAgrees, listState
<1> QED BY Zenon, <1>1, <1>2, <1>3 DEF ListNext

\* Through any additions and removals, of single addresses and in batches of any
\* length, every listed address is found through its index (Blocklist.sol).
THEOREM ListedAreFound == ListSpec => []IndexAgrees
<1>1. BlocklistInv => IndexAgrees
    BY Zenon DEF BlocklistInv
<1> QED BY <1>1, BlocklistStart, BlocklistStep, PTL DEF ListSpec

\* addToBlocklist and removeFromBlocklist act on isBlocklisted exactly as
\* adding to and removing from a set, whatever happened before.
THEOREM SinglesAreSetOperations == ListSpec => SingleIsSet
<1>1. BlocklistInv /\ [ListNext]_listState =>
        [\A a \in Accounts : /\ addToBlocklist(a) => AddsTo({a})
                             /\ removeFromBlocklist(a) => RemovesFrom({a})]_listState
    BY Zenon, AddIsSet, RemoveIsSet
<1> QED BY <1>1, BlocklistStart, BlocklistStep, PTL DEF ListSpec, SingleIsSet

\* A batch acts on isBlocklisted as adding or removing the set of its addresses;
\* one that names an address twice, or one already in its place, reverts.
THEOREM BatchesAreSetOperations == ListSpec => BatchIsSet
<1>1. BlocklistInv /\ [ListNext]_listState =>
        [\A batch \in Batches :
            /\ batchAddToBlocklist(batch) => AddsTo(Range(batch))
            /\ batchRemoveFromBlocklist(batch) => RemovesFrom(Range(batch))]_listState
    BY Zenon, BatchAddIsSet, BatchRemoveIsSet
<1> QED BY <1>1, BlocklistStart, BlocklistStep, PTL DEF ListSpec, BatchIsSet

-----------------------------------------------------------------------------
\* Resolving a symbol gives a symbol.
LEMMA SymbolResolved ==
    ASSUME NEW map \in [Symbols -> Symbols \cup {Unset}], NEW s \in Symbols
    PROVE  safeLowerToUpperTokens(map, s) \in Symbols
BY Zenon DEF safeLowerToUpperTokens

\* Lowering a token's symbol gives a symbol.
LEMMA LoweredSymbol ==
    ASSUME NEW t \in Tokens \cup Existing
    PROVE  SymbolOf[t] \in Symbols /\ Lower[SymbolOf[t]] \in Symbols
BY Zenon, AddressAssumption, SymbolAssumption

\* The initial state is well typed.
LEMMA InitTyped == ContractInit => ContractTypeOK
<1> SUFFICES ASSUME ContractInit PROVE ContractTypeOK
    BY Zenon
<1>1. BankTypeOK
    BY Zenon, SymbolAssumption, HeldAssumption DEF ContractInit, BankInit, BankTypeOK, Assets
<1>2. ethPower \in [Validators -> Nat]
    BY InitialPowersAssumption, PowerAssumption DEF ContractInit
<1>3. validatorCount \in Nat
    BY Zenon, ValidatorsAssumption, FS_CardinalityType DEF ContractInit
<1>4. totalPower \in Nat
    <2>1. \A v \in Validators : InitialPowers[v] \in Nat
        BY InitialPowersAssumption, PowerAssumption
    <2> QED BY Zenon, <2>1, ValidatorsAssumption, SumNat DEF ContractInit
<1>5. completed \in [EthProphecies -> Seq(Assets \cup BridgeTokens)]
    BY DEF ContractInit
<1> QED
    BY Zenon, <1>1, <1>2, <1>3, <1>4, <1>5 DEF ContractInit, ContractTypeOK

\* Every step of the bank keeps its types.
LEMMA BankTyped == BankTypeOK /\ BankNext => BankTypeOK'
<1> SUFFICES ASSUME BankTypeOK, BankNext PROVE BankTypeOK'
    BY Zenon
<1> USE BankBoundsAssumption
<1>1. ASSUME NEW u \in Users, NEW r \in Recipients, NEW t \in Assets, NEW n \in 0 .. MaxHeld,
             lock(u, r, t, n)
      PROVE  BankTypeOK'
    <2>1. AssetSymbol(t) \in Symbols
        BY Zenon, SymbolAssumption, LoweredSymbol DEF AssetSymbol, Assets
    <2> QED BY <1>1, <2>1 DEF lock, BankTypeOK
<1>2. ASSUME NEW u \in Users, NEW r \in Recipients, NEW t \in BridgeTokens,
             NEW n \in 0 .. minted[t], burn(u, r, t, n)
      PROVE  BankTypeOK'
    BY <1>2 DEF burn, listVars, BankTypeOK
<1>3. ASSUME NEW t \in Tokens, NEW b \in BOOLEAN, whitelistToken(t, b)
      PROVE  BankTypeOK'
    BY Zenon, <1>3, LoweredSymbol DEF whitelistToken, fundVars, BankTypeOK, Assets
<1>4. ASSUME NEW t \in Existing, addExistingBridgeToken(t)
      PROVE  BankTypeOK'
    BY Zenon, <1>4, LoweredSymbol DEF addExistingBridgeToken, fundVars, BankTypeOK, BridgeTokens
<1>5. CASE togglePause
    BY Zenon, <1>5 DEF togglePause, listVars, fundVars, BankTypeOK
<1>6. ASSUME NEW us \in SUBSET Users, setBlocklist(us)
      PROVE  BankTypeOK'
    BY Zenon, <1>6 DEF setBlocklist, listVars, fundVars, BankTypeOK
<1> QED
    BY Zenon, <1>1, <1>2, <1>3, <1>4, <1>5, <1>6
    DEF BankNext, BankUser, BankAdmin, updateEthWhiteList, bulkWhitelistUpdateLimits

\* Every change of the validator set keeps the types, and the votes.
LEMMA ValsetTyped ==
    ASSUME ContractTypeOK, ManageValset
    PROVE  ContractTypeOK' /\ UNCHANGED voteVars
<1> USE ValidatorsAssumption, PowerAssumption DEF Powers
<1>1. ASSUME NEW v \in Validators, NEW n \in Powers, addValidator(v, n)
      PROVE  ContractTypeOK' /\ UNCHANGED voteVars
    <2>1. BankTypeOK'
        BY Zenon, <1>1 DEF addValidator, ContractTypeOK, BankTypeOK, bridgeBankVars
    <2> QED BY SMTT(30), <1>1, <2>1 DEF addValidator, ContractTypeOK, voteVars
<1>2. ASSUME NEW v \in Validators, NEW n \in Powers, updateValidatorPower(v, n)
      PROVE  ContractTypeOK' /\ UNCHANGED voteVars
    <2>1. BankTypeOK'
        BY Zenon, <1>2 DEF updateValidatorPower, ContractTypeOK, BankTypeOK, bridgeBankVars
    <2> QED BY SMTT(30), <1>2, <2>1 DEF updateValidatorPower, ContractTypeOK, voteVars
<1>3. ASSUME NEW v \in Validators, removeValidator(v)
      PROVE  ContractTypeOK' /\ UNCHANGED voteVars
    <2>1. BankTypeOK'
        BY Zenon, <1>3 DEF removeValidator, ContractTypeOK, BankTypeOK, bridgeBankVars
    <2> QED BY SMTT(30), <1>3, <2>1 DEF removeValidator, ContractTypeOK, voteVars
<1>4. ASSUME NEW vs \in SUBSET Validators, NEW powers \in [vs -> Powers], updateValset(powers)
      PROVE  ContractTypeOK' /\ UNCHANGED voteVars
    <2>1. BankTypeOK'
        BY Zenon, <1>4 DEF updateValset, ContractTypeOK, BankTypeOK, bridgeBankVars
    <2>2. validatorCount' \in Nat
        BY Zenon, <1>4, FS_Subset, FS_CardinalityType DEF updateValset
    <2>3. totalPower' \in Nat
        <3>1. IsFiniteSet(vs) /\ DOMAIN powers = vs /\ \A v \in vs : powers[v] \in Nat
            BY FS_Subset
        <3>2. SumFunctionOnSet(powers, vs) \in Nat
            BY Zenon, <3>1, SumNat
        <3> QED BY Zenon, <1>4, <3>1, <3>2 DEF updateValset
    <2>4. active' \subseteq Validators /\ ethPower' \in [Validators -> Nat]
        BY <1>4 DEF updateValset
    <2> QED BY Zenon, <1>4, <2>1, <2>2, <2>3, <2>4 DEF updateValset, ContractTypeOK, voteVars
<1>5. ASSUME NEW v \in Validators, recoverGas(v)
      PROVE  ContractTypeOK' /\ UNCHANGED voteVars
    <2>1. BankTypeOK'
        BY Zenon, <1>5 DEF recoverGas, ContractTypeOK, BankTypeOK, bridgeBankVars
    <2> QED BY SMTT(30), <1>5, <2>1 DEF recoverGas, ContractTypeOK, voteVars
<1> QED
    BY Zenon, <1>1, <1>2, <1>3, <1>4, <1>5 DEF ManageValset

\* Recording one more payment (completeProphecyClaim) keeps the type of the record.
LEMMA PaidAppended ==
    ASSUME NEW paid \in [EthProphecies -> Seq(Assets \cup BridgeTokens)], NEW p \in EthProphecies,
           NEW t \in Assets \cup BridgeTokens
    PROVE  [paid EXCEPT ![p] = Append(@, t)] \in [EthProphecies -> Seq(Assets \cup BridgeTokens)]
<1> DEFINE T == Assets \cup BridgeTokens
<1>1. paid[p] \in Seq(T) /\ t \in T
    BY Zenon
<1> HIDE DEF T
<1>2. Append(paid[p], t) \in Seq(T)
    BY SMTT(30), <1>1
<1> QED BY Zenon, <1>2 DEF T

\* A claim keeps the types and the validator set.
LEMMA ClaimTyped ==
    ASSUME ContractTypeOK, NEW v \in Validators, NEW p \in EthProphecies, newProphecyClaim(v, p)
    PROVE  ContractTypeOK' /\ UNCHANGED valsetVars
<1> DEFINE s == safeLowerToUpperTokens(lowerToUpperTokens, p.symbol)
           lists == IF signedPower[p] = 0 /\ p.type = "Lock" /\ controlledBridgeTokens[s] = Zero
                    THEN createNewBridgeToken(s) ELSE Lists
           signed == signedPower[p] + ethPower[v]
<1>1. /\ lowerToUpperTokens' = lists.ltu
      /\ controlledBridgeTokens' = lists.tokens
      /\ cosmosWhiteList' = lists.white
      /\ hasMadeClaim' = [hasMadeClaim EXCEPT ![p] = @ \cup {v}]
      /\ signedPower' = [signedPower EXCEPT ![p] = signed]
      /\ \/ completeProphecyClaim(p, lists)
         \/ UNCHANGED <<held, minted, completed>>
      /\ UNCHANGED <<ethWhiteList, lockedTokenList, bankPaused, blocklist, lockBurnNonce,
                     valsetVars>>
    BY Zenon DEF newProphecyClaim
<1>2. /\ p.symbol \in Symbols /\ p.amount \in Nat /\ s \in Symbols /\ Lower[s] \in Symbols
    BY Zenon, SymbolResolved, SymbolAssumption, ProphecyAssumption DEF ContractTypeOK, BankTypeOK
<1>3. /\ lists.ltu \in [Symbols -> Symbols \cup {Unset}]
      /\ lists.tokens \in [Symbols -> BridgeTokens \cup {Zero}]
      /\ lists.white \subseteq BridgeTokens
    <2>1. CASE lists = Lists
        BY <2>1 DEF Lists, ContractTypeOK, BankTypeOK
    <2>2. CASE lists = createNewBridgeToken(s)
        <3>1. Deployed(s) \in BridgeTokens
            BY Zenon, <1>2 DEF BridgeTokens
        <3>2. /\ lists.ltu = [lowerToUpperTokens EXCEPT ![Lower[s]] = s]
              /\ lists.tokens = [controlledBridgeTokens EXCEPT ![s] = Deployed(s)]
              /\ lists.white = cosmosWhiteList \cup {Deployed(s)}
            <4> HIDE DEF s, lists
            <4> QED BY Zenon, <2>2 DEF createNewBridgeToken
        <3> HIDE DEF s, lists
        <3> QED BY <3>1, <3>2, <1>2 DEF ContractTypeOK, BankTypeOK
    <2> QED BY Zenon, <2>1, <2>2
<1> HIDE DEF s, lists
<1>4. /\ held' \in [Assets -> Nat]
      /\ minted' \in [BridgeTokens -> Nat]
      /\ completed' \in [EthProphecies -> Seq(Assets \cup BridgeTokens)]
    <2>1. CASE UNCHANGED <<held, minted, completed>>
        BY Zenon, <2>1 DEF ContractTypeOK, BankTypeOK
    <2>2. CASE completeProphecyClaim(p, lists) /\ p.type = "Burn"
        <3>1. unlockedAsset(lists, p.symbol) \in Assets
            BY Zenon, <1>2, <1>3, SymbolResolved DEF unlockedAsset, ContractTypeOK, BankTypeOK
        <3>2. PICK t \in Assets :
                 /\ p.amount <= held[t]
                 /\ held' = [held EXCEPT ![t] = @ - p.amount]
                 /\ minted' = minted
                 /\ completed' = [completed EXCEPT ![p] = Append(@, t)]
            BY Zenon, <2>2, <3>1 DEF completeProphecyClaim, unlock
        <3>3. held \in [Assets -> Nat] /\ minted \in [BridgeTokens -> Nat]
            BY Zenon DEF ContractTypeOK, BankTypeOK
        <3>4. held[t] - p.amount \in Nat
            BY <3>2, <3>3, <1>2
        <3>5. held' \in [Assets -> Nat]
            BY Zenon, <3>2, <3>3, <3>4
        <3>6. completed' \in [EthProphecies -> Seq(Assets \cup BridgeTokens)]
            BY Zenon, <3>2, PaidAppended DEF ContractTypeOK
        <3> QED BY Zenon, <3>2, <3>3, <3>5, <3>6
    <2>3. CASE completeProphecyClaim(p, lists) /\ p.type # "Burn"
        <3>1. mintedToken(lists, p.symbol) \in BridgeTokens \cup {Zero}
            BY Zenon, <1>2, <1>3, SymbolResolved DEF mintedToken
        <3>2. PICK t \in BridgeTokens :
                 /\ minted' = [minted EXCEPT ![t] = @ + p.amount]
                 /\ held' = held
                 /\ completed' = [completed EXCEPT ![p] = Append(@, t)]
            BY Zenon, <2>3, <3>1 DEF completeProphecyClaim, mintBridgeTokens
        <3>3. held \in [Assets -> Nat] /\ minted \in [BridgeTokens -> Nat]
            BY Zenon DEF ContractTypeOK, BankTypeOK
        <3>4. minted' \in [BridgeTokens -> Nat]
            BY <3>2, <3>3, <1>2
        <3>5. completed' \in [EthProphecies -> Seq(Assets \cup BridgeTokens)]
            BY Zenon, <3>2, PaidAppended DEF ContractTypeOK
        <3> QED BY Zenon, <3>2, <3>3, <3>4, <3>5
    <2> QED BY Zenon, <1>1, <2>1, <2>2, <2>3
<1>5. BankTypeOK'
    BY Zenon, <1>1, <1>3, <1>4 DEF ContractTypeOK, BankTypeOK
<1>6. /\ hasMadeClaim' \in [EthProphecies -> SUBSET Validators]
      /\ signedPower' \in [EthProphecies -> Nat]
    BY <1>1 DEF ContractTypeOK
<1> QED
    BY Zenon, <1>1, <1>4, <1>5, <1>6 DEF ContractTypeOK, valsetVars

\* Multiplication by the threshold is monotone.
LEMMA ThresholdMonotone ==
    ASSUME NEW a \in Nat, NEW b \in Nat, b <= a
    PROVE  Threshold * b <= Threshold * a
BY ThresholdAssumption

-----------------------------------------------------------------------------
(***************************************************************************)
(* Paid at most once.  PaidOnce is not inductive: nothing but the signed   *)
(* power tells that a prophecy was paid, so the invariant adds that a paid *)
(* prophecy has enough of it.  A smaller total power keeps that, and a     *)
(* larger one does while nothing is paid.                                  *)
(***************************************************************************)
PaidHasPower == \A p \in EthProphecies : completed[p] # <<>> => Reached(signedPower[p])
OnceInv == ContractTypeOK /\ PaidOnce /\ PaidHasPower

\* A step of the contracts keeps OnceInv when the operator raises the total power
\* only before anything is paid.
LEMMA SteadyStep == OnceInv /\ [SteadyNext]_contractVars => OnceInv'
<1> SUFFICES ASSUME OnceInv, [SteadyNext]_contractVars PROVE OnceInv'
    BY Zenon
<1>t. ContractTypeOK /\ totalPower \in Nat /\ signedPower \in [EthProphecies -> Nat]
    BY Zenon DEF OnceInv, ContractTypeOK
<1>1. ASSUME NEW v \in Validators, NEW p \in EthProphecies, newProphecyClaim(v, p)
      PROVE  OnceInv'
    <2>1. ContractTypeOK' /\ totalPower' = totalPower
        BY Zenon, <1>1, <1>t, ClaimTyped DEF valsetVars
    <2>2. completed[p] = <<>>
        BY Zenon, <1>1 DEF newProphecyClaim, OnceInv, PaidHasPower
    <2>3. signedPower' = [signedPower EXCEPT ![p] = signedPower[p] + ethPower[v]]
        BY Zenon, <1>1 DEF newProphecyClaim
    <2>4. \/ completed' = completed
          \/ /\ Reached(signedPower[p] + ethPower[v])
             /\ \E t \in Assets \cup BridgeTokens :
                   completed' = [completed EXCEPT ![p] = Append(@, t)]
        <3> DEFINE s == safeLowerToUpperTokens(lowerToUpperTokens, p.symbol)
                   lists == IF signedPower[p] = 0 /\ p.type = "Lock" /\ controlledBridgeTokens[s] = Zero
                            THEN createNewBridgeToken(s) ELSE Lists
                   t == IF p.type = "Burn" THEN unlockedAsset(lists, p.symbol)
                        ELSE mintedToken(lists, p.symbol)
        <3>1. \/ completed' = completed
              \/ /\ Reached(signedPower[p] + ethPower[v])
                 /\ completed' = [completed EXCEPT ![p] = Append(@, t)]
            BY Zenon, <1>1 DEF newProphecyClaim, completeProphecyClaim
        <3> HIDE DEF t
        <3>2. CASE completed' = [completed EXCEPT ![p] = Append(@, t)]
            <4>1. completed'[p] = <<t>>
                BY <3>2, <2>2, <1>t DEF ContractTypeOK
            <4>2. completed'[p] \in Seq(Assets \cup BridgeTokens)
                BY Zenon, <2>1 DEF ContractTypeOK
            <4>3. t \in Assets \cup BridgeTokens
                BY <4>1, <4>2
            <4> QED BY Zenon, <3>1, <3>2, <4>3
        <3> QED BY Zenon, <3>1, <3>2
    <2>5. PaidOnce'
        <3>1. CASE completed' = completed
            BY Zenon, <3>1 DEF OnceInv, PaidOnce
        <3>2. CASE completed' # completed
            <4>1. PICK t \in Assets \cup BridgeTokens :
                     completed' = [completed EXCEPT ![p] = Append(@, t)]
                BY Zenon, <3>2, <2>4
            <4>2. Len(completed'[p]) = 1
                BY SMTT(30), <4>1, <2>2, <1>t DEF ContractTypeOK
            <4>3. \A q \in EthProphecies \ {p} : completed'[q] = completed[q]
                BY Zenon, <4>1, <1>t DEF ContractTypeOK
            <4>4. ASSUME NEW q \in EthProphecies PROVE Len(completed'[q]) <= 1
                <5>1. CASE q = p
                    BY <5>1, <4>2
                <5>2. CASE q # p
                    BY Zenon, <5>2, <4>3 DEF OnceInv, PaidOnce
                <5> QED BY Zenon, <5>1, <5>2
            <4> QED BY Zenon, <4>4 DEF PaidOnce
        <3> QED BY Zenon, <3>1, <3>2
    <2>6. ASSUME NEW q \in EthProphecies, completed'[q] # <<>>
          PROVE  100 * signedPower'[q] >= Threshold * totalPower'
        <3>1. CASE q = p
            BY Zenon, <3>1, <2>1, <2>2, <2>3, <2>4, <2>6, <1>t DEF Reached
        <3>2. CASE q # p
            <4>1. completed[q] # <<>> /\ signedPower'[q] = signedPower[q]
                BY Zenon, <3>2, <2>3, <2>4, <2>6, <1>t DEF ContractTypeOK
            <4> QED BY Zenon, <4>1, <2>1 DEF OnceInv, PaidHasPower, Reached
        <3> QED BY Zenon, <3>1, <3>2
    <2> QED BY Zenon, <2>1, <2>5, <2>6 DEF OnceInv, PaidHasPower, Reached
<1>2. CASE Bank
    <2>1. BankTypeOK'
        BY Zenon, <1>2, <1>t, BankTyped DEF Bank, ContractTypeOK
    <2>2. ContractTypeOK'
        BY Zenon, <1>2, <2>1, <1>t DEF Bank, ContractTypeOK, valsetVars, voteVars
    <2> QED BY Zenon, <1>2, <2>2 DEF OnceInv, PaidOnce, PaidHasPower, Reached, Bank, valsetVars, voteVars
<1>3. CASE Steady
    <2>1. ContractTypeOK' /\ UNCHANGED voteVars
        BY Zenon, <1>3, <1>t, ValsetTyped DEF Steady
    <2>2. totalPower' \in Nat /\ completed' = completed /\ signedPower' = signedPower
        BY Zenon, <2>1 DEF ContractTypeOK, voteVars
    <2>3. ASSUME NEW q \in EthProphecies, completed'[q] # <<>>
          PROVE  100 * signedPower'[q] >= Threshold * totalPower'
        <3>1. 100 * signedPower[q] >= Threshold * totalPower /\ signedPower'[q] = signedPower[q]
            BY Zenon, <2>2, <2>3 DEF OnceInv, PaidHasPower, Reached
        <3>2. ~(totalPower' > totalPower)
            BY Zenon, <1>3, <2>2, <2>3 DEF Steady
        <3>3. totalPower' <= totalPower
            BY ONLY <3>2, <2>2, <1>t
        <3>4. Threshold * totalPower' <= Threshold * totalPower
            BY Zenon, <3>3, <2>2, <1>t, ThresholdMonotone
        <3>5. Threshold * totalPower \in Int /\ Threshold * totalPower' \in Int
            BY SMTT(30), <2>2, <1>t, ThresholdAssumption
        <3> QED BY SMTT(30), <3>1, <3>4, <3>5, <1>t
    <2> QED BY Zenon, <2>1, <2>2, <2>3 DEF OnceInv, PaidOnce, PaidHasPower, Reached
<1>4. CASE UNCHANGED contractVars
    <2>1. BankTypeOK'
        BY Zenon, <1>4, <1>t DEF ContractTypeOK, BankTypeOK, contractVars, bridgeBankVars
    <2> QED BY Zenon, <1>4, <2>1 DEF OnceInv, ContractTypeOK, PaidOnce, PaidHasPower, Reached,
                              contractVars, valsetVars, voteVars
<1> QED
    BY Zenon, <1>1, <1>2, <1>3, <1>4 DEF SteadyNext, Vote

\* The variables of the contracts keep their types (CosmosBridge.sol,
\* BridgeBank.sol), whatever the operator does to the validator set before
\* anything is paid, and while the total power does not grow after that.
THEOREM SteadyTyped == SteadySpec => []ContractTypeOK
<1>1. ContractInit => OnceInv
    BY InitTyped DEF ContractInit, OnceInv, PaidOnce, PaidHasPower
<1> QED
    BY <1>1, SteadyStep, PTL DEF SteadySpec, OnceInv

\* newProphecyClaim pays a prophecy at most once, for any number of
\* validators and prophecies and any threshold, as long as the total power
\* does not grow after the first payment.
THEOREM SteadyPaidOnce == SteadySpec => []PaidOnce
<1>1. ContractInit => OnceInv
    BY InitTyped DEF ContractInit, OnceInv, PaidOnce, PaidHasPower
<1> QED
    BY <1>1, SteadyStep, PTL DEF SteadySpec, OnceInv

-----------------------------------------------------------------------------
(***************************************************************************)
(* The totals of Valset.  TotalsCover is inductive with the types: an      *)
(* operation adjusts the totals by the differences it makes, or by more    *)
(* than those, or starts anew.                                             *)
(***************************************************************************)

\* The count and the total power of the validator set (Valset.sol) against the
\* number and the power of those in it.
Covers(count, number, total, power) ==
    number <= count /\ power <= total /\ (count = number => total = power)

\* Every change of the validator set keeps the totals at least those of the set,
\* and only adding an active validator and recoverGas move them further away.
LEMMA ValsetTotals ==
    ASSUME ContractTypeOK, TotalsCover, ManageValset
    PROVE  TotalsCover' /\ DriftsOnlyBy
<1> USE ValidatorsAssumption, PowerAssumption DEF Powers
<1> DEFINE power == SumFunctionOnSet(ethPower, active)
<1>t. /\ IsFiniteSet(active) /\ active \subseteq Validators
      /\ ethPower \in [Validators -> Nat]
      /\ \A v \in active : ethPower[v] \in Nat
      /\ \A v \in active : ethPower[v] \in Int
    BY SMTT(30), FS_Subset DEF ContractTypeOK
<1>n. /\ Cardinality(active) \in Int /\ power \in Int
      /\ validatorCount \in Int /\ totalPower \in Int
      /\ Covers(validatorCount, Cardinality(active), totalPower, power)
    <2>1. Cardinality(active) \in Nat /\ power \in Nat /\ validatorCount \in Nat /\ totalPower \in Nat
        BY Zenon, <1>t, FS_CardinalityType, SumNat DEF ContractTypeOK
    <2>2. Covers(validatorCount, Cardinality(active), totalPower, power)
        BY Zenon DEF TotalsCover, Covers
    <2> HIDE DEF power
    <2> QED BY <2>1, <2>2
<1>c. ASSUME Covers(validatorCount', Cardinality(active'), totalPower', SumFunctionOnSet(ethPower', active')),
             \A w \in Validators \ active' : ethPower'[w] = 0,
             \/ validatorCount' - Cardinality(active') = validatorCount - Cardinality(active)
             \/ \E v \in active : recoverGas(v) \/ \E n \in Powers : addValidator(v, n)
      PROVE  TotalsCover' /\ DriftsOnlyBy
    <2>1. TotalsCover'
        BY Zenon, <1>c DEF TotalsCover, Covers
    <2>2. CASE validatorCount' - Cardinality(active') = validatorCount - Cardinality(active)
        <3>1. ~(LeftBehind' > LeftBehind)
            BY SMTT(30), <2>2, <1>n DEF LeftBehind
        <3> QED BY Zenon, <2>1, <3>1 DEF DriftsOnlyBy
    <2>3. CASE \E v \in active : recoverGas(v) \/ \E n \in Powers : addValidator(v, n)
        BY Zenon, <2>1, <2>3 DEF DriftsOnlyBy
    <2> QED BY Zenon, <1>c, <2>2, <2>3
<1>1. ASSUME NEW v \in Validators \ active, NEW n \in Powers, addValidator(v, n)
      PROVE  TotalsCover' /\ DriftsOnlyBy
    <2>1. /\ active' = active \cup {v} /\ ethPower' = [ethPower EXCEPT ![v] = n]
          /\ validatorCount' = validatorCount + 1 /\ totalPower' = totalPower + n
        BY Zenon, <1>1 DEF addValidator
    <2>2. Cardinality(active') = Cardinality(active) + 1
        BY Zenon, <2>1, <1>t, FS_AddElement
    <2>3. \A w \in active : ethPower'[w] = ethPower[w] /\ ethPower'[w] \in Int
        BY Zenon, <2>1, <1>t
    <2>4. ethPower'[v] = n /\ n \in Int
        BY <2>1, <1>t
    <2>5. SumFunctionOnSet(ethPower', active') = SumFunctionOnSet(ethPower', active) + n
        BY Zenon, <2>1, <2>3, <2>4, <1>t, SumAdd
    <2>6. SumFunctionOnSet(ethPower', active) = power
        BY <2>3, <1>t, SumSame
    <2>7. \A w \in Validators \ active' : ethPower'[w] = 0
        BY Zenon, <2>1, <1>t DEF TotalsCover
    <2> HIDE DEF power
    <2>8. /\ Covers(validatorCount + 1, Cardinality(active) + 1, totalPower + n, power + n)
          /\ (validatorCount + 1) - (Cardinality(active) + 1) = validatorCount - Cardinality(active)
        BY ONLY SMTT(30), <1>n, <2>4 DEF Covers
    <2> QED BY Zenon, <2>1, <2>2, <2>5, <2>6, <2>7, <2>8, <1>c
<1>2. ASSUME NEW v \in active, NEW n \in Powers, addValidator(v, n)
      PROVE  TotalsCover' /\ DriftsOnlyBy
    <2>1. /\ active' = active /\ ethPower' = [ethPower EXCEPT ![v] = n] /\ v \in Validators
          /\ validatorCount' = validatorCount + 1 /\ totalPower' = totalPower + n
        BY Zenon, <1>2, <1>t DEF addValidator
    <2>2. \A w \in active : ethPower[w] \in Int /\ ethPower'[w] \in Int
        BY <2>1, <1>t
    <2>3. \A w \in active \ {v} : ethPower'[w] = ethPower[w]
        BY Zenon, <2>1, <1>t
    <2>4. SumFunctionOnSet(ethPower', active) = power - ethPower[v] + ethPower'[v]
        <3>1. IsFiniteSet(active) /\ v \in active
            BY Zenon, <1>t
        <3> QED BY ONLY SMTT(30), <3>1, <2>2, <2>3, SumChange
    <2>5. ethPower'[v] = n /\ n \in Int /\ ethPower[v] \in Nat
        BY <2>1, <1>t
    <2>6. \A w \in Validators \ active' : ethPower'[w] = 0
        BY Zenon, <2>1, <1>t DEF TotalsCover
    <2> HIDE DEF power
    <2>7. Covers(validatorCount + 1, Cardinality(active), totalPower + n, power - ethPower[v] + n)
        BY ONLY SMTT(30), <1>n, <2>5 DEF Covers
    <2> QED BY Zenon, <1>2, <2>1, <2>4, <2>5, <2>6, <2>7, <1>c
<1>3. ASSUME NEW v \in Validators, NEW n \in Powers, updateValidatorPower(v, n)
      PROVE  TotalsCover' /\ DriftsOnlyBy
    <2>1. /\ v \in active /\ active' = active /\ ethPower' = [ethPower EXCEPT ![v] = n]
          /\ validatorCount' = validatorCount /\ totalPower' = totalPower - ethPower[v] + n
        BY Zenon, <1>3 DEF updateValidatorPower
    <2>2. \A w \in active : ethPower[w] \in Int /\ ethPower'[w] \in Int
        BY <2>1, <1>t
    <2>3. \A w \in active \ {v} : ethPower'[w] = ethPower[w]
        BY Zenon, <2>1, <1>t
    <2>4. SumFunctionOnSet(ethPower', active) = power - ethPower[v] + ethPower'[v]
        <3>1. IsFiniteSet(active) /\ v \in active
            BY Zenon, <2>1, <1>t
        <3> QED BY ONLY SMTT(30), <3>1, <2>2, <2>3, SumChange
    <2>5. ethPower'[v] = n /\ n \in Int /\ ethPower[v] \in Nat
        BY <2>1, <1>t
    <2>6. \A w \in Validators \ active' : ethPower'[w] = 0
        BY Zenon, <2>1, <1>t DEF TotalsCover
    <2> HIDE DEF power
    <2>7. Covers(validatorCount, Cardinality(active), totalPower - ethPower[v] + n, power - ethPower[v] + n)
        BY ONLY SMTT(30), <1>n, <2>5 DEF Covers
    <2> QED BY Zenon, <2>1, <2>4, <2>5, <2>6, <2>7, <1>c
<1>4. ASSUME NEW v \in active, active' = active \ {v}, ethPower' = [ethPower EXCEPT ![v] = 0]
      PROVE  /\ Cardinality(active') = Cardinality(active) - 1
             /\ SumFunctionOnSet(ethPower', active') = power - ethPower[v]
             /\ \A w \in Validators \ active' : ethPower'[w] = 0
             /\ ethPower[v] \in Nat
    <2>1. Cardinality(active') = Cardinality(active) - 1
        BY Zenon, <1>4, <1>t, FS_RemoveElement
    <2>2. \A w \in active' : ethPower'[w] = ethPower[w]
        BY Zenon, <1>4, <1>t
    <2>3. IsFiniteSet(active')
        BY Zenon, <1>4, <1>t, FS_Subset
    <2>4. SumFunctionOnSet(ethPower', active') = SumFunctionOnSet(ethPower, active')
        BY Zenon, <2>2, <2>3, SumSame
    <2>5. power = ethPower[v] + SumFunctionOnSet(ethPower, active')
        BY <1>4, <1>t, SumRemove
    <2>6. SumFunctionOnSet(ethPower, active') \in Int
        BY Zenon, <1>4, <2>3, <1>t, SumInt
    <2>7. \A w \in Validators \ active' : ethPower'[w] = 0
        BY Zenon, <1>4, <1>t DEF TotalsCover
    <2>8. ethPower[v] \in Nat
        BY Zenon, <1>t
    <2> HIDE DEF power
    <2>9. SumFunctionOnSet(ethPower', active') = power - ethPower[v]
        BY ONLY SMTT(30), <2>4, <2>5, <2>6, <2>8
    <2> QED BY Zenon, <2>1, <2>7, <2>8, <2>9
<1>5. ASSUME NEW v \in Validators, removeValidator(v)
      PROVE  TotalsCover' /\ DriftsOnlyBy
    <2>1. /\ v \in active /\ active' = active \ {v} /\ ethPower' = [ethPower EXCEPT ![v] = 0]
          /\ validatorCount' = validatorCount - 1 /\ totalPower' = totalPower - ethPower[v]
        BY Zenon, <1>5 DEF removeValidator
    <2>2. /\ Cardinality(active') = Cardinality(active) - 1
          /\ SumFunctionOnSet(ethPower', active') = power - ethPower[v]
          /\ \A w \in Validators \ active' : ethPower'[w] = 0
          /\ ethPower[v] \in Nat
        BY Zenon, <2>1, <1>4
    <2> HIDE DEF power
    <2>3. /\ Covers(validatorCount - 1, Cardinality(active) - 1, totalPower - ethPower[v], power - ethPower[v])
          /\ (validatorCount - 1) - (Cardinality(active) - 1) = validatorCount - Cardinality(active)
        BY ONLY SMTT(30), <1>n, <2>2 DEF Covers
    <2> QED BY Zenon, <2>1, <2>2, <2>3, <1>c
<1>6. ASSUME NEW v \in Validators, recoverGas(v)
      PROVE  TotalsCover' /\ DriftsOnlyBy
    <2>1. /\ active' = active \ {v} /\ ethPower' = [ethPower EXCEPT ![v] = 0]
          /\ validatorCount' = validatorCount /\ totalPower' = totalPower
        BY Zenon, <1>6 DEF recoverGas
    <2>2. CASE v \in active
        <3>1. /\ Cardinality(active') = Cardinality(active) - 1
              /\ SumFunctionOnSet(ethPower', active') = power - ethPower[v]
              /\ \A w \in Validators \ active' : ethPower'[w] = 0
              /\ ethPower[v] \in Nat
            BY Zenon, <2>1, <2>2, <1>4
        <3> HIDE DEF power
        <3>2. Covers(validatorCount, Cardinality(active) - 1, totalPower, power - ethPower[v])
            BY ONLY SMTT(30), <1>n, <3>1 DEF Covers
        <3> QED BY Zenon, <1>6, <2>1, <2>2, <3>1, <3>2, <1>c
    <2>3. CASE v \notin active
        <3>1. active' = active /\ ethPower[v] = 0
            BY Zenon, <2>1, <2>3 DEF TotalsCover
        <3>2. ethPower' = ethPower
            BY Zenon, <2>1, <3>1, <1>t
        <3>3. /\ SumFunctionOnSet(ethPower', active') = SumFunctionOnSet(ethPower, active)
              /\ Cardinality(active') = Cardinality(active)
              /\ \A w \in Validators \ active' : ethPower'[w] = 0
            BY ONLY Zenon, TotalsCover, <3>1, <3>2 DEF TotalsCover
        <3>4. Covers(validatorCount', Cardinality(active'), totalPower', SumFunctionOnSet(ethPower', active'))
            BY ONLY Zenon, TotalsCover, <2>1, <3>3 DEF TotalsCover, Covers
        <3>5. validatorCount' - Cardinality(active') = validatorCount - Cardinality(active)
            BY ONLY Zenon, <2>1, <3>3
        <3> QED BY Zenon, <3>3, <3>4, <3>5, <1>c
    <2> QED BY Zenon, <2>2, <2>3
<1>7. ASSUME NEW vs \in SUBSET Validators, NEW powers \in [vs -> Powers], updateValset(powers)
      PROVE  TotalsCover' /\ DriftsOnlyBy
    <2>1. /\ active' = vs /\ DOMAIN powers = vs
          /\ ethPower' = [v \in Validators |-> IF v \in vs THEN powers[v] ELSE 0]
        BY Zenon, <1>7 DEF updateValset
    <2>2. IsFiniteSet(vs) /\ \A v \in vs : ethPower'[v] = powers[v] /\ powers[v] \in Nat
        BY <2>1, FS_Subset
    <2>3. SumFunctionOnSet(ethPower', vs) = SumFunctionOnSet(powers, vs)
        BY <2>2, SumSame
    <2>4. Cardinality(vs) \in Nat /\ SumFunctionOnSet(powers, vs) \in Nat
        BY Zenon, <2>2, FS_CardinalityType, SumNat
    <2>5. /\ validatorCount' = Cardinality(active')
          /\ totalPower' = SumFunctionOnSet(ethPower', active')
          /\ \A w \in Validators \ active' : ethPower'[w] = 0
        BY Zenon, <1>7, <2>1, <2>3 DEF updateValset
    <2> HIDE DEF power
    <2>6. TotalsCover'
        <3>1. Cardinality(active') <= validatorCount' /\ SumFunctionOnSet(ethPower', active') <= totalPower'
            BY SMTT(30), <2>1, <2>3, <2>4, <2>5
        <3> QED BY Zenon, <2>5, <3>1 DEF TotalsCover
    <2>7. ~(LeftBehind' > LeftBehind)
        BY SMTT(30), <2>1, <2>4, <2>5, <1>n DEF LeftBehind, Covers
    <2> QED BY Zenon, <2>6, <2>7 DEF DriftsOnlyBy
<1> QED
    BY Zenon, <1>1, <1>2, <1>3, <1>5, <1>6, <1>7 DEF ManageValset

\* validatorCount and totalPower never fall short of the validators in the set,
\* are exact together, and only addValidator of a validator in the set and
\* recoverGas (Valset.sol) move them away, for any number of validators and any
\* sequence of calls that lets the total power grow only before the first payment.
THEOREM SteadyTotals == SteadySpec => TotalsMatch
<1>1. ContractInit => TotalsCover
    <2>1. ASSUME ContractInit PROVE Cardinality(active) \in Nat /\ SumFunctionOnSet(ethPower, active) \in Nat
        BY Zenon, <2>1, FS_CardinalityType, SumNat, ValidatorsAssumption, InitTyped
        DEF ContractInit, ContractTypeOK
    <2> QED BY SMTT(30), <2>1 DEF ContractInit, TotalsCover
<1>2. ContractTypeOK /\ TotalsCover /\ [SteadyNext]_contractVars => TotalsCover' /\ [DriftsOnlyBy]_contractVars
    <2> SUFFICES ASSUME ContractTypeOK, TotalsCover, [SteadyNext]_contractVars
                 PROVE  TotalsCover' /\ [DriftsOnlyBy]_contractVars
        BY Zenon
    <2>1. ASSUME UNCHANGED valsetVars
          PROVE  TotalsCover' /\ DriftsOnlyBy
        <3>1. TotalsCover' /\ LeftBehind' = LeftBehind
            BY Zenon, <2>1 DEF TotalsCover, LeftBehind, valsetVars
        <3>2. LeftBehind \in Int
            BY SMTT(30), FS_Subset, FS_CardinalityType, ValidatorsAssumption DEF ContractTypeOK, LeftBehind
        <3>3. ~(LeftBehind' > LeftBehind)
            BY ONLY <3>1, <3>2
        <3> QED BY Zenon, <3>1, <3>3 DEF DriftsOnlyBy
    <2>2. CASE Vote
        BY Zenon, <2>1, <2>2, ClaimTyped DEF Vote
    <2>3. CASE Bank
        BY Zenon, <2>1, <2>3 DEF Bank
    <2>4. CASE Steady
        BY Zenon, <2>4, ValsetTotals DEF Steady
    <2>5. CASE UNCHANGED contractVars
        BY Zenon, <2>1, <2>5 DEF contractVars
    <2> QED BY Zenon, <2>2, <2>3, <2>4, <2>5 DEF SteadyNext
<1>3. TotalsCover' /\ [DriftsOnlyBy]_contractVars => [TotalsCover' /\ DriftsOnlyBy]_contractVars
    OBVIOUS
<1> QED
    BY <1>1, <1>2, <1>3, SteadyTyped, PTL DEF SteadySpec, TotalsMatch

-----------------------------------------------------------------------------
(***************************************************************************)
(* Symbols.  A claim names its asset by a symbol, which goes through       *)
(* lowerToUpperTokens and lockedTokenList; both maps are overwritten by    *)
(* later calls.  The symbols of the admitted contracts are never lost, and *)
(* the entry that one of them has under its lower case is one of them.  So *)
(* while only one of them has a lower case, its entry is its own, and a    *)
(* burn prophecy opened under it still leads to what it led to.            *)
(***************************************************************************)
AdmittedSymbols == {ContractSymbol(u) : u \in Admitted}

One(S, l) == \A x, y \in S : Lower[x] = l /\ Lower[y] = l => x = y

Leads(s) == lockedTokenList[s] # Zero \/ s = "eth"

Resolved(s) == safeLowerToUpperTokens(lowerToUpperTokens, s)

Lowered == \A s \in Symbols : lowerToUpperTokens[s] # Unset => Lower[lowerToUpperTokens[s]] = s

Entered == \A x \in AdmittedSymbols : lowerToUpperTokens[Lower[x]] \in AdmittedSymbols

Located ==
    /\ Zero \in ethWhiteList
    /\ \A s \in Symbols : lockedTokenList[s] # Zero => AssetSymbol(lockedTokenList[s]) = s
    /\ \A t \in Tokens : held[t] > 0 => Leads(AssetSymbol(t))

Opened ==
    \A p \in EthProphecies :
        p.type = "Burn" /\ signedPower[p] > 0 /\ One(AdmittedSymbols, Lower[p.symbol])
            => Leads(Resolved(p.symbol))

SymbolInv == Lowered /\ Entered /\ Located /\ Opened

\* The symbol of an asset (BridgeBank's lock, whitelistToken) is a symbol.
LEMMA AssetSymbols ==
    ASSUME NEW t \in Assets \cup Existing
    PROVE  /\ AssetSymbol(t) \in Symbols /\ Lower[AssetSymbol(t)] \in Symbols
           /\ ContractSymbol(t) = AssetSymbol(t)
BY Zenon, SymbolAssumption, LoweredSymbol DEF AssetSymbol, Assets, ContractSymbol

\* So is that of a contract that createNewBridgeToken deploys.
LEMMA DeployedSymbol ==
    ASSUME NEW s \in Symbols
    PROVE  ContractSymbol(Deployed(s)) = s
<1>1. Deployed(s) \notin Assets \cup Existing
    BY Zenon, DeployedAssumption DEF Assets
<1>2. Deployed(s)[2] = s
    BY DEF Deployed
<1> QED BY Zenon, <1>1, <1>2 DEF ContractSymbol

\* Admitted contracts (ethWhiteList, cosmosWhiteList, lockedTokenList) have symbols.
LEMMA AdmittedTyped ==
    ASSUME BankTypeOK
    PROVE  \A x \in AdmittedSymbols : x \in Symbols /\ Lower[x] \in Symbols
<1>1. ASSUME NEW u \in Admitted PROVE ContractSymbol(u) \in Symbols
    <2>1. u \in Assets \cup Existing \/ \E s \in Symbols : u = Deployed(s)
        BY Zenon, <1>1 DEF Admitted, BankTypeOK, BridgeTokens
    <2> QED BY Zenon, <2>1, AssetSymbols, DeployedSymbol
<1> QED BY Zenon, <1>1, SymbolAssumption DEF AdmittedSymbols

\* OneSymbol, which the properties of BridgeBank use, in terms of symbols.
LEMMA OneSymbols ==
    ASSUME NEW l
    PROVE  /\ OneSymbol(l) <=> One(AdmittedSymbols, l)
           /\ OneSymbol(l)' <=> One(AdmittedSymbols', l)
BY Zenon DEF OneSymbol, One, AdmittedSymbols

\* Fewer symbols share a lower case when there are fewer symbols admitted.
LEMMA OneSubset ==
    ASSUME NEW S, NEW T, S \subseteq T, NEW l, One(T, l)
    PROVE  One(S, l)
BY Zenon DEF One

\* A symbol that newProphecyClaim accepts for a burn was looked up under its own
\* lower case, is the symbol of the asset it leads to, and is admitted.
LEMMA LeadsToOwn ==
    ASSUME BankTypeOK, SymbolInv, NEW x \in Symbols
    PROVE  /\ Resolved(x) \in Symbols /\ Lower[Resolved(x)] = Lower[x]
           /\ Leads(Resolved(x)) =>
                /\ AssetSymbol(lockedTokenList[Resolved(x)]) = Resolved(x)
                /\ Resolved(x) \in AdmittedSymbols
<1>1. Resolved(x) \in Symbols
    BY Zenon, SymbolResolved DEF BankTypeOK, Resolved
<1>2. lockedTokenList[Resolved(x)] \in Assets /\ lockedTokenList[Resolved(x)] \in Admitted
    BY Zenon, <1>1 DEF BankTypeOK, Admitted
<1>3. Leads(Resolved(x)) => AssetSymbol(lockedTokenList[Resolved(x)]) = Resolved(x)
    BY Zenon, <1>1 DEF SymbolInv, Located, Leads, AssetSymbol
<1>4. Lower[Resolved(x)] = Lower[x]
    BY SMTT(30), SymbolAssumption DEF BankTypeOK, SymbolInv, Lowered, Resolved, safeLowerToUpperTokens
<1>5. AssetSymbol(lockedTokenList[Resolved(x)]) \in AdmittedSymbols
    BY Zenon, <1>2, AssetSymbols DEF AdmittedSymbols
<1> QED BY Zenon, <1>1, <1>3, <1>4, <1>5

\* A step that admits no other symbol, registers none and keeps what leads to an
\* asset keeps the invariant.
LEMMA SymbolsKept ==
    ASSUME BankTypeOK, SymbolInv, Located',
           lowerToUpperTokens' = lowerToUpperTokens, AdmittedSymbols' = AdmittedSymbols,
           \A s \in Symbols : Leads(s) => Leads(s)',
           \A p \in EthProphecies :
               p.type = "Burn" /\ signedPower'[p] > 0 /\ One(AdmittedSymbols, Lower[p.symbol])
                   => Leads(Resolved(p.symbol))
    PROVE  SymbolInv'
<1>1. Lowered' /\ Entered'
    BY Zenon DEF SymbolInv, Lowered, Entered
<1>2. \A x : Resolved(x)' = Resolved(x)
    BY Zenon DEF Resolved
<1>3. ASSUME NEW p \in EthProphecies, p.type = "Burn", signedPower'[p] > 0,
             One(AdmittedSymbols', Lower[p.symbol])
      PROVE  Leads(Resolved(p.symbol))'
    <2>1. Leads(Resolved(p.symbol)) /\ Resolved(p.symbol) \in Symbols
        BY Zenon, <1>3, LeadsToOwn, ProphecyAssumption
    <2>2. lockedTokenList'[Resolved(p.symbol)] # Zero \/ Resolved(p.symbol) = "eth"
        BY Zenon, <2>1 DEF Leads
    <2> QED BY Zenon, <1>2, <2>2 DEF Leads
<1> QED BY Zenon, <1>1, <1>3 DEF SymbolInv, Opened

\* A step that admits the symbol y and registers it under its lower case
\* (whitelistToken, addExistingBridgeToken, createNewBridgeToken) keeps it too: an
\* entry that changes belongs to a lower case that two symbols now share.
LEMMA SymbolsRegistered ==
    ASSUME BankTypeOK, SymbolInv, Located', NEW y \in Symbols,
           lowerToUpperTokens' = [lowerToUpperTokens EXCEPT ![Lower[y]] = y],
           AdmittedSymbols' = AdmittedSymbols \cup {y}, lockedTokenList' = lockedTokenList,
           \A p \in EthProphecies :
               p.type = "Burn" /\ signedPower'[p] > 0 /\ One(AdmittedSymbols, Lower[p.symbol])
                   => Leads(Resolved(p.symbol))
    PROVE  SymbolInv'
<1>1. /\ Lower[y] \in Symbols /\ lowerToUpperTokens \in [Symbols -> Symbols \cup {Unset}]
      /\ lowerToUpperTokens'[Lower[y]] = y /\ y # Unset
      /\ \A s \in Symbols : s # Lower[y] => lowerToUpperTokens'[s] = lowerToUpperTokens[s]
    BY Zenon, SymbolAssumption DEF BankTypeOK
<1>2. Lowered'
    BY Zenon, <1>1 DEF SymbolInv, Lowered
<1>3. Entered'
    <2> SUFFICES ASSUME NEW x \in AdmittedSymbols \cup {y}
                 PROVE  lowerToUpperTokens'[Lower[x]] \in AdmittedSymbols \cup {y}
        BY Zenon DEF Entered
    <2>1. CASE Lower[x] = Lower[y]
        BY Zenon, <1>1, <2>1
    <2>2. CASE Lower[x] # Lower[y]
        BY Zenon, <1>1, <2>2, AdmittedTyped DEF SymbolInv, Entered
    <2> QED BY Zenon, <2>1, <2>2
<1>4. ASSUME NEW p \in EthProphecies, p.type = "Burn", signedPower'[p] > 0,
             One(AdmittedSymbols', Lower[p.symbol])
      PROVE  Leads(Resolved(p.symbol))'
    <2> DEFINE x == p.symbol
    <2>1. x \in Symbols /\ One(AdmittedSymbols, Lower[x])
        BY Zenon, <1>4, OneSubset, ProphecyAssumption
    <2>2. Leads(Resolved(x))
        BY Zenon, <1>4, <2>1
    <2>3. /\ Resolved(x) \in Symbols /\ Lower[Resolved(x)] = Lower[x]
          /\ Resolved(x) \in AdmittedSymbols
        BY Zenon, <2>1, <2>2, LeadsToOwn
    <2>4. Resolved(x)' = Resolved(x)
        <3>1. CASE x # Lower[y]
            BY Zenon, <1>1, <2>1, <3>1 DEF Resolved, safeLowerToUpperTokens
        <3>2. CASE x = Lower[y]
            <4>1. Lower[x] = Lower[y]
                BY Zenon, <3>2, SymbolAssumption
            <4>2. y = Resolved(x)
                BY Zenon, <4>1, <2>3, <1>4 DEF One
            <4>3. Resolved(x)' = y
                BY Zenon, <1>1, <3>2 DEF Resolved, safeLowerToUpperTokens
            <4> QED BY Zenon, <4>2, <4>3
        <3> QED BY Zenon, <3>1, <3>2
    <2>5. lockedTokenList'[Resolved(x)] # Zero \/ Resolved(x) = "eth"
        BY Zenon, <2>2 DEF Leads
    <2> QED BY Zenon, <2>4, <2>5 DEF Leads
<1> QED BY Zenon, <1>2, <1>3, <1>4 DEF SymbolInv, Opened

\* The contracts are admitted through these three (ethWhiteList, cosmosWhiteList,
\* lockedTokenList).
LEMMA AdmittedBy ==
    ASSUME NEW x
    PROVE  /\ x \in AdmittedSymbols <=>
                \/ \E u \in ethWhiteList \cup cosmosWhiteList : x = ContractSymbol(u)
                \/ \E s \in Symbols : x = ContractSymbol(lockedTokenList[s])
           /\ x \in AdmittedSymbols' <=>
                \/ \E u \in ethWhiteList' \cup cosmosWhiteList' : x = ContractSymbol(u)
                \/ \E s \in Symbols : x = ContractSymbol(lockedTokenList'[s])
BY Zenon DEF AdmittedSymbols, Admitted

KeepsSymbols == SymbolInv' /\ \A x \in AdmittedSymbols : x \in AdmittedSymbols'

\* What lock takes in is found under its symbol, and so is what was there before.
LEMMA LockSymbols ==
    ASSUME BankTypeOK, SymbolInv, UNCHANGED signedPower, NEW u \in Users, NEW r \in Recipients,
           NEW t \in Assets, NEW n \in 0 .. MaxHeld, lock(u, r, t, n)
    PROVE  KeepsSymbols
<1>1. /\ t \in ethWhiteList /\ UNCHANGED <<ethWhiteList, cosmosWhiteList, lowerToUpperTokens>>
      /\ held' = [held EXCEPT ![t] = @ + n]
      /\ lockedTokenList' = [lockedTokenList EXCEPT ![AssetSymbol(t)] = t]
    BY Zenon DEF lock
<1>2. AssetSymbol(t) \in Symbols /\ lockedTokenList'[AssetSymbol(t)] = t
    BY Zenon, <1>1, AssetSymbols DEF BankTypeOK
<1>3. \A s \in Symbols \ {AssetSymbol(t)} : lockedTokenList'[s] = lockedTokenList[s]
    BY Zenon, <1>1 DEF BankTypeOK
<1>4. \A x \in Assets \ {t} : held'[x] = held[x]
    BY Zenon, <1>1 DEF BankTypeOK
<1>z. t = Zero => AssetSymbol(t) = "eth"
    BY Zenon DEF AssetSymbol
<1>5. \A s \in Symbols : Leads(s) => Leads(s)'
    <2> SUFFICES ASSUME NEW s \in Symbols, Leads(s)
                 PROVE  lockedTokenList'[s] # Zero \/ s = "eth"
        BY Zenon DEF Leads
    <2>1. CASE s = AssetSymbol(t)
        BY Zenon, <2>1, <1>2, <1>z
    <2>2. CASE s # AssetSymbol(t)
        BY Zenon, <2>2, <1>3 DEF Leads
    <2> QED BY Zenon, <2>1, <2>2
<1>6. Located'
    <2>1. ASSUME NEW s \in Symbols, lockedTokenList'[s] # Zero
          PROVE  AssetSymbol(lockedTokenList'[s]) = s
        BY Zenon, <1>2, <1>3, <2>1 DEF SymbolInv, Located
    <2>2. ASSUME NEW x \in Tokens, held'[x] > 0
          PROVE  lockedTokenList'[AssetSymbol(x)] # Zero \/ AssetSymbol(x) = "eth"
        <3>1. x \in Assets /\ AssetSymbol(x) \in Symbols /\ x # Zero
            BY Zenon, AssetSymbols, AddressAssumption DEF Assets
        <3>2. CASE x = t
            BY Zenon, <3>1, <3>2, <1>2
        <3>3. CASE x # t
            BY Zenon, <3>1, <3>3, <1>4, <1>5, <2>2 DEF SymbolInv, Located, Leads
        <3> QED BY Zenon, <3>2, <3>3
    <2> QED BY Zenon, <1>1, <2>1, <2>2 DEF SymbolInv, Located, Leads
<1>7. AdmittedSymbols' = AdmittedSymbols
    <2>1. Zero \in ethWhiteList /\ Zero \in Assets
        BY Zenon DEF SymbolInv, Located, Assets
    <2>2. ASSUME NEW s \in Symbols
          PROVE  \/ ContractSymbol(lockedTokenList'[s]) = ContractSymbol(lockedTokenList[s])
                 \/ /\ ContractSymbol(lockedTokenList'[s]) = ContractSymbol(t)
                    /\ ContractSymbol(lockedTokenList[s]) \in {ContractSymbol(t), ContractSymbol(Zero)}
        <3>1. CASE s # AssetSymbol(t)
            BY Zenon, <3>1, <1>3
        <3>2. CASE s = AssetSymbol(t) /\ lockedTokenList[s] = Zero
            BY Zenon, <3>2, <1>2
        <3>3. CASE s = AssetSymbol(t) /\ lockedTokenList[s] # Zero
            <4>1. lockedTokenList[s] \in Assets /\ AssetSymbol(lockedTokenList[s]) = s
                BY Zenon, <3>3 DEF SymbolInv, Located, BankTypeOK
            <4>2. ContractSymbol(lockedTokenList[s]) = s /\ ContractSymbol(t) = s
                BY Zenon, <4>1, <3>3, AssetSymbols
            <4> QED BY Zenon, <4>2, <3>3, <1>2
        <3> QED BY Zenon, <3>1, <3>2, <3>3
    <2>3. ASSUME NEW x PROVE x \in AdmittedSymbols' <=> x \in AdmittedSymbols
        <3>1. CASE \E w \in ethWhiteList \cup cosmosWhiteList : x = ContractSymbol(w)
            BY Zenon, <3>1, <1>1, AdmittedBy
        <3>2. CASE ~\E w \in ethWhiteList \cup cosmosWhiteList : x = ContractSymbol(w)
            <4>1. x # ContractSymbol(t) /\ x # ContractSymbol(Zero)
                BY Zenon, <3>2, <2>1, <1>1
            <4>2. \A s \in Symbols :
                      x = ContractSymbol(lockedTokenList'[s]) <=> x = ContractSymbol(lockedTokenList[s])
                BY Zenon, <4>1, <2>2
            <4> QED BY Zenon, <3>2, <4>2, <1>1, AdmittedBy
        <3> QED BY Zenon, <3>1, <3>2
    <2> QED BY Zenon, <2>3
<1> QED
    BY Zenon, <1>1, <1>5, <1>6, <1>7, SymbolsKept DEF SymbolInv, Opened, KeepsSymbols

\* The calls of users and operators on BridgeBank keep the invariant.
LEMMA BankSymbols ==
    ASSUME BankTypeOK, SymbolInv, BankNext, UNCHANGED signedPower
    PROVE  KeepsSymbols
<1>p. \A p \in EthProphecies :
          p.type = "Burn" /\ signedPower'[p] > 0 /\ One(AdmittedSymbols, Lower[p.symbol])
              => Leads(Resolved(p.symbol))
    BY Zenon DEF SymbolInv, Opened
<1>2. ASSUME UNCHANGED listVars, held' = held
      PROVE  KeepsSymbols
    <2>1. AdmittedSymbols' = AdmittedSymbols
        BY Zenon, <1>2 DEF listVars, AdmittedSymbols, Admitted
    <2>2. Located' /\ \A s \in Symbols : Leads(s) => Leads(s)'
        BY Zenon, <1>2 DEF listVars, SymbolInv, Located, Leads
    <2> QED BY Zenon, <1>2, <1>p, <2>1, <2>2, SymbolsKept DEF listVars, KeepsSymbols
<1>3. ASSUME NEW t \in Tokens, NEW b \in BOOLEAN, whitelistToken(t, b),
             b \/ lockedTokenList[SymbolOf[t]] # Zero
      PROVE  KeepsSymbols
    <2> DEFINE y == SymbolOf[t]
    <2>1. /\ lowerToUpperTokens' = [lowerToUpperTokens EXCEPT ![Lower[y]] = y]
          /\ lockedTokenList' = lockedTokenList /\ held' = held /\ cosmosWhiteList' = cosmosWhiteList
          /\ ethWhiteList' = IF b THEN ethWhiteList \cup {t} ELSE ethWhiteList \ {t}
        BY Zenon, <1>3 DEF whitelistToken, fundVars
    <2>2. /\ y \in Symbols /\ AssetSymbol(t) = y /\ ContractSymbol(t) = y /\ t # Zero
        BY Zenon, LoweredSymbol, AddressAssumption, AssetSymbols DEF AssetSymbol, Assets
    <2>3. Located'
        BY Zenon, <2>1, <2>2 DEF SymbolInv, Located, Leads
    <2>4. ~b => y = ContractSymbol(lockedTokenList[y])
        BY Zenon, <1>3, <2>2, AssetSymbols DEF SymbolInv, Located, BankTypeOK
    <2> HIDE DEF y
    <2>5. ASSUME NEW x PROVE x \in AdmittedSymbols' <=> x \in AdmittedSymbols \cup {y}
        <3>1. CASE b
            BY Zenon, <3>1, <2>1, <2>2, AdmittedBy
        <3>2. CASE ~b
            BY Zenon, <3>2, <2>1, <2>2, <2>4, AdmittedBy
        <3> QED BY Zenon, <3>1, <3>2
    <2>6. AdmittedSymbols' = AdmittedSymbols \cup {y}
        BY Zenon, <2>5
    <2> QED BY Zenon, <2>1, <2>2, <2>3, <2>6, <1>p, SymbolsRegistered DEF KeepsSymbols
<1>4. ASSUME NEW t \in Existing, addExistingBridgeToken(t)
      PROVE  KeepsSymbols
    <2> DEFINE y == SymbolOf[t]
    <2>1. /\ lowerToUpperTokens' = [lowerToUpperTokens EXCEPT ![Lower[y]] = y]
          /\ lockedTokenList' = lockedTokenList /\ held' = held /\ ethWhiteList' = ethWhiteList
          /\ cosmosWhiteList' = cosmosWhiteList \cup {t}
        BY Zenon, <1>4 DEF addExistingBridgeToken, fundVars
    <2>2. y \in Symbols /\ ContractSymbol(t) = y
        BY Zenon, LoweredSymbol, AddressAssumption, AssetSymbols DEF AssetSymbol, Assets
    <2>3. Located'
        BY Zenon, <2>1 DEF SymbolInv, Located, Leads
    <2> HIDE DEF y
    <2>4. ASSUME NEW x PROVE x \in AdmittedSymbols' <=> x \in AdmittedSymbols \cup {y}
        BY Zenon, <2>1, <2>2, AdmittedBy
    <2>5. AdmittedSymbols' = AdmittedSymbols \cup {y}
        BY Zenon, <2>4
    <2> QED BY Zenon, <2>1, <2>2, <2>3, <2>5, <1>p, SymbolsRegistered DEF KeepsSymbols
<1>5. ASSUME NEW t \in Tokens, NEW b \in BOOLEAN, updateEthWhiteList(t, b)
      PROVE  KeepsSymbols
    BY Zenon, <1>3, <1>5 DEF updateEthWhiteList
<1>6. ASSUME NEW t \in Tokens, bulkWhitelistUpdateLimits(t)
      PROVE  KeepsSymbols
    BY Zenon, <1>3, <1>6 DEF bulkWhitelistUpdateLimits
<1>7. CASE BankUser
    <2>1. ASSUME NEW u \in Users, NEW r \in Recipients, NEW t \in Assets, NEW n \in 0 .. MaxHeld,
                 lock(u, r, t, n)
          PROVE  KeepsSymbols
        BY Zenon, <2>1, LockSymbols
    <2>2. ASSUME NEW u \in Users, NEW r \in Recipients, NEW t \in BridgeTokens, NEW n, burn(u, r, t, n)
          PROVE  KeepsSymbols
        BY Zenon, <2>2, <1>2 DEF burn
    <2> QED BY Zenon, <1>7, <2>1, <2>2 DEF BankUser
<1> QED
    BY Zenon, <1>2, <1>4, <1>5, <1>6, <1>7 DEF BankNext, BankAdmin, togglePause, setBlocklist, fundVars

\* What completeProphecyClaim pays leaves nothing held that was not held before.
LEMMA ClaimPays ==
    ASSUME BankTypeOK, NEW p \in EthProphecies, NEW lists, NEW t,
           t = IF p.type = "Burn" THEN unlockedAsset(lists, p.symbol)
               ELSE mintedToken(lists, p.symbol),
           completeProphecyClaim(p, lists)
    PROVE  /\ completed' = [completed EXCEPT ![p] = Append(@, t)]
           /\ \A x \in Assets : held'[x] > 0 => held[x] > 0
<1>1. /\ completed' = [completed EXCEPT ![p] = Append(@, t)]
      /\ IF p.type = "Burn" THEN unlock(t, p.amount) ELSE mintBridgeTokens(t, p.amount)
    BY Zenon DEF completeProphecyClaim
<1>2. held' = held \/ held' = [held EXCEPT ![t] = @ - p.amount]
    BY Zenon, <1>1 DEF unlock, mintBridgeTokens
<1>3. held \in [Assets -> Nat] /\ p.amount \in Nat
    BY Zenon, ProphecyAssumption DEF BankTypeOK
<1>4. ASSUME NEW x \in Assets, held'[x] > 0
      PROVE  held[x] > 0
    BY SMTT(30), <1>2, <1>3, <1>4
<1> QED BY Zenon, <1>1, <1>4

\* The lists that newProphecyClaim leaves, with one bridge token more or the same.
LEMMA ClaimLists ==
    ASSUME ContractTypeOK, SymbolInv, NEW v \in Validators, NEW p \in EthProphecies,
           newProphecyClaim(v, p)
    PROVE  /\ \/ /\ lowerToUpperTokens' = lowerToUpperTokens
                 /\ AdmittedSymbols' = AdmittedSymbols
              \/ /\ p.type = "Lock"
                 /\ lowerToUpperTokens' = [lowerToUpperTokens EXCEPT
                                             ![Lower[Resolved(p.symbol)]] = Resolved(p.symbol)]
                 /\ AdmittedSymbols' = AdmittedSymbols \cup {Resolved(p.symbol)}
           /\ lockedTokenList' = lockedTokenList /\ ethWhiteList' = ethWhiteList
           /\ signedPower' = [signedPower EXCEPT ![p] = signedPower[p] + ethPower[v]]
           /\ signedPower[p] = 0 => MayOpen(p, Resolved(p.symbol))
           /\ \A x \in Assets : held'[x] > 0 => held[x] > 0
           /\ \/ completed' = completed
              \/ completed' = [completed EXCEPT ![p] = Append(@, lockedTokenList[Resolved(p.symbol)])]
              \/ p.type = "Lock" /\ \E t : completed' = [completed EXCEPT ![p] = Append(@, t)]
<1> DEFINE s == Resolved(p.symbol)
           deploys == signedPower[p] = 0 /\ p.type = "Lock" /\ controlledBridgeTokens[s] = Zero
           lists == IF deploys THEN createNewBridgeToken(s) ELSE Lists
           t == IF p.type = "Burn" THEN unlockedAsset(lists, p.symbol)
                ELSE mintedToken(lists, p.symbol)
<1>1. /\ lowerToUpperTokens' = lists.ltu /\ cosmosWhiteList' = lists.white
      /\ signedPower[p] = 0 => MayOpen(p, s)
      /\ signedPower' = [signedPower EXCEPT ![p] = signedPower[p] + ethPower[v]]
      /\ \/ completeProphecyClaim(p, lists)
         \/ UNCHANGED <<held, minted, completed>>
      /\ UNCHANGED <<ethWhiteList, lockedTokenList>>
    BY Zenon DEF newProphecyClaim, Resolved
<1>2. /\ BankTypeOK /\ p.symbol \in Symbols /\ s \in Symbols /\ p.type \in {"Burn", "Lock"}
    BY Zenon, SymbolResolved, ProphecyAssumption DEF ContractTypeOK, BankTypeOK, Resolved
<1>3. \/ lowerToUpperTokens' = lowerToUpperTokens /\ AdmittedSymbols' = AdmittedSymbols
      \/ /\ p.type = "Lock" /\ lowerToUpperTokens' = [lowerToUpperTokens EXCEPT ![Lower[s]] = s]
         /\ AdmittedSymbols' = AdmittedSymbols \cup {s}
    <2>1. CASE ~deploys
        <3>1. lowerToUpperTokens' = lowerToUpperTokens /\ cosmosWhiteList' = cosmosWhiteList
            BY Zenon, <1>1, <2>1 DEF Lists
        <3> QED BY Zenon, <3>1, <1>1 DEF AdmittedSymbols, Admitted
    <2>2. CASE deploys
        <3>1. /\ p.type = "Lock" /\ lowerToUpperTokens' = [lowerToUpperTokens EXCEPT ![Lower[s]] = s]
              /\ cosmosWhiteList' = cosmosWhiteList \cup {Deployed(s)}
            BY Zenon, <1>1, <2>2 DEF createNewBridgeToken
        <3>2. ContractSymbol(Deployed(s)) = s
            BY Zenon, <1>2, DeployedSymbol
        <3> HIDE DEF s, lists, t, deploys
        <3>3. ASSUME NEW x PROVE x \in AdmittedSymbols' <=> x \in AdmittedSymbols \cup {s}
            BY Zenon, <3>1, <3>2, <1>1, AdmittedBy
        <3>4. AdmittedSymbols' = AdmittedSymbols \cup {s}
            BY Zenon, <3>3
        <3> QED BY Zenon, <3>1, <3>4
    <2> QED BY Zenon, <2>1, <2>2
<1>4. p.type = "Burn" => t = lockedTokenList[s]
    BY Zenon DEF unlockedAsset, Lists, Resolved
<1>5. /\ \A x \in Assets : held'[x] > 0 => held[x] > 0
      /\ completed' = completed \/ completed' = [completed EXCEPT ![p] = Append(@, t)]
    <2>1. CASE UNCHANGED <<held, minted, completed>>
        BY Zenon, <2>1
    <2>2. CASE completeProphecyClaim(p, lists)
        <3>1. t = IF p.type = "Burn" THEN unlockedAsset(lists, p.symbol)
                  ELSE mintedToken(lists, p.symbol)
            BY Zenon
        <3> HIDE DEF t, lists
        <3> QED BY Zenon, <2>2, <3>1, <1>2, ClaimPays
    <2> QED BY Zenon, <1>1, <2>1, <2>2
<1> HIDE DEF t, lists, deploys
<1> QED BY Zenon, <1>1, <1>2, <1>3, <1>4, <1>5

\* A claim keeps the invariant, and pays a burn prophecy in its own asset.
LEMMA ClaimSymbols ==
    ASSUME ContractTypeOK, SymbolInv, PaidInOwnAsset,
           NEW v \in Validators, NEW p \in EthProphecies, newProphecyClaim(v, p)
    PROVE  SymbolInv' /\ PaidInOwnAsset'
<1> DEFINE s == Resolved(p.symbol)
<1>1. /\ lockedTokenList' = lockedTokenList /\ ethWhiteList' = ethWhiteList
      /\ signedPower' = [signedPower EXCEPT ![p] = signedPower[p] + ethPower[v]]
      /\ signedPower[p] = 0 => MayOpen(p, s)
      /\ \A x \in Assets : held'[x] > 0 => held[x] > 0
    BY Zenon, ClaimLists
<1>2. /\ BankTypeOK /\ p.symbol \in Symbols /\ s \in Symbols
      /\ signedPower[p] = 0 \/ signedPower[p] > 0
    <2>1. BankTypeOK /\ p.symbol \in Symbols /\ s \in Symbols /\ signedPower[p] \in Nat
        BY Zenon, SymbolResolved, ProphecyAssumption DEF ContractTypeOK, BankTypeOK, Resolved
    <2>2. signedPower[p] = 0 \/ signedPower[p] > 0
        BY SMTT(30), <2>1
    <2> QED BY Zenon, <2>1, <2>2
<1>3. p.type = "Burn" /\ One(AdmittedSymbols, Lower[p.symbol]) => Leads(s)
    <2>1. MayOpen(p, s) /\ p.type = "Burn" => Leads(s)
        BY Zenon DEF MayOpen, Leads
    <2> QED BY Zenon, <1>1, <1>2, <2>1 DEF SymbolInv, Opened
<1>4. \A q \in EthProphecies :
          q.type = "Burn" /\ signedPower'[q] > 0 /\ One(AdmittedSymbols, Lower[q.symbol])
              => Leads(Resolved(q.symbol))
    <2> SUFFICES ASSUME NEW q \in EthProphecies, q.type = "Burn", signedPower'[q] > 0,
                        One(AdmittedSymbols, Lower[q.symbol])
                 PROVE  Leads(Resolved(q.symbol))
        BY Zenon
    <2>1. CASE q = p
        BY Zenon, <2>1, <1>3
    <2>2. CASE q # p
        <3>1. signedPower'[q] = signedPower[q]
            BY Zenon, <1>1, <2>2 DEF ContractTypeOK
        <3> QED BY Zenon, <3>1 DEF SymbolInv, Opened
    <2> QED BY Zenon, <2>1, <2>2
<1>5. Located' /\ \A x \in Symbols : Leads(x) => Leads(x)'
    BY Zenon, <1>1 DEF SymbolInv, Located, Leads, Assets
<1>6. SymbolInv'
    BY Zenon, <1>1, <1>2, <1>4, <1>5, ClaimLists, SymbolsKept, SymbolsRegistered
<1>7. PaidInOwnAsset'
    <2> SUFFICES ASSUME NEW q \in EthProphecies, NEW i \in DOMAIN completed'[q], q.type = "Burn",
                        One(AdmittedSymbols', Lower[q.symbol])
                 PROVE  Lower[AssetSymbol(completed'[q][i])] = Lower[q.symbol]
        BY Zenon, OneSymbols DEF PaidInOwnAsset
    <2>o. One(AdmittedSymbols, Lower[q.symbol])
        BY Zenon, ClaimLists, OneSubset
    <2>1. CASE completed'[q] = completed[q]
        BY Zenon, <2>o, <2>1, OneSymbols DEF PaidInOwnAsset
    <2>2. CASE completed'[q] # completed[q]
        <3> DEFINE t == lockedTokenList[s]
        <3>1. q = p
            BY Zenon, ClaimLists, <2>2 DEF ContractTypeOK
        <3>2. p.type # "Lock"
            BY Zenon, <3>1
        <3>3. completed'[q] = Append(completed[q], t)
            BY Zenon, ClaimLists, <2>2, <3>1, <3>2 DEF ContractTypeOK
        <3>4. Lower[AssetSymbol(t)] = Lower[q.symbol]
            BY Zenon, <1>2, <1>3, <2>o, <3>1, LeadsToOwn
        <3>5. completed[q] \in Seq(Assets \cup BridgeTokens)
            BY Zenon DEF ContractTypeOK
        <3> HIDE DEF t
        <3>6. \/ i \in DOMAIN completed[q] /\ completed'[q][i] = completed[q][i]
              \/ completed'[q][i] = t
            <4> DEFINE T == Assets \cup BridgeTokens
            <4>1. completed[q] \in Seq(T)
                BY Zenon, <3>5
            <4> HIDE DEF T
            <4>2. i \in 1 .. Len(completed[q]) + 1
                BY SMTT(30), <4>1, <3>3
            <4>3. CASE i = Len(completed[q]) + 1
                BY SMTT(30), <4>1, <4>3, <3>3
            <4>4. CASE i # Len(completed[q]) + 1
                BY SMTT(30), <4>1, <4>2, <4>4, <3>3
            <4> QED BY Zenon, <4>3, <4>4
        <3> QED BY Zenon, <2>o, <3>4, <3>6, OneSymbols DEF PaidInOwnAsset
    <2> QED BY Zenon, <2>1, <2>2
<1> QED BY Zenon, <1>6, <1>7

\* Every step of the contracts keeps both, whatever happens to the powers.
LEMMA SymbolStep ==
    ASSUME ContractTypeOK, SymbolInv, PaidInOwnAsset, [SteadyNext]_contractVars
    PROVE  SymbolInv' /\ PaidInOwnAsset'
<1>1. CASE Vote
    BY Zenon, <1>1, ClaimSymbols DEF Vote
<1>2. CASE Bank
    <2>1. KeepsSymbols /\ completed' = completed
        BY Zenon, <1>2, BankSymbols DEF Bank, voteVars, ContractTypeOK
    <2>2. \A l : One(AdmittedSymbols', l) => One(AdmittedSymbols, l)
        BY Zenon, <2>1 DEF KeepsSymbols, One
    <2>3. PaidInOwnAsset'
        BY Zenon, <2>1, <2>2, OneSymbols DEF PaidInOwnAsset
    <2> QED BY Zenon, <2>1, <2>3 DEF KeepsSymbols
<1>3. ASSUME UNCHANGED <<bridgeBankVars, voteVars>>
      PROVE  SymbolInv' /\ PaidInOwnAsset'
    <2>1. /\ UNCHANGED <<ethWhiteList, lockedTokenList, lowerToUpperTokens, cosmosWhiteList, held>>
          /\ UNCHANGED <<signedPower, completed>>
        BY Zenon, <1>3 DEF bridgeBankVars, voteVars
    <2>2. AdmittedSymbols' = AdmittedSymbols
        BY Zenon, <2>1 DEF AdmittedSymbols, Admitted
    <2>3. Located' /\ \A x \in Symbols : Leads(x) => Leads(x)'
        BY Zenon, <2>1 DEF SymbolInv, Located, Leads
    <2>4. \A q \in EthProphecies :
              q.type = "Burn" /\ signedPower'[q] > 0 /\ One(AdmittedSymbols, Lower[q.symbol])
                  => Leads(Resolved(q.symbol))
        BY Zenon, <2>1 DEF SymbolInv, Opened
    <2>5. SymbolInv'
        BY Zenon, <2>1, <2>2, <2>3, <2>4, SymbolsKept DEF ContractTypeOK
    <2>6. PaidInOwnAsset'
        BY Zenon, <2>1, <2>2, OneSymbols DEF PaidInOwnAsset
    <2> QED BY Zenon, <2>5, <2>6
<1>4. CASE ManageValset
    BY Zenon, <1>3, <1>4
    DEF ManageValset, addValidator, updateValidatorPower, removeValidator, updateValset, recoverGas
<1> QED
    BY Zenon, <1>1, <1>2, <1>3, <1>4 DEF SteadyNext, Steady, contractVars

\* The contracts start with ether alone admitted, and two symbols in the map.
LEMMA SymbolInit ==
    ASSUME ContractInit, \A t \in Tokens : GenesisHeld[t] = 0
    PROVE  SymbolInv /\ PaidInOwnAsset
<1>1. /\ ethWhiteList = {Zero} /\ cosmosWhiteList = {} /\ held = GenesisHeld
      /\ lockedTokenList = [x \in Symbols |-> Zero]
      /\ lowerToUpperTokens = [x \in Symbols |-> IF x \in {"eth", "efury"} THEN x ELSE Unset]
      /\ signedPower = [p \in EthProphecies |-> 0] /\ completed = [p \in EthProphecies |-> <<>>]
    BY Zenon DEF ContractInit, BankInit
<1>2. Lowered
    BY Zenon, <1>1, SymbolAssumption DEF Lowered
<1>3. Entered
    <2>1. ContractSymbol(Zero) = "eth"
        BY Zenon DEF ContractSymbol, Assets, AssetSymbol
    <2>2. \A x \in Symbols : lockedTokenList[x] = Zero
        BY Zenon, <1>1
    <2>3. \A x : x \in AdmittedSymbols <=> x = "eth"
        BY Zenon, <1>1, <2>1, <2>2, AdmittedBy
    <2>4. lowerToUpperTokens[Lower["eth"]] = "eth"
        BY Zenon, <1>1, SymbolAssumption
    <2> QED BY Zenon, <2>3, <2>4 DEF Entered
<1>4. Located
    <2>1. \A t \in Tokens : ~(held[t] > 0)
        BY SMTT(30), <1>1
    <2> QED BY Zenon, <1>1, <2>1 DEF Located
<1>5. Opened
    <2>1. \A p \in EthProphecies : ~(signedPower[p] > 0)
        BY SMTT(30), <1>1
    <2> QED BY Zenon, <2>1 DEF Opened
<1>6. PaidInOwnAsset
    <2>1. \A p \in EthProphecies : DOMAIN completed[p] = {}
        BY SMTT(30), <1>1
    <2> QED BY Zenon, <2>1 DEF PaidInOwnAsset
<1> QED BY Zenon, <1>2, <1>3, <1>4, <1>5, <1>6 DEF SymbolInv

\* newProphecyClaim pays a burn prophecy in the asset that its symbol names and
\* never in ether for an unknown symbol, whatever is whitelisted, deployed or
\* locked meanwhile, while no two admitted symbols share its lower case.
THEOREM SteadyPaidInOwnAsset ==
    ASSUME \A t \in Tokens : GenesisHeld[t] = 0
    PROVE  SteadySpec => []PaidInOwnAsset
<1>1. ContractInit => SymbolInv /\ PaidInOwnAsset
    BY Zenon, SymbolInit
<1>2. ContractTypeOK /\ SymbolInv /\ PaidInOwnAsset /\ [SteadyNext]_contractVars
          => SymbolInv' /\ PaidInOwnAsset'
    BY Zenon, SymbolStep
<1> QED
    BY <1>1, <1>2, SteadyTyped, PTL DEF SteadySpec

\* An asset that lock took in is found from its lower-case symbol while no other
\* admitted contract has that lower case.
LEMMA RetrievableFromSymbols ==
    ASSUME BankTypeOK, SymbolInv, NEW t \in Assets, t # Zero => held[t] > 0,
           \A u \in Admitted : Lower[ContractSymbol(u)] = Lower[AssetSymbol(t)] => u = t
    PROVE  lockedTokenList[Resolved(Lower[AssetSymbol(t)])] = t
<1> DEFINE y == AssetSymbol(t)
<1>1. y \in Symbols /\ Lower[y] \in Symbols /\ ContractSymbol(t) = y /\ Lower[Lower[y]] = Lower[y]
    BY Zenon, AssetSymbols, SymbolAssumption
<1>2. \A x \in Symbols : lockedTokenList[x] \in Admitted
    BY Zenon DEF Admitted
<1>3. Zero \in Admitted /\ ContractSymbol(Zero) = "eth"
    BY Zenon DEF Admitted, SymbolInv, Located, ContractSymbol, Assets, AssetSymbol
<1>4. lockedTokenList[y] = t
    <2>1. CASE lockedTokenList[y] # Zero
        <3>1. lockedTokenList[y] \in Assets /\ AssetSymbol(lockedTokenList[y]) = y
            BY Zenon, <1>1, <2>1 DEF SymbolInv, Located, BankTypeOK
        <3>2. ContractSymbol(lockedTokenList[y]) = y
            BY Zenon, <3>1, AssetSymbols
        <3> QED BY Zenon, <3>2, <1>1, <1>2
    <2>2. CASE lockedTokenList[y] = Zero /\ t # Zero
        <3>1. t \in Tokens
            BY Zenon, <2>2 DEF Assets
        <3>2. y = "eth"
            BY Zenon, <3>1, <2>2 DEF SymbolInv, Located, Leads
        <3> QED BY Zenon, <3>2, <1>3, <2>2
    <2> QED BY Zenon, <2>1, <2>2
<1>5. y \in AdmittedSymbols
    BY Zenon, <1>1, <1>2, <1>4 DEF AdmittedSymbols
<1>6. lowerToUpperTokens[Lower[y]] \in AdmittedSymbols
    BY Zenon, <1>5 DEF SymbolInv, Entered
<1>7. lowerToUpperTokens[Lower[y]] = y
    <2>1. PICK u \in Admitted : lowerToUpperTokens[Lower[y]] = ContractSymbol(u)
        BY Zenon, <1>6 DEF AdmittedSymbols
    <2>2. lowerToUpperTokens[Lower[y]] # Unset
        BY Zenon, <1>6, AdmittedTyped, SymbolAssumption
    <2>3. Lower[ContractSymbol(u)] = Lower[y]
        BY Zenon, <1>1, <2>1, <2>2 DEF SymbolInv, Lowered
    <2> QED BY Zenon, <1>1, <2>1, <2>3
<1>8. Resolved(Lower[y]) = y
    BY Zenon, <1>1, <1>7, SymbolAssumption DEF Resolved, safeLowerToUpperTokens
<1> QED BY Zenon, <1>4, <1>8

\* What lock took in can be paid back under the lower-case symbol a claim
\* carries, whatever is whitelisted, removed, deployed or locked meanwhile, while
\* no other admitted contract has its symbol in lower case.
THEOREM SteadyRetrievable ==
    ASSUME \A t \in Tokens : GenesisHeld[t] = 0
    PROVE  SteadySpec => []LockedIsRetrievable
<1>1. ContractInit => SymbolInv /\ PaidInOwnAsset
    BY Zenon, SymbolInit
<1>2. ContractTypeOK /\ SymbolInv /\ PaidInOwnAsset /\ [SteadyNext]_contractVars
          => SymbolInv' /\ PaidInOwnAsset'
    BY Zenon, SymbolStep
<1>3. ContractTypeOK /\ SymbolInv => LockedIsRetrievable
    BY Zenon, RetrievableFromSymbols DEF ContractTypeOK, LockedIsRetrievable, Resolved
<1> QED
    BY <1>1, <1>2, <1>3, SteadyTyped, PTL DEF SteadySpec
=============================================================================
