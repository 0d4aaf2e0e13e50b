-------------------------- MODULE IbcTransferProofs --------------------------
(***************************************************************************)
(* Proofs for x/ibctransfer, beside x/dispensation: it keeps in escrow     *)
(* what the other chains may send back, and every voucher is backed by a   *)
(* coin that another chain keeps.                                          *)
(***************************************************************************)
EXTENDS Custody, SumLemmas, TLAPS

\* The time that a leaf may take.
USE SMTT(30)

-----------------------------------------------------------------------------
(***************************************************************************)
(* x/ibctransfer: banks and packets.                                       *)
(***************************************************************************)
Banks(X) == [X -> [IbcDenoms -> Int]]

PacketTypes ==
    [seq : Nat, out : BOOLEAN, ch : Channels, denom : IbcDenoms, amount : Nat, user : Senders]

\* What the packets of P carry of d over channel ch, what is held of d in all
\* accounts of a bank, and what one packet carries.
Flying(P, ch, d) ==
    SumFunctionOnSet([p \in P |-> IF p.ch = ch /\ p.denom = d THEN p.amount ELSE 0], P)
Across(bank, X, d) == SumFunctionOnSet([x \in X |-> bank[x][d]], X)
Carried(p, ch, d) == IF p.ch = ch /\ p.denom = d THEN p.amount ELSE 0

\* The denominations are finitely many, and so are the aliases of one.
LEMMA DenomsFinite == IsFiniteSet(IbcDenoms)
<1>1. IsFiniteSet({Voucher[ch] : ch \in Channels})
    <2> DEFINE V == [ch \in Channels |-> Voucher[ch]]
    <2>1. V \in Surjection(Channels, {Voucher[ch] : ch \in Channels})
        BY Zenon DEF Surjection
    <2> QED BY Zenon, <2>1, ChannelsAssumption, FS_Surjection
<1> QED BY Zenon, <1>1, ChannelsAssumption, FS_Union DEF IbcDenoms

\* A credit or a debit changes one balance.
LEMMA AddAt ==
    ASSUME NEW X, NEW bank \in Banks(X), NEW x \in X, NEW d \in IbcDenoms, NEW n \in Int
    PROVE  /\ Add(bank, x, d, n) \in Banks(X)
           /\ Add(bank, x, d, n)[x][d] = bank[x][d] + n
           /\ \A y \in X : \A e \in IbcDenoms : y # x \/ e # d => Add(bank, x, d, n)[y][e] = bank[y][e]
BY Zenon, IntegersClosed DEF Banks, Add

\* So does it change what all accounts hold.
LEMMA AcrossAdd ==
    ASSUME NEW X, IsFiniteSet(X), NEW bank \in Banks(X), NEW x \in X, NEW d \in IbcDenoms,
           NEW n \in Int, NEW e \in IbcDenoms
    PROVE  Across(Add(bank, x, d, n), X, e) = Across(bank, X, e) + (IF e = d THEN n ELSE 0)
<1> DEFINE b == Add(bank, x, d, n)
           f == [y \in X |-> bank[y][e]]
           g == [y \in X |-> b[y][e]]
<1>1. b \in Banks(X) /\ b[x][d] = bank[x][d] + n
      /\ \A y \in X : y # x \/ e # d => b[y][e] = bank[y][e]
    BY AddAt
<1> HIDE DEF b
<1>2. /\ \A y \in X : f[y] \in Int /\ g[y] \in Int
      /\ \A y \in X \ {x} : g[y] = f[y]
      /\ g[x] = f[x] + (IF e = d THEN n ELSE 0)
    BY <1>1 DEF Banks
<1>3. Across(bank, X, e) = SumFunctionOnSet(f, X) /\ Across(b, X, e) = SumFunctionOnSet(g, X)
    BY Zenon DEF Across
<1> HIDE DEF f, g
<1>4. SumFunctionOnSet(g, X) = SumFunctionOnSet(f, X) - f[x] + g[x]
    BY <1>2, SumChange
<1>5. SumFunctionOnSet(f, X) \in Int
    BY Zenon, <1>2, SumInt
<1>6. Across(b, X, e) = Across(bank, X, e) + (IF e = d THEN n ELSE 0)
    BY <1>2, <1>3, <1>4, <1>5
<1> QED BY Zenon, <1>6 DEF b

\* What a bank holds in all is an integer.
LEMMA AcrossInt ==
    ASSUME NEW X, IsFiniteSet(X), NEW bank \in Banks(X), NEW d \in IbcDenoms
    PROVE  Across(bank, X, d) \in Int
<1> DEFINE f == [x \in X |-> bank[x][d]]
<1>1. \A x \in X : f[x] \in Int
    BY Zenon DEF Banks
<1> HIDE DEF f
<1>2. SumFunctionOnSet(f, X) \in Int
    BY Zenon, <1>1, SumInt
<1> QED BY Zenon, <1>2 DEF Across, f

\* What the packets carry covers what each carries.
LEMMA FlyingNat ==
    ASSUME NEW P, IsFiniteSet(P), P \subseteq PacketTypes, NEW ch, NEW d
    PROVE  Flying(P, ch, d) \in Nat /\ \A p \in P : Carried(p, ch, d) <= Flying(P, ch, d)
<1> DEFINE f == [p \in P |-> IF p.ch = ch /\ p.denom = d THEN p.amount ELSE 0]
<1>1. \A p \in P : f[p] \in Nat /\ f[p] = Carried(p, ch, d)
    BY Zenon DEF PacketTypes, Carried
<1>2. Flying(P, ch, d) = SumFunctionOnSet(f, P)
    BY Zenon DEF Flying
<1> HIDE DEF f
<1> QED BY Zenon, <1>1, <1>2, SumNat

\* A packet that arrives, or is refunded, is in flight no more.
LEMMA FlyingRemove ==
    ASSUME NEW P, IsFiniteSet(P), P \subseteq PacketTypes, NEW p \in P, NEW ch, NEW d
    PROVE  Flying(P \ {p}, ch, d) = Flying(P, ch, d) - Carried(p, ch, d)
<1> DEFINE f == [q \in P |-> IF q.ch = ch /\ q.denom = d THEN q.amount ELSE 0]
           g == [q \in P \ {p} |-> IF q.ch = ch /\ q.denom = d THEN q.amount ELSE 0]
<1>1. (\A q \in P : f[q] \in Int) /\ f[p] = Carried(p, ch, d) /\ \A q \in P \ {p} : f[q] = g[q]
    BY Zenon, IntegersClosed DEF PacketTypes, Carried
<1>2. Flying(P, ch, d) = SumFunctionOnSet(f, P) /\ Flying(P \ {p}, ch, d) = SumFunctionOnSet(g, P \ {p})
    BY Zenon DEF Flying
<1>3. IsFiniteSet(P \ {p})
    BY Zenon, FS_Subset
<1> HIDE DEF f, g
<1>4. SumFunctionOnSet(f, P) = f[p] + SumFunctionOnSet(f, P \ {p})
    BY <1>1, SumRemove
<1>5. SumFunctionOnSet(f, P \ {p}) = SumFunctionOnSet(g, P \ {p})
    BY Zenon, <1>1, <1>3, SumSame
<1>6. SumFunctionOnSet(f, P \ {p}) \in Int /\ f[p] \in Int
    BY Zenon, <1>1, <1>3, SumInt
<1> QED BY <1>1, <1>2, <1>4, <1>5, <1>6

\* A packet that is sent is in flight from then on.
LEMMA FlyingAdd ==
    ASSUME NEW P, IsFiniteSet(P), P \subseteq PacketTypes, NEW p \in PacketTypes, p \notin P, NEW ch, NEW d
    PROVE  Flying(P \cup {p}, ch, d) = Flying(P, ch, d) + Carried(p, ch, d)
<1> DEFINE Q == P \cup {p}
<1>1. IsFiniteSet(Q) /\ Q \subseteq PacketTypes /\ p \in Q /\ Q \ {p} = P
    BY Zenon, FS_AddElement
<1> HIDE DEF Q
<1>2. Flying(Q \ {p}, ch, d) = Flying(Q, ch, d) - Carried(p, ch, d)
    BY <1>1, FlyingRemove
<1>3. Flying(Q, ch, d) \in Int /\ Carried(p, ch, d) \in Int
    BY Zenon, IntegersClosed, <1>1, FlyingNat DEF Carried, PacketTypes
<1>4. Flying(P, ch, d) = Flying(Q, ch, d) - Carried(p, ch, d)
    BY Zenon, <1>1, <1>2
<1> QED BY <1>3, <1>4 DEF Q

-----------------------------------------------------------------------------
(***************************************************************************)
(* The escrow.  ow[ch][d] is what may come back of d over channel ch.      *)
(***************************************************************************)
ForAliases(ow, ch, d) ==
    SumFunctionOnSet([a \in AliasesOf(d) |-> Converted(a, ow[ch][a])], AliasesOf(d))
Covers(es, ow) ==
    \A ch \in Channels : \A d \in IbcDenoms \ {Voucher[ch]} :
        es[ch][d] >= ow[ch][d] + ForAliases(ow, ch, d)

\* m of coin d at channel ch.
At(ch, d, c, e, m) == IF ch = c /\ d = e THEN m ELSE 0
\* What n of d is worth to the coin that d is an alias of.
Worth(d, n) == IF UnitDenom[d] # d THEN Converted(d, n) ELSE 0

\* A credit or a debit, at every account and coin.
LEMMA AddHas ==
    ASSUME NEW X, NEW bank \in Banks(X), NEW x \in X, NEW d \in IbcDenoms, NEW n \in Int,
           NEW y \in X, NEW e \in IbcDenoms
    PROVE  Add(bank, x, d, n)[y][e] = bank[y][e] + At(y, e, x, d, n)
<1>1. bank[y][e] \in Int
    BY Zenon DEF Banks
<1>2. CASE y = x /\ e = d
    BY <1>2, AddAt DEF At
<1>3. CASE y # x \/ e # d
    <2>1. Add(bank, x, d, n)[y][e] = bank[y][e]
        BY <1>3, AddAt
    <2>2. At(y, e, x, d, n) = 0
        BY Zenon, <1>3 DEF At
    <2> QED BY Zenon, IntegersClosed, <1>1, <2>1, <2>2
<1> QED BY Zenon, <1>2, <1>3

\* A credit or a debit that depends on where a packet's coin comes from.
LEMMA AddIf ==
    ASSUME NEW X, IsFiniteSet(X), NEW bank \in Banks(X), NEW x \in X, NEW d \in IbcDenoms, NEW n \in Int,
           NEW own \in BOOLEAN, NEW b, b = IF own THEN Add(bank, x, d, n) ELSE bank
    PROVE  /\ b \in Banks(X)
           /\ \A y \in X : \A e \in IbcDenoms :
                  b[y][e] = bank[y][e] + (IF own THEN At(y, e, x, d, n) ELSE 0)
           /\ \A e \in IbcDenoms : Across(b, X, e) = Across(bank, X, e) + (IF own /\ e = d THEN n ELSE 0)
<1>1. CASE own
    <2>1. b = Add(bank, x, d, n)
        BY Zenon, <1>1
    <2>2. b \in Banks(X)
        BY Zenon, <2>1, AddAt
    <2>3. ASSUME NEW y \in X, NEW e \in IbcDenoms
          PROVE  b[y][e] = bank[y][e] + At(y, e, x, d, n)
        BY <2>1, AddHas
    <2>4. ASSUME NEW e \in IbcDenoms
          PROVE  Across(b, X, e) = Across(bank, X, e) + (IF e = d THEN n ELSE 0)
        BY <2>1, AcrossAdd
    <2> QED BY Zenon, <1>1, <2>2, <2>3, <2>4
<1>2. CASE ~own
    <2>1. b = bank
        BY Zenon, <1>2
    <2>2. ASSUME NEW e \in IbcDenoms
          PROVE  Across(b, X, e) = Across(bank, X, e) + 0
        BY Zenon, IntegersClosed, <2>1, AcrossInt
    <2>3. ASSUME NEW y \in X, NEW e \in IbcDenoms
          PROVE  b[y][e] = bank[y][e] + 0
        BY Zenon, IntegersClosed, <2>1 DEF Banks
    <2> QED BY Zenon, <1>2, <2>1, <2>2, <2>3
<1> QED BY Zenon, <1>1, <1>2

\* An alias is a coin of this chain.
LEMMA AliasParts ==
    ASSUME NEW d \in IbcDenoms, NEW a \in AliasesOf(d)
    PROVE  /\ a \in IbcDenoms /\ a # d /\ UnitDenom[a] = d /\ Factor(a) \in Nat
           /\ \A ch \in Channels : a # Voucher[ch]
BY AliasAssumption, ChannelsAssumption DEF AliasesOf

\* Conversion is linear.
LEMMA ConvertedDiff ==
    ASSUME NEW d \in IbcDenoms, NEW m \in Int, NEW n \in Int
    PROVE  /\ Converted(d, m) \in Int /\ Converted(d, n) \in Int
           /\ Converted(d, m - n) = Converted(d, m) - Converted(d, n)
           /\ n >= 0 => Converted(d, n) >= 0
<1> DEFINE f == Factor(d)
<1>1. f \in Nat
    BY Zenon, AliasAssumption
<1>2. Converted(d, m) = m * f /\ Converted(d, n) = n * f /\ Converted(d, m - n) = (m - n) * f
    BY Zenon DEF Converted
<1> HIDE DEF f
<1>3. (m - n) * f = m * f - n * f /\ m * f \in Int /\ n * f \in Int
    BY <1>1
<1>4. n >= 0 => n * f >= 0
    BY <1>1
<1> QED BY Zenon, <1>2, <1>3, <1>4

\* When n of d0 is owed no more over channel c0, the escrow of c0 may give out
\* that much of d0, and what it is worth of the coin d0 is an alias of.
LEMMA CoversStep ==
    ASSUME NEW es \in Banks(Channels), NEW es2 \in Banks(Channels),
           NEW ow \in Banks(Channels), NEW ow2 \in Banks(Channels), Covers(es, ow),
           NEW c0 \in Channels, NEW d0 \in IbcDenoms, NEW n \in Int,
           \A ch \in Channels : \A d \in IbcDenoms \ {Voucher[ch]} :
               /\ ow2[ch][d] = ow[ch][d] - At(ch, d, c0, d0, n)
               /\ es2[ch][d] >= es[ch][d] - At(ch, d, c0, d0, n) - At(ch, d, c0, UnitDenom[d0], Worth(d0, n))
    PROVE  Covers(es2, ow2)
<1> SUFFICES ASSUME NEW ch \in Channels, NEW d \in IbcDenoms \ {Voucher[ch]}
             PROVE  es2[ch][d] >= ow2[ch][d] + ForAliases(ow2, ch, d)
    BY Zenon DEF Covers
<1> DEFINE A == AliasesOf(d)
           f == [a \in A |-> Converted(a, ow[ch][a])]
           g == [a \in A |-> Converted(a, ow2[ch][a])]
<1>1. IsFiniteSet(A)
    BY Zenon, DenomsFinite, FS_Subset DEF AliasesOf
<1>2. \A a \in A : /\ f[a] \in Int /\ g[a] \in Int
                    /\ ow2[ch][a] = ow[ch][a] - At(ch, a, c0, d0, n)
    <2> SUFFICES ASSUME NEW a \in A
                 PROVE  /\ f[a] \in Int /\ g[a] \in Int
                        /\ ow2[ch][a] = ow[ch][a] - At(ch, a, c0, d0, n)
        BY Zenon
    <2>1. a \in IbcDenoms \ {Voucher[ch]}
        BY Zenon, AliasParts
    <2>2. ow[ch][a] \in Int /\ ow2[ch][a] \in Int
        BY Zenon, <2>1 DEF Banks
    <2> QED BY Zenon, <2>1, <2>2, ConvertedDiff
<1>3. ForAliases(ow, ch, d) = SumFunctionOnSet(f, A) /\ ForAliases(ow2, ch, d) = SumFunctionOnSet(g, A)
    BY Zenon DEF ForAliases
<1>4. SumFunctionOnSet(f, A) \in Int
    <2> HIDE DEF f
    <2> QED BY Zenon, <1>1, <1>2, SumInt
<1>5. SumFunctionOnSet(g, A) = SumFunctionOnSet(f, A) - At(ch, d, c0, UnitDenom[d0], Worth(d0, n))
    <2>1. CASE ch = c0 /\ d0 \in A
        <3>1. \A a \in A \ {d0} : g[a] = f[a]
            <4> SUFFICES ASSUME NEW a \in A, a # d0 PROVE g[a] = f[a]
                BY Zenon
            <4>1. ow[ch][a] \in Int
                BY AliasParts DEF Banks
            <4>2. At(ch, a, c0, d0, n) = 0
                BY Zenon DEF At
            <4> QED BY <1>2, <4>1, <4>2
        <3>2. ow[ch][d0] \in Int /\ ow2[ch][d0] = ow[ch][d0] - n
            BY Zenon, <1>2, <2>1 DEF At, Banks
        <3>3. g[d0] = f[d0] - Converted(d0, n) /\ Converted(d0, n) \in Int
            <4>1. f[d0] = Converted(d0, ow[ch][d0]) /\ g[d0] = Converted(d0, ow[ch][d0] - n)
                BY Zenon, <2>1, <3>2
            <4>2. PICK m \in Int : m = ow[ch][d0]
                BY Zenon, <3>2
            <4>3. /\ Converted(d0, m - n) = Converted(d0, m) - Converted(d0, n)
                  /\ Converted(d0, n) \in Int
                BY ONLY Zenon, d0 \in IbcDenoms, m \in Int, n \in Int, ConvertedDiff
            <4> HIDE DEF f, g
            <4> QED BY Zenon, <4>1, <4>2, <4>3
        <3>4. At(ch, d, c0, UnitDenom[d0], Worth(d0, n)) = Converted(d0, n)
            BY Zenon, <2>1, AliasParts DEF At, Worth
        <3> HIDE DEF f, g, A
        <3>5. SumFunctionOnSet(g, A) = SumFunctionOnSet(f, A) - f[d0] + g[d0]
            BY <1>1, <1>2, <2>1, <3>1, SumChange
        <3>6. f[d0] \in Int
            BY Zenon, <1>2, <2>1
        <3> QED BY <1>4, <3>3, <3>4, <3>5, <3>6
    <2>2. CASE ~(ch = c0 /\ d0 \in A)
        <3>1. \A a \in A : g[a] = f[a]
            <4> SUFFICES ASSUME NEW a \in A PROVE g[a] = f[a]
                BY Zenon
            <4>1. ow[ch][a] \in Int
                BY AliasParts DEF Banks
            <4>2. At(ch, a, c0, d0, n) = 0
                BY Zenon, <2>2 DEF At
            <4> QED BY <1>2, <4>1, <4>2
        <3>2. At(ch, d, c0, UnitDenom[d0], Worth(d0, n)) = 0
            BY Zenon, <2>2 DEF At, Worth, AliasesOf
        <3> HIDE DEF f, g, A
        <3>3. SumFunctionOnSet(g, A) = SumFunctionOnSet(f, A)
            BY Zenon, <1>1, <3>1, SumSame
        <3> QED BY <1>4, <3>2, <3>3
    <2> QED BY Zenon, <2>1, <2>2
<1>6. es[ch][d] >= ow[ch][d] + ForAliases(ow, ch, d)
    BY Zenon DEF Covers
<1>7. /\ es[ch][d] \in Int /\ es2[ch][d] \in Int /\ ow[ch][d] \in Int
      /\ At(ch, d, c0, d0, n) \in Int /\ At(ch, d, c0, UnitDenom[d0], Worth(d0, n)) \in Int
    BY ConvertedDiff DEF Banks, At, Worth
<1>8. /\ ow2[ch][d] = ow[ch][d] - At(ch, d, c0, d0, n)
      /\ es2[ch][d] >= es[ch][d] - At(ch, d, c0, d0, n) - At(ch, d, c0, UnitDenom[d0], Worth(d0, n))
    BY Zenon
<1> QED BY <1>3, <1>4, <1>5, <1>6, <1>7, <1>8

-----------------------------------------------------------------------------
(***************************************************************************)
(* The inductive invariant: the books are well formed, packets have        *)
(* distinct numbers, only coins that are no aliases are on their way out,  *)
(* and the two properties.                                                 *)
(***************************************************************************)
Owings == [ch \in Channels |-> [d \in IbcDenoms |-> Owed(ch, d)]]

IbcTypeOK ==
    /\ wallet \in Banks(Senders) /\ escrow \in Banks(Channels) /\ abroad \in Banks(Channels)
    /\ foreign \in [Channels -> Int]
    /\ IsFiniteSet(packets) /\ packets \subseteq PacketTypes
    /\ sequence \in Nat /\ \A p \in packets : p.seq < sequence
    /\ \A p \in packets : p.out => UnitDenom[p.denom] = p.denom

IbcInv == IbcTypeOK /\ EscrowCovers /\ VouchersBacked

\* The properties, in terms of the operators that the lemmas are about.
LEMMA InFlightIs == ASSUME NEW ch, NEW d PROVE InFlight(ch, d) = Flying(packets, ch, d)
BY Zenon DEF InFlight, Flying

\* What is owed over each channel is well formed.
OwingsForm ==
    /\ Owings \in Banks(Channels)
    /\ \A ch \in Channels : \A d \in IbcDenoms :
           Owings[ch][d] = abroad[ch][d] + Flying(packets, ch, d)

\* What is owed over a channel, as sums over the packets in flight.
LEMMA OwingsOK == IbcTypeOK => OwingsForm
<1> SUFFICES ASSUME IbcTypeOK PROVE OwingsForm
    BY Zenon
<1>1. \A ch \in Channels : \A d \in IbcDenoms :
          Owed(ch, d) = abroad[ch][d] + Flying(packets, ch, d)
    BY Zenon, InFlightIs DEF Owed
<1>2. \A ch \in Channels : \A d \in IbcDenoms : Owed(ch, d) \in Int
    BY <1>1, FlyingNat DEF IbcTypeOK, Banks
<1> QED BY Zenon, <1>1, <1>2 DEF Owings, OwingsForm, Banks

\* EscrowCovers in these terms.
LEMMA CoversIs == EscrowCovers <=> Covers(escrow, Owings)
<1>1. ASSUME NEW ch \in Channels, NEW d \in IbcDenoms
      PROVE  Owings[ch][d] = Owed(ch, d) /\ ForAliases(Owings, ch, d) = OwedForAliases(ch, d)
    <2>1. \A e \in IbcDenoms : Owings[ch][e] = Owed(ch, e)
        BY Zenon DEF Owings
    <2>2. [a \in AliasesOf(d) |-> Converted(a, Owings[ch][a])]
              = [a \in AliasesOf(d) |-> Converted(a, Owed(ch, a))]
        BY Zenon, <2>1 DEF AliasesOf
    <2> QED BY Zenon, <2>1, <2>2 DEF ForAliases, OwedForAliases
<1> QED BY Zenon, <1>1 DEF EscrowCovers, Covers

\* VouchersBacked in these terms.
BackedBy(fo, P, w, es) ==
    \A ch \in Channels :
        fo[ch] = Flying(P, ch, Voucher[ch]) + Across(w, Senders, Voucher[ch]) + Across(es, Channels, Voucher[ch])

\* VouchersBacked as a statement about the four pieces of state it reads.
LEMMA BackedIs == VouchersBacked <=> BackedBy(foreign, packets, wallet, escrow)
BY Zenon, InFlightIs DEF VouchersBacked, BackedBy, Across

\* EscrowCovers after a step that changes what is owed of one coin over one
\* channel.
LEMMA EscrowStep ==
    ASSUME IbcInv, IbcTypeOK', NEW c0 \in Channels, NEW d0 \in IbcDenoms, NEW n \in Int,
           \A ch \in Channels : \A d \in IbcDenoms \ {Voucher[ch]} :
               /\ abroad'[ch][d] + Flying(packets', ch, d)
                    = abroad[ch][d] + Flying(packets, ch, d) - At(ch, d, c0, d0, n)
               /\ escrow'[ch][d] >= escrow[ch][d] - At(ch, d, c0, d0, n)
                                       - At(ch, d, c0, UnitDenom[d0], Worth(d0, n))
    PROVE  EscrowCovers'
<1>1. Covers(escrow, Owings)
    BY Zenon, CoversIs DEF IbcInv
<1>2. OwingsForm /\ OwingsForm'
    <2>1. (IbcTypeOK => OwingsForm)'
        BY OwingsOK, PTL
    <2> QED BY Zenon, <2>1, OwingsOK DEF IbcInv
<1>3. (EscrowCovers <=> Covers(escrow, Owings))'
    BY CoversIs, PTL
<1>4. PICK es, ow, es2, ow2 : es = escrow /\ ow = Owings /\ es2 = escrow' /\ ow2 = Owings'
    BY Zenon
<1>5. /\ es \in Banks(Channels) /\ es2 \in Banks(Channels)
      /\ ow \in Banks(Channels) /\ ow2 \in Banks(Channels) /\ Covers(es, ow)
    BY Zenon, <1>1, <1>2, <1>4 DEF OwingsForm, IbcInv, IbcTypeOK
<1>6. \A ch \in Channels : \A d \in IbcDenoms \ {Voucher[ch]} :
           /\ ow2[ch][d] = ow[ch][d] - At(ch, d, c0, d0, n)
           /\ es2[ch][d] >= es[ch][d] - At(ch, d, c0, d0, n) - At(ch, d, c0, UnitDenom[d0], Worth(d0, n))
    <2> SUFFICES ASSUME NEW ch \in Channels, NEW d \in IbcDenoms \ {Voucher[ch]}
                 PROVE  /\ ow2[ch][d] = ow[ch][d] - At(ch, d, c0, d0, n)
                        /\ es2[ch][d] >= es[ch][d] - At(ch, d, c0, d0, n)
                                           - At(ch, d, c0, UnitDenom[d0], Worth(d0, n))
        BY Zenon
    <2>1. ow[ch][d] = abroad[ch][d] + Flying(packets, ch, d)
        BY Zenon, <1>2, <1>4 DEF OwingsForm
    <2>2. ow2[ch][d] = abroad'[ch][d] + Flying(packets', ch, d)
        BY Zenon, <1>2, <1>4 DEF OwingsForm
    <2>3. /\ abroad'[ch][d] + Flying(packets', ch, d)
               = abroad[ch][d] + Flying(packets, ch, d) - At(ch, d, c0, d0, n)
          /\ escrow'[ch][d] >= escrow[ch][d] - At(ch, d, c0, d0, n)
                                  - At(ch, d, c0, UnitDenom[d0], Worth(d0, n))
        BY Zenon
    <2>4. ow2[ch][d] = ow[ch][d] - At(ch, d, c0, d0, n)
        <3>1. /\ abroad[ch][d] \in Int /\ abroad'[ch][d] \in Int /\ At(ch, d, c0, d0, n) \in Int
              /\ Flying(packets, ch, d) \in Int /\ Flying(packets', ch, d) \in Int
            <4>1. abroad[ch][d] \in Int /\ abroad'[ch][d] \in Int
                BY DEF IbcInv, IbcTypeOK, Banks
            <4>2. At(ch, d, c0, d0, n) \in Int
                BY Zenon, IntegersClosed DEF At
            <4>3. /\ IsFiniteSet(packets) /\ packets \subseteq PacketTypes
                  /\ IsFiniteSet(packets') /\ packets' \subseteq PacketTypes
                BY Zenon DEF IbcInv, IbcTypeOK, PacketTypes
            <4>4. Flying(packets, ch, d) \in Nat /\ Flying(packets', ch, d) \in Nat
                BY ONLY Zenon, <4>3, FlyingNat
            <4> QED BY Zenon, IntegersClosed, <4>1, <4>2, <4>4
        <3> QED BY ONLY <2>1, <2>2, <2>3, <3>1
    <2>5. es2[ch][d] >= es[ch][d] - At(ch, d, c0, d0, n) - At(ch, d, c0, UnitDenom[d0], Worth(d0, n))
        BY ONLY Zenon, <1>4, <2>3
    <2> QED BY Zenon, <2>4, <2>5
<1>7. Covers(es2, ow2)
    BY ONLY c0 \in Channels, d0 \in IbcDenoms, n \in Int, <1>5, <1>6, CoversStep
<1> QED BY Zenon, <1>3, <1>4, <1>7

\* EscrowCovers after a step that changes nothing of what is owed.
LEMMA EscrowSame ==
    ASSUME IbcInv, IbcTypeOK', escrow' = escrow,
           \A ch \in Channels : \A d \in IbcDenoms \ {Voucher[ch]} :
               abroad'[ch][d] + Flying(packets', ch, d) = abroad[ch][d] + Flying(packets, ch, d)
    PROVE  EscrowCovers'
<1>1. CASE Channels = {} \/ IbcDenoms = {}
    BY Zenon, <1>1 DEF EscrowCovers
<1>2. CASE Channels # {} /\ IbcDenoms # {}
    <2>1. PICK c0 \in Channels, d0 \in IbcDenoms : TRUE
        BY Zenon, <1>2
    <2>2. Worth(d0, 0) = 0
        BY AliasAssumption DEF Worth, Converted
    <2>3. \A ch, d : At(ch, d, c0, d0, 0) = 0 /\ At(ch, d, c0, UnitDenom[d0], Worth(d0, 0)) = 0
        BY Zenon, <2>2 DEF At
    <2>4. ASSUME NEW ch \in Channels, NEW d \in IbcDenoms \ {Voucher[ch]}
          PROVE  /\ abroad'[ch][d] + Flying(packets', ch, d)
                      = abroad[ch][d] + Flying(packets, ch, d) - At(ch, d, c0, d0, 0)
                 /\ escrow'[ch][d] >= escrow[ch][d] - At(ch, d, c0, d0, 0)
                                         - At(ch, d, c0, UnitDenom[d0], Worth(d0, 0))
        <3>1. escrow[ch][d] \in Int /\ abroad[ch][d] \in Int
            BY DEF IbcInv, IbcTypeOK, Banks
        <3>2. Flying(packets, ch, d) \in Int
            BY Zenon, IntegersClosed, FlyingNat DEF IbcInv, IbcTypeOK
        <3> QED BY <2>3, <3>1, <3>2
    <2>5. PICK n \in Int : n = 0
        BY Zenon, IntegersClosed
    <2> QED BY Zenon, <2>4, <2>5, EscrowStep
<1> QED BY Zenon, <1>1, <1>2

\* VouchersBacked after a step: what leaves one side of the equation leaves the
\* other.
LEMMA BackedStep ==
    ASSUME IbcInv,
           \A ch \in Channels : \E b \in Int, c \in Int, e \in Int :
               /\ Flying(packets', ch, Voucher[ch]) = Flying(packets, ch, Voucher[ch]) + b
               /\ Across(wallet', Senders, Voucher[ch]) = Across(wallet, Senders, Voucher[ch]) + c
               /\ Across(escrow', Channels, Voucher[ch]) = Across(escrow, Channels, Voucher[ch]) + e
               /\ foreign'[ch] = foreign[ch] + b + c + e
    PROVE  VouchersBacked'
<1>1. BackedBy(foreign, packets, wallet, escrow)
    BY Zenon, BackedIs DEF IbcInv
<1>2. (VouchersBacked <=> BackedBy(foreign, packets, wallet, escrow))'
    BY BackedIs, PTL
<1>3. ASSUME NEW ch \in Channels
      PROVE  foreign'[ch] = Flying(packets', ch, Voucher[ch]) + Across(wallet', Senders, Voucher[ch])
                            + Across(escrow', Channels, Voucher[ch])
    <2> DEFINE v == Voucher[ch]
    <2>1. PICK b \in Int, c \in Int, e \in Int :
               /\ Flying(packets', ch, v) = Flying(packets, ch, v) + b
               /\ Across(wallet', Senders, v) = Across(wallet, Senders, v) + c
               /\ Across(escrow', Channels, v) = Across(escrow, Channels, v) + e
               /\ foreign'[ch] = foreign[ch] + b + c + e
        BY Zenon
    <2>2. foreign[ch] = Flying(packets, ch, v) + Across(wallet, Senders, v) + Across(escrow, Channels, v)
        BY Zenon, <1>1 DEF BackedBy
    <2>3. v \in IbcDenoms /\ IsFiniteSet(Senders) /\ IsFiniteSet(Channels)
        BY Zenon, ChannelsAssumption DEF IbcDenoms
    <2>4. /\ wallet \in Banks(Senders) /\ escrow \in Banks(Channels)
          /\ IsFiniteSet(packets) /\ packets \subseteq PacketTypes
        BY Zenon DEF IbcInv, IbcTypeOK
    <2> HIDE DEF v
    <2>5. /\ Flying(packets, ch, v) \in Int
          /\ Across(wallet, Senders, v) \in Int /\ Across(escrow, Channels, v) \in Int
        BY Zenon, IntegersClosed, <2>3, <2>4, FlyingNat, AcrossInt
    <2>6. foreign'[ch] = Flying(packets', ch, v) + Across(wallet', Senders, v) + Across(escrow', Channels, v)
        BY ONLY <2>1, <2>2, <2>5
    <2> QED BY Zenon, <2>6 DEF v
<1> QED BY Zenon, <1>2, <1>3 DEF BackedBy

\* Sending a packet.
LEMMA Sends ==
    ASSUME IbcTypeOK, NEW p \in PacketTypes, p.seq = sequence, Enqueue(p),
           p.out => UnitDenom[p.denom] = p.denom
    PROVE  /\ IsFiniteSet(packets') /\ packets' \subseteq PacketTypes
           /\ sequence' \in Nat /\ \A q \in packets' : q.seq < sequence'
           /\ \A q \in packets' : q.out => UnitDenom[q.denom] = q.denom
           /\ \A ch \in Channels : \A d \in IbcDenoms :
                  Flying(packets', ch, d) = Flying(packets, ch, d) + Carried(p, ch, d)
<1>1. p \notin packets /\ packets' = packets \cup {p} /\ sequence' = sequence + 1
    BY DEF Enqueue, IbcTypeOK
<1>2. IsFiniteSet(packets')
    BY Zenon, <1>1, FS_AddElement DEF IbcTypeOK
<1>3. packets' \subseteq PacketTypes
    BY Zenon, <1>1 DEF IbcTypeOK
<1>4. sequence' \in Nat /\ \A q \in packets' : q.seq < sequence'
    BY <1>1 DEF IbcTypeOK, PacketTypes
<1>5. \A q \in packets' : q.out => UnitDenom[q.denom] = q.denom
    BY Zenon, <1>1 DEF IbcTypeOK
<1>6. ASSUME NEW ch \in Channels, NEW d \in IbcDenoms
      PROVE  Flying(packets', ch, d) = Flying(packets, ch, d) + Carried(p, ch, d)
    BY <1>1, FlyingAdd DEF IbcTypeOK
<1> QED BY Zenon, <1>2, <1>3, <1>4, <1>5, <1>6

\* A packet that has been dealt with.
LEMMA Settles ==
    ASSUME IbcTypeOK, NEW p \in packets, packets' = packets \ {p}, sequence' = sequence
    PROVE  /\ IsFiniteSet(packets') /\ packets' \subseteq PacketTypes
           /\ sequence' \in Nat /\ \A q \in packets' : q.seq < sequence'
           /\ \A q \in packets' : q.out => UnitDenom[q.denom] = q.denom
           /\ \A ch \in Channels : \A d \in IbcDenoms :
                  Flying(packets', ch, d) = Flying(packets, ch, d) - Carried(p, ch, d)
<1>1. IsFiniteSet(packets')
    BY Zenon, FS_Subset DEF IbcTypeOK
<1>2. packets' \subseteq PacketTypes
    BY Zenon DEF IbcTypeOK
<1>3. sequence' \in Nat /\ \A q \in packets' : q.seq < sequence'
    BY Zenon DEF IbcTypeOK
<1>4. \A q \in packets' : q.out => UnitDenom[q.denom] = q.denom
    BY Zenon DEF IbcTypeOK
<1>5. ASSUME NEW ch \in Channels, NEW d \in IbcDenoms
      PROVE  Flying(packets', ch, d) = Flying(packets, ch, d) - Carried(p, ch, d)
    BY FlyingRemove DEF IbcTypeOK
<1> QED BY Zenon, <1>1, <1>2, <1>3, <1>4, <1>5

\* The parts of a packet, and what it carries.
LEMMA PacketParts ==
    ASSUME NEW p \in PacketTypes
    PROVE  /\ p.ch \in Channels /\ p.denom \in IbcDenoms /\ p.amount \in Nat /\ p.user \in Senders
           /\ p.amount \in Int /\ Own(p) \in BOOLEAN
           /\ \A ch, d : Carried(p, ch, d) = At(ch, d, p.ch, p.denom, p.amount)
BY Zenon, IntegersClosed DEF PacketTypes, Own, Carried, At

\* A coin of this chain is no voucher of the channel it goes over; a voucher goes
\* back over its own channel, and nothing is owed for it.
LEMMA VoucherOrOwn ==
    ASSUME NEW c0 \in Channels, NEW d0 \in IbcDenoms, NEW n \in Int, NEW ch \in Channels
    PROVE  /\ d0 # Voucher[c0] => At(ch, Voucher[ch], c0, d0, n) = 0
           /\ d0 = Voucher[c0] => /\ At(ch, Voucher[ch], c0, d0, n) = IF ch = c0 THEN n ELSE 0
                                  /\ (Voucher[ch] = d0) <=> (ch = c0)
                                  /\ \A d \in IbcDenoms \ {Voucher[ch]} : At(ch, d, c0, d0, n) = 0
BY Zenon, ChannelsAssumption DEF At

\* The packets are well formed after a step, and n more of d0 is on its way over
\* channel c0.
FlightOK(c0, d0, n) ==
    /\ IsFiniteSet(packets') /\ packets' \subseteq PacketTypes
    /\ sequence' \in Nat /\ \A q \in packets' : q.seq < sequence'
    /\ \A q \in packets' : q.out => UnitDenom[q.denom] = q.denom
    /\ \A ch \in Channels : \A d \in IbcDenoms :
           Flying(packets', ch, d) = Flying(packets, ch, d) + At(ch, d, c0, d0, n)

\* Coins that get from abroad into a packet, or back: nothing changes here.
LEMMA AbroadStep ==
    ASSUME IbcInv, NEW c0 \in Channels, NEW d0 \in IbcDenoms, NEW n \in Int, NEW own \in BOOLEAN,
           own <=> d0 # Voucher[c0], FlightOK(c0, d0, n),
           abroad' = IF own THEN Add(abroad, c0, d0, -n) ELSE abroad,
           foreign' = IF own THEN foreign ELSE [foreign EXCEPT ![c0] = @ + n],
           wallet' = wallet, escrow' = escrow
    PROVE  IbcInv'
<1>1. IbcTypeOK
    BY Zenon DEF IbcInv
<1>2. /\ abroad' \in Banks(Channels)
      /\ \A ch \in Channels : \A d \in IbcDenoms :
             abroad'[ch][d] = abroad[ch][d] + (IF own THEN At(ch, d, c0, d0, -n) ELSE 0)
    <2>1. abroad \in Banks(Channels) /\ IsFiniteSet(Channels)
        BY Zenon, <1>1, ChannelsAssumption DEF IbcTypeOK
    <2>2. PICK m \in Int : m = -n
        BY Zenon, IntegersClosed
    <2>3. abroad' = IF own THEN Add(abroad, c0, d0, m) ELSE abroad
        BY Zenon, <2>2
    <2>4. /\ abroad' \in Banks(Channels)
          /\ \A ch \in Channels : \A d \in IbcDenoms :
                 abroad'[ch][d] = abroad[ch][d] + (IF own THEN At(ch, d, c0, d0, m) ELSE 0)
        BY ONLY c0 \in Channels, d0 \in IbcDenoms, own \in BOOLEAN, m \in Int, <2>1, <2>3, AddIf
    <2> QED BY Zenon, <2>2, <2>4
<1>3. foreign' \in [Channels -> Int]
    BY Zenon, IntegersClosed, <1>1 DEF IbcTypeOK
<1>4. IbcTypeOK'
    BY Zenon, <1>1, <1>2, <1>3 DEF IbcTypeOK, FlightOK
<1>5. \A ch \in Channels : \A d \in IbcDenoms : Flying(packets, ch, d) \in Int /\ abroad[ch][d] \in Int
    BY Zenon, IntegersClosed, <1>1, FlyingNat DEF IbcTypeOK, Banks
<1>6. EscrowCovers'
    <2>1. ASSUME NEW ch \in Channels, NEW d \in IbcDenoms \ {Voucher[ch]}
          PROVE  abroad'[ch][d] + Flying(packets', ch, d) = abroad[ch][d] + Flying(packets, ch, d)
        <3>1. ~own => At(ch, d, c0, d0, n) = 0
            BY VoucherOrOwn
        <3>2. At(ch, d, c0, d0, n) \in Int /\ At(ch, d, c0, d0, -n) = -At(ch, d, c0, d0, n)
            BY DEF At
        <3>3. Flying(packets', ch, d) = Flying(packets, ch, d) + At(ch, d, c0, d0, n)
            BY Zenon DEF FlightOK
        <3>4. abroad'[ch][d] = abroad[ch][d] + (IF own THEN At(ch, d, c0, d0, -n) ELSE 0)
            BY Zenon, <1>2
        <3>5. Flying(packets, ch, d) \in Int /\ abroad[ch][d] \in Int
            BY Zenon, <1>5
        <3> QED BY ONLY own \in BOOLEAN, <3>1, <3>2, <3>3, <3>4, <3>5
    <2> QED BY Zenon, <1>4, <2>1, EscrowSame
<1>7. VouchersBacked'
    <2>1. ASSUME NEW ch \in Channels
          PROVE  \E b \in Int, c \in Int, e \in Int :
                   /\ Flying(packets', ch, Voucher[ch]) = Flying(packets, ch, Voucher[ch]) + b
                   /\ Across(wallet', Senders, Voucher[ch]) = Across(wallet, Senders, Voucher[ch]) + c
                   /\ Across(escrow', Channels, Voucher[ch]) = Across(escrow, Channels, Voucher[ch]) + e
                   /\ foreign'[ch] = foreign[ch] + b + c + e
        <3> DEFINE v == Voucher[ch]
                   b == At(ch, v, c0, d0, n)
        <3>1. v \in IbcDenoms /\ IsFiniteSet(Senders) /\ IsFiniteSet(Channels)
            BY Zenon, ChannelsAssumption DEF IbcDenoms
        <3>2. b \in Int
            BY Zenon, IntegersClosed DEF At
        <3>3. Flying(packets', ch, v) = Flying(packets, ch, v) + b
            BY Zenon, <3>1 DEF FlightOK
        <3>4. Across(wallet, Senders, v) \in Int /\ Across(escrow, Channels, v) \in Int
            BY Zenon, <1>1, <3>1, AcrossInt DEF IbcTypeOK
        <3>5. foreign'[ch] = foreign[ch] + b /\ foreign[ch] \in Int
            BY <1>1, VoucherOrOwn DEF IbcTypeOK
        <3> HIDE DEF b, v
        <3>6. /\ Across(wallet', Senders, v) = Across(wallet, Senders, v) + 0
              /\ Across(escrow', Channels, v) = Across(escrow, Channels, v) + 0
              /\ foreign'[ch] = foreign[ch] + b + 0 + 0
            BY Zenon, IntegersClosed, <3>2, <3>4, <3>5
        <3> QED BY <3>2, <3>3, <3>6 DEF v
    <2> QED BY Zenon, <2>1, BackedStep
<1> QED BY Zenon, <1>4, <1>6, <1>7 DEF IbcInv

\* Coins that a user sends, or gets back: they are no aliases, and what the
\* escrow gains is owed.
LEMMA TakeOutStep ==
    ASSUME IbcInv, NEW c0 \in Channels, NEW d0 \in IbcDenoms, NEW n \in Int, NEW u \in Senders,
           NEW own \in BOOLEAN, own <=> d0 # Voucher[c0], UnitDenom[d0] = d0, FlightOK(c0, d0, n),
           wallet' = Add(wallet, u, d0, -n),
           escrow' = IF own THEN Add(escrow, c0, d0, n) ELSE escrow,
           abroad' = abroad, foreign' = foreign
    PROVE  IbcInv'
<1>1. /\ IbcTypeOK /\ wallet \in Banks(Senders) /\ escrow \in Banks(Channels)
      /\ IsFiniteSet(Senders) /\ IsFiniteSet(Channels)
    BY Zenon, ChannelsAssumption DEF IbcInv, IbcTypeOK
<1>2. PICK m \in Int : m = -n
    BY Zenon, IntegersClosed
<1>3. /\ wallet' \in Banks(Senders)
      /\ \A e \in IbcDenoms : Across(wallet', Senders, e) = Across(wallet, Senders, e) + (IF e = d0 THEN m ELSE 0)
    <2>1. wallet' = Add(wallet, u, d0, m)
        BY Zenon, <1>2
    <2> QED BY ONLY u \in Senders, d0 \in IbcDenoms, m \in Int, <1>1, <2>1, AddAt, AcrossAdd
<1>4. /\ escrow' \in Banks(Channels)
      /\ \A ch \in Channels : \A d \in IbcDenoms :
             escrow'[ch][d] = escrow[ch][d] + (IF own THEN At(ch, d, c0, d0, n) ELSE 0)
      /\ \A e \in IbcDenoms : Across(escrow', Channels, e)
                               = Across(escrow, Channels, e) + (IF own /\ e = d0 THEN n ELSE 0)
    <2>1. escrow' = IF own THEN Add(escrow, c0, d0, n) ELSE escrow
        BY Zenon
    <2> QED BY ONLY c0 \in Channels, d0 \in IbcDenoms, own \in BOOLEAN, n \in Int, <1>1, <2>1, AddIf
<1>5. IbcTypeOK'
    BY Zenon, <1>1, <1>3, <1>4 DEF IbcTypeOK, FlightOK
<1>6. \A ch \in Channels : \A d \in IbcDenoms :
          Flying(packets, ch, d) \in Int /\ abroad[ch][d] \in Int /\ escrow[ch][d] \in Int
    BY <1>1, FlyingNat DEF IbcTypeOK, Banks
<1>7. EscrowCovers'
    <2>1. ASSUME NEW ch \in Channels, NEW d \in IbcDenoms \ {Voucher[ch]}
          PROVE  /\ abroad'[ch][d] + Flying(packets', ch, d)
                      = abroad[ch][d] + Flying(packets, ch, d) - At(ch, d, c0, d0, m)
                 /\ escrow'[ch][d] >= escrow[ch][d] - At(ch, d, c0, d0, m)
                                         - At(ch, d, c0, UnitDenom[d0], Worth(d0, m))
        <3>1. ~own => At(ch, d, c0, d0, n) = 0
            BY VoucherOrOwn
        <3>2. At(ch, d, c0, d0, n) \in Int /\ At(ch, d, c0, d0, m) = -At(ch, d, c0, d0, n)
            BY <1>2 DEF At
        <3>3. At(ch, d, c0, UnitDenom[d0], Worth(d0, m)) = 0
            BY Zenon DEF At, Worth
        <3>4. /\ Flying(packets', ch, d) = Flying(packets, ch, d) + At(ch, d, c0, d0, n)
              /\ abroad'[ch][d] = abroad[ch][d]
            BY Zenon DEF FlightOK
        <3>5. escrow'[ch][d] = escrow[ch][d] + (IF own THEN At(ch, d, c0, d0, n) ELSE 0)
            BY Zenon, <1>4
        <3>6. Flying(packets, ch, d) \in Int /\ abroad[ch][d] \in Int /\ escrow[ch][d] \in Int
            BY Zenon, <1>6
        <3>7. abroad'[ch][d] + Flying(packets', ch, d)
                  = abroad[ch][d] + Flying(packets, ch, d) - At(ch, d, c0, d0, m)
            BY ONLY SMT, <3>2, <3>4, <3>6
        <3>8. escrow'[ch][d] >= escrow[ch][d] - At(ch, d, c0, d0, m)
                                    - At(ch, d, c0, UnitDenom[d0], Worth(d0, m))
            BY ONLY SMT, own \in BOOLEAN, <3>1, <3>2, <3>3, <3>5, <3>6
        <3> QED BY Zenon, <3>7, <3>8
    <2> QED BY Zenon, <1>5, <2>1, EscrowStep
<1>8. VouchersBacked'
    <2>1. ASSUME NEW ch \in Channels
          PROVE  \E b \in Int, c \in Int, e \in Int :
                   /\ Flying(packets', ch, Voucher[ch]) = Flying(packets, ch, Voucher[ch]) + b
                   /\ Across(wallet', Senders, Voucher[ch]) = Across(wallet, Senders, Voucher[ch]) + c
                   /\ Across(escrow', Channels, Voucher[ch]) = Across(escrow, Channels, Voucher[ch]) + e
                   /\ foreign'[ch] = foreign[ch] + b + c + e
        <3> DEFINE v == Voucher[ch]
                   b == At(ch, v, c0, d0, n)
                   c == IF v = d0 THEN m ELSE 0
                   e == IF own /\ v = d0 THEN n ELSE 0
        <3>1. v \in IbcDenoms
            BY Zenon DEF IbcDenoms
        <3>2. b \in Int /\ c \in Int /\ e \in Int
            BY Zenon, IntegersClosed DEF At
        <3>3. b + c + e = 0
            BY <1>2, VoucherOrOwn DEF At
        <3>4. Flying(packets', ch, v) = Flying(packets, ch, v) + b
            BY Zenon, <3>1 DEF FlightOK
        <3>5. /\ Across(wallet', Senders, v) = Across(wallet, Senders, v) + c
              /\ Across(escrow', Channels, v) = Across(escrow, Channels, v) + e
            BY Zenon, <1>3, <1>4, <3>1
        <3>6. foreign[ch] \in Int /\ foreign'[ch] = foreign[ch]
            BY Zenon, <1>1 DEF IbcTypeOK
        <3> HIDE DEF b, c, e, v
        <3>7. foreign'[ch] = foreign[ch] + b + c + e
            BY ONLY <3>2, <3>3, <3>6
        <3> QED BY Zenon, <3>2, <3>4, <3>5, <3>7 DEF v
    <2> QED BY Zenon, <2>1, BackedStep
<1> QED BY Zenon, <1>5, <1>7, <1>8 DEF IbcInv

\* A packet that comes in: the user is paid, in the coin that an alias stands
\* for, out of the escrow unless it brings a voucher.
LEMMA PayStep ==
    ASSUME IbcInv, NEW p \in packets, Pay(p), packets' = packets \ {p}, sequence' = sequence,
           abroad' = abroad, foreign' = foreign, FlightOK(p.ch, p.denom, -p.amount)
    PROVE  IbcInv'
<1>1. /\ IbcTypeOK /\ wallet \in Banks(Senders) /\ escrow \in Banks(Channels)
      /\ IsFiniteSet(Senders) /\ IsFiniteSet(Channels) /\ p \in PacketTypes
    BY Zenon, ChannelsAssumption DEF IbcInv, IbcTypeOK
<1>2. PICK c0 \in Channels, d0 \in IbcDenoms, n \in Nat, u \in Senders, own \in BOOLEAN :
          /\ c0 = p.ch /\ d0 = p.denom /\ n = p.amount /\ u = p.user /\ own = Own(p)
          /\ own <=> d0 # Voucher[c0]
    BY Zenon, <1>1, PacketParts DEF Own
<1>3. PICK m \in Int : m = -n
    BY Zenon, IntegersClosed
<1>4. FlightOK(c0, d0, m)
    BY Zenon, <1>2, <1>3
<1>5. PICK es1 : es1 = IF own THEN Add(escrow, c0, d0, m) ELSE escrow
    BY Zenon
<1>6. /\ es1 \in Banks(Channels)
      /\ \A ch \in Channels : \A d \in IbcDenoms :
             es1[ch][d] = escrow[ch][d] + (IF own THEN At(ch, d, c0, d0, m) ELSE 0)
      /\ \A e \in IbcDenoms : Across(es1, Channels, e)
                               = Across(escrow, Channels, e) + (IF own /\ e = d0 THEN m ELSE 0)
    BY ONLY c0 \in Channels, d0 \in IbcDenoms, own \in BOOLEAN, m \in Int, <1>1, <1>5, AddIf
\* The coin that is paid out, how much of it, and how much beyond d0 leaves the escrow.
<1>7. PICK d1 \in IbcDenoms, k \in Int, conv \in BOOLEAN :
          /\ conv => own /\ UnitDenom[d0] # d0
          /\ d1 = (IF conv THEN UnitDenom[d0] ELSE d0) /\ k = (IF conv THEN Converted(d0, n) ELSE n)
          /\ wallet' = Add(wallet, u, d1, k)
          /\ escrow' = IF conv THEN Add(es1, c0, d1, -k) ELSE es1
    <2>1. UnitDenom[d0] \in IbcDenoms /\ Converted(d0, n) \in Int
        BY Zenon, IntegersClosed, AliasAssumption, ConvertedDiff
    <2>2. CASE Converts(d0)
        <3>1. UnitDenom[d0] # d0
            BY <2>2, AliasAssumption DEF Converts
        <3>2. own
            BY Zenon, <3>1, <1>2, AliasAssumption, ChannelsAssumption
        <3>3. /\ wallet' = Add(wallet, u, UnitDenom[d0], Converted(d0, n))
              /\ escrow' = Add(es1, c0, UnitDenom[d0], -Converted(d0, n))
            BY Zenon, <1>2, <1>3, <1>5, <2>2 DEF Pay
        <3> UnitDenom[d0] \in IbcDenoms /\ Converted(d0, n) \in Int
            BY Zenon, <2>1
        <3> WITNESS UnitDenom[d0] \in IbcDenoms, Converted(d0, n) \in Int, TRUE \in BOOLEAN
        <3> QED BY Zenon, <3>1, <3>2, <3>3
    <2>3. CASE ~Converts(d0)
        <3>1. wallet' = Add(wallet, u, d0, n) /\ escrow' = es1
            BY Zenon, <1>2, <1>3, <1>5, <2>3 DEF Pay
        <3> n \in Int
            BY Zenon, IntegersClosed
        <3> WITNESS d0 \in IbcDenoms, n \in Int, FALSE \in BOOLEAN
        <3> QED BY Zenon, <3>1
    <2> QED BY Zenon, <2>2, <2>3
<1>8. PICK j \in Int : j = -k
    BY Zenon, IntegersClosed
<1>9. /\ wallet' \in Banks(Senders)
      /\ \A e \in IbcDenoms : Across(wallet', Senders, e) = Across(wallet, Senders, e) + (IF e = d1 THEN k ELSE 0)
    <2>1. wallet' = Add(wallet, u, d1, k)
        BY Zenon, <1>7
    <2> QED BY ONLY u \in Senders, d1 \in IbcDenoms, k \in Int, <1>1, <2>1, AddAt, AcrossAdd
<1>10. /\ escrow' \in Banks(Channels)
       /\ \A ch \in Channels : \A d \in IbcDenoms :
              escrow'[ch][d] = es1[ch][d] + (IF conv THEN At(ch, d, c0, d1, j) ELSE 0)
       /\ \A e \in IbcDenoms : Across(escrow', Channels, e)
                               = Across(es1, Channels, e) + (IF conv /\ e = d1 THEN j ELSE 0)
    <2>1. escrow' = IF conv THEN Add(es1, c0, d1, j) ELSE es1
        BY Zenon, <1>7, <1>8
    <2> QED BY ONLY c0 \in Channels, d1 \in IbcDenoms, conv \in BOOLEAN, j \in Int, <1>1, <1>6, <2>1, AddIf
<1>11. IbcTypeOK'
    BY Zenon, <1>1, <1>4, <1>9, <1>10 DEF IbcTypeOK, FlightOK
<1>12. \A ch \in Channels : \A d \in IbcDenoms :
           Flying(packets, ch, d) \in Int /\ abroad[ch][d] \in Int /\ escrow[ch][d] \in Int
    BY <1>1, FlyingNat DEF IbcTypeOK, Banks
<1>13. EscrowCovers'
    <2>1. ASSUME NEW ch \in Channels, NEW d \in IbcDenoms \ {Voucher[ch]}
          PROVE  /\ abroad'[ch][d] + Flying(packets', ch, d)
                      = abroad[ch][d] + Flying(packets, ch, d) - At(ch, d, c0, d0, n)
                 /\ escrow'[ch][d] >= escrow[ch][d] - At(ch, d, c0, d0, n)
                                         - At(ch, d, c0, UnitDenom[d0], Worth(d0, n))
        <3> DEFINE w == At(ch, d, c0, UnitDenom[d0], Worth(d0, n))
        <3>1. ~own => At(ch, d, c0, d0, n) = 0
            BY <1>2, VoucherOrOwn
        <3>2. At(ch, d, c0, d0, n) \in Int /\ At(ch, d, c0, d0, m) = -At(ch, d, c0, d0, n)
            BY <1>3 DEF At
        <3>3. w \in Int /\ w >= 0
            BY ConvertedDiff DEF At, Worth
        <3>4. conv => At(ch, d, c0, d1, j) = -w
            BY <1>7, <1>8 DEF At, Worth
        <3>5. /\ Flying(packets', ch, d) = Flying(packets, ch, d) + At(ch, d, c0, d0, m)
              /\ abroad'[ch][d] = abroad[ch][d]
            BY Zenon, <1>4 DEF FlightOK
        <3>6. /\ es1[ch][d] = escrow[ch][d] + (IF own THEN At(ch, d, c0, d0, m) ELSE 0)
              /\ escrow'[ch][d] = es1[ch][d] + (IF conv THEN At(ch, d, c0, d1, j) ELSE 0)
            BY Zenon, <1>6, <1>10
        <3>7. Flying(packets, ch, d) \in Int /\ abroad[ch][d] \in Int /\ escrow[ch][d] \in Int
            BY Zenon, <1>12
        <3> HIDE DEF w
        <3>8. abroad'[ch][d] + Flying(packets', ch, d)
                  = abroad[ch][d] + Flying(packets, ch, d) - At(ch, d, c0, d0, n)
            BY ONLY Zenon, SMT, <3>2, <3>5, <3>7
        <3>9. es1[ch][d] \in Int /\ es1[ch][d] = escrow[ch][d] - At(ch, d, c0, d0, n)
            BY ONLY SMT, own \in BOOLEAN, <3>1, <3>2, <3>6, <3>7
        <3>10. escrow'[ch][d] >= es1[ch][d] - w
            BY ONLY SMT, conv \in BOOLEAN, <3>3, <3>4, <3>6, <3>9
        <3>11. escrow'[ch][d] >= escrow[ch][d] - At(ch, d, c0, d0, n) - w
            BY Zenon, <3>9, <3>10
        <3> QED BY Zenon, <3>8, <3>11 DEF w
    <2>2. n \in Int
        BY Zenon, IntegersClosed
    <2> QED BY Zenon, <1>11, <2>1, <2>2, EscrowStep
<1>14. VouchersBacked'
    <2>1. ASSUME NEW ch \in Channels
          PROVE  \E b \in Int, c \in Int, e \in Int :
                   /\ Flying(packets', ch, Voucher[ch]) = Flying(packets, ch, Voucher[ch]) + b
                   /\ Across(wallet', Senders, Voucher[ch]) = Across(wallet, Senders, Voucher[ch]) + c
                   /\ Across(escrow', Channels, Voucher[ch]) = Across(escrow, Channels, Voucher[ch]) + e
                   /\ foreign'[ch] = foreign[ch] + b + c + e
        <3> DEFINE v == Voucher[ch]
                   b == At(ch, v, c0, d0, m)
                   c == IF v = d1 THEN k ELSE 0
                   e1 == IF own /\ v = d0 THEN m ELSE 0
                   e2 == IF conv /\ v = d1 THEN j ELSE 0
                   e == e1 + e2
        <3>1. v \in IbcDenoms
            BY Zenon DEF IbcDenoms
        <3>2. b \in Int /\ c \in Int /\ e1 \in Int /\ e2 \in Int /\ e \in Int
            BY Zenon, IntegersClosed DEF At
        <3>3. b + c + e = 0
            <4>1. own => b = 0
                BY <1>2, VoucherOrOwn
            <4>2. ~own => b = (IF ch = c0 THEN m ELSE 0) /\ (v = d0 <=> ch = c0)
                BY <1>2, VoucherOrOwn
            <4>3. CASE conv
                <5>1. own /\ e1 = 0
                    BY <1>7, <4>3, AliasAssumption, ChannelsAssumption
                <5>2. c + e2 = 0
                    BY <1>8, <4>3
                <5> HIDE DEF b, c, e1, e2
                <5> QED BY <3>2, <4>1, <5>1, <5>2
            <4>4. CASE ~conv
                <5>1. d1 = d0 /\ k = n /\ e2 = 0
                    BY Zenon, <1>7, <4>4
                <5> QED BY <1>3, <4>1, <4>2, <5>1
            <4> QED BY Zenon, <4>3, <4>4
        <3>4. Flying(packets', ch, v) = Flying(packets, ch, v) + b
            BY Zenon, <1>4, <3>1 DEF FlightOK
        <3>5. /\ Across(wallet', Senders, v) = Across(wallet, Senders, v) + c
              /\ Across(escrow', Channels, v) = Across(escrow, Channels, v) + e1 + e2
            BY Zenon, <1>6, <1>9, <1>10, <3>1
        <3>6. foreign[ch] \in Int /\ foreign'[ch] = foreign[ch] /\ Across(escrow, Channels, v) \in Int
            BY Zenon, <1>1, <3>1, AcrossInt DEF IbcTypeOK
        <3> HIDE DEF b, c, e1, e2, e, v
        <3>7. Across(escrow', Channels, v) = Across(escrow, Channels, v) + e
            BY ONLY <3>2, <3>5, <3>6 DEF e
        <3>8. foreign'[ch] = foreign[ch] + b + c + e
            <4>1. PICK x \in Int, y \in Int, z \in Int : x = b /\ y = c /\ z = e
                BY Zenon, <3>2
            <4>2. x + y + z = 0
                BY Zenon, <3>3, <4>1
            <4>3. foreign[ch] = foreign[ch] + x + y + z
                BY ONLY <3>6, <4>2
            <4> QED BY Zenon, <3>6, <4>1, <4>3
        <3> QED BY Zenon, <3>2, <3>4, <3>5, <3>7, <3>8 DEF v
    <2> QED BY Zenon, <2>1, BackedStep
<1> QED BY Zenon, <1>11, <1>13, <1>14 DEF IbcInv

\* Sending a packet, and settling one.
LEMMA SendFlight ==
    ASSUME IbcTypeOK, NEW p \in PacketTypes, p.seq = sequence, Enqueue(p),
           p.out => UnitDenom[p.denom] = p.denom
    PROVE  FlightOK(p.ch, p.denom, p.amount)
BY Zenon, Sends, PacketParts DEF FlightOK

\* A packet that is acknowledged or times out no longer counts as in flight.
LEMMA SettleFlight ==
    ASSUME IbcTypeOK, NEW p \in packets, packets' = packets \ {p}, sequence' = sequence
    PROVE  FlightOK(p.ch, p.denom, -p.amount)
<1>1. p \in PacketTypes /\ p.amount \in Int /\ IsFiniteSet(packets) /\ packets \subseteq PacketTypes
    BY Zenon, PacketParts DEF IbcTypeOK
<1>2. ASSUME NEW ch \in Channels, NEW d \in IbcDenoms
      PROVE  Flying(packets', ch, d) = Flying(packets, ch, d) + At(ch, d, p.ch, p.denom, -p.amount)
    <2>1. Flying(packets', ch, d) = Flying(packets, ch, d) - Carried(p, ch, d)
        BY Zenon, Settles
    <2>2. Flying(packets, ch, d) \in Int
        BY Zenon, IntegersClosed, <1>1, FlyingNat
    <2>3. Carried(p, ch, d) \in Int /\ At(ch, d, p.ch, p.denom, -p.amount) = -Carried(p, ch, d)
        BY <1>1 DEF Carried, At
    <2> QED BY ONLY Zenon, <2>1, <2>2, <2>3
<1> QED BY Zenon, <1>2, Settles DEF FlightOK

\* Every step of x/ibctransfer, of the other chains and of the administrators
\* keeps the invariant.
LEMMA IbcStep ==
    ASSUME IbcInv, [IbcNext]_ibcVars
    PROVE  IbcInv'
<1>t. /\ IbcTypeOK /\ wallet \in Banks(Senders) /\ abroad \in Banks(Channels)
      /\ foreign \in [Channels -> Int]
    BY Zenon DEF IbcInv, IbcTypeOK
<1>1. ASSUME NEW u \in Senders, NEW ch \in Channels, NEW d \in IbcDenoms, NEW n \in 1 .. wallet[u][d],
             Transfer(u, ch, d, n)
      PROVE  IbcInv'
    <2>1. PICK p : p = Packet(TRUE, ch, d, n, u)
        BY Zenon
    <2>2. n \in Nat /\ n \in Int
        BY <1>t DEF Banks
    <2>3. /\ p \in PacketTypes /\ p.seq = sequence /\ p.out /\ p.ch = ch /\ p.denom = d
          /\ p.amount = n /\ p.user = u
        BY Zenon, <1>t, <2>1, <2>2 DEF Packet, PacketTypes, IbcTypeOK
    <2>4. UnitDenom[d] = d /\ Enqueue(p) /\ TakeOut(p, n) /\ abroad' = abroad /\ foreign' = foreign
        BY Zenon, <1>1, <2>1 DEF Transfer
    <2>5. FlightOK(ch, d, n)
        BY Zenon, <1>t, <2>3, <2>4, SendFlight
    <2>6. PICK own \in BOOLEAN : own = Own(p) /\ (own <=> d # Voucher[ch])
        BY Zenon, <2>3 DEF Own
    <2>7. wallet' = Add(wallet, u, d, -n) /\ escrow' = IF own THEN Add(escrow, ch, d, n) ELSE escrow
        BY Zenon, <2>3, <2>4, <2>6 DEF TakeOut
    <2> QED BY Zenon, <2>2, <2>4, <2>5, <2>6, <2>7, TakeOutStep
<1>2. ASSUME NEW p \in packets, abroad' = IF Own(p) THEN Add(abroad, p.ch, p.denom, p.amount) ELSE abroad,
             foreign' = IF Own(p) THEN foreign ELSE [foreign EXCEPT ![p.ch] = @ - p.amount],
             packets' = packets \ {p}, sequence' = sequence, wallet' = wallet, escrow' = escrow
      PROVE  IbcInv'
    <2>1. p \in PacketTypes
        BY Zenon, <1>t DEF IbcTypeOK
    <2>2. PICK c0 \in Channels, d0 \in IbcDenoms, n \in Int, own \in BOOLEAN :
              /\ c0 = p.ch /\ d0 = p.denom /\ n = -p.amount /\ own = Own(p) /\ (own <=> d0 # Voucher[c0])
        <3>1. p.ch \in Channels /\ p.denom \in IbcDenoms /\ p.amount \in Int
            BY Zenon, <2>1, PacketParts
        <3>2. -p.amount \in Int
            BY Zenon, IntegersClosed, <3>1
        <3>3. Own(p) \in BOOLEAN /\ (Own(p) <=> p.denom # Voucher[p.ch])
            BY Zenon DEF Own
        <3> QED BY ONLY Zenon, <3>1, <3>2, <3>3, Zenon
    <2>3. FlightOK(c0, d0, n)
        BY Zenon, <1>t, <1>2, <2>2, SettleFlight
    <2>4. p.amount = -n /\ p.amount \in Int
        BY <2>1, <2>2, PacketParts
    <2>5. abroad' = IF own THEN Add(abroad, c0, d0, -n) ELSE abroad
        BY Zenon, <1>2, <2>2, <2>4
    <2>6. foreign' = IF own THEN foreign ELSE [foreign EXCEPT ![c0] = @ + n]
        BY Zenon, <1>2, <1>t, <2>2, <2>4
    <2> QED BY Zenon, <1>2, <2>2, <2>3, <2>5, <2>6, AbroadStep
<1>3. ASSUME NEW p \in packets, p.out, Refund(p)
      PROVE  IbcInv'
    <2>1. p \in PacketTypes /\ UnitDenom[p.denom] = p.denom
        BY Zenon, <1>3, <1>t DEF IbcTypeOK
    <2>2. PICK c0 \in Channels, d0 \in IbcDenoms, n \in Int, u \in Senders, own \in BOOLEAN :
              /\ c0 = p.ch /\ d0 = p.denom /\ n = -p.amount /\ u = p.user
              /\ own = Own(p) /\ (own <=> d0 # Voucher[c0])
        <3>1. p.ch \in Channels /\ p.denom \in IbcDenoms /\ p.amount \in Int /\ p.user \in Senders
            BY Zenon, <2>1, PacketParts
        <3>2. -p.amount \in Int
            BY Zenon, IntegersClosed, <3>1
        <3>3. Own(p) \in BOOLEAN /\ (Own(p) <=> p.denom # Voucher[p.ch])
            BY Zenon DEF Own
        <3> QED BY ONLY Zenon, <3>1, <3>2, <3>3, Zenon
    <2>3. FlightOK(c0, d0, n)
        BY Zenon, <1>t, <1>3, <2>2, SettleFlight DEF Refund
    <2>4. /\ wallet' = Add(wallet, u, d0, -n) /\ escrow' = IF own THEN Add(escrow, c0, d0, n) ELSE escrow
          /\ abroad' = abroad /\ foreign' = foreign
        BY Zenon, <1>3, <2>2 DEF Refund, TakeOut
    <2> QED BY Zenon, <2>1, <2>2, <2>3, <2>4, TakeOutStep
<1>4. ASSUME NEW u \in Senders, NEW ch \in Channels, NEW d \in IbcDenoms, NEW n \in Nat, SendHere(u, ch, d, n)
      PROVE  IbcInv'
    <2>1. PICK p : p = Packet(FALSE, ch, d, n, u)
        BY Zenon
    <2>2. /\ p \in PacketTypes /\ p.seq = sequence /\ ~p.out /\ p.ch = ch /\ p.denom = d
          /\ p.amount = n /\ p.user = u /\ n \in Int
        BY Zenon, IntegersClosed, <1>t, <2>1 DEF Packet, PacketTypes, IbcTypeOK
    <2>3. PICK own \in BOOLEAN : own = Own(p) /\ (own <=> d # Voucher[ch])
        BY Zenon, <2>2 DEF Own
    <2>4. /\ Enqueue(p) /\ abroad' = (IF own THEN Add(abroad, ch, d, -n) ELSE abroad)
          /\ foreign' = (IF own THEN foreign ELSE [foreign EXCEPT ![ch] = @ + n])
          /\ wallet' = wallet /\ escrow' = escrow
        BY Zenon, <1>4, <2>1, <2>3 DEF SendHere
    <2>5. FlightOK(ch, d, n)
        BY Zenon, <1>t, <2>2, <2>4, SendFlight
    <2> QED BY Zenon, <2>2, <2>3, <2>4, <2>5, AbroadStep
<1>5. ASSUME NEW p \in packets, ~p.out, OnRecvPacketWhitelistConvert(p), Receivable(p)
      PROVE  IbcInv'
    <2>1. /\ Pay(p) /\ packets' = packets \ {p} /\ sequence' = sequence
          /\ abroad' = abroad /\ foreign' = foreign
        BY Zenon, <1>5 DEF OnRecvPacketWhitelistConvert
    <2> QED BY Zenon, <1>t, <2>1, SettleFlight, PayStep
<1>6. ASSUME UNCHANGED coinVars
      PROVE  IbcInv'
    BY Zenon, <1>6 DEF IbcInv, IbcTypeOK, EscrowCovers, VouchersBacked, Owed, OwedForAliases, InFlight, coinVars
<1>7. ASSUME NEW p \in packets, Arrives(p) \/ (SentBack(p) /\ UNCHANGED <<wallet, escrow>>)
      PROVE  IbcInv'
    BY Zenon, <1>2, <1>7 DEF Arrives, SentBack
<1>8. CASE Leaving
    BY Zenon, <1>1, <1>3, <1>7, <1>8 DEF Leaving
<1>9. CASE Coming
    <2>1. \A ch \in Channels : Voucher[ch] \in IbcDenoms
        BY Zenon DEF IbcDenoms
    <2>2. ASSUME NEW u \in Senders, NEW ch \in Channels, NEW d \in IbcDenoms, NEW n \in 1 .. abroad[ch][d],
                 SendHere(u, ch, d, n)
          PROVE  IbcInv'
        <3>1. n \in Nat
            BY <1>t DEF Banks
        <3> QED BY Zenon, <1>4, <2>2, <3>1
    <2>3. ASSUME NEW p \in packets, ~p.out, OnRecvPacketWhitelistConvert(p)
          PROVE  IbcInv'
        BY Zenon, <1>5, <1>7, <2>3 DEF OnRecvPacketWhitelistConvert
    <2> QED BY Zenon, <1>4, <1>7, <1>9, <2>1, <2>2, <2>3 DEF Coming
<1>10. CASE RegistryStep \/ UNCHANGED ibcVars
    BY Zenon, <1>6, <1>10 DEF RegistryStep, Register, Deregister, SetRegistry, ibcVars, coinVars
<1> QED BY Zenon, <1>8, <1>9, <1>10 DEF IbcNext

\* At first no packet is on its way and nobody has a voucher.
LEMMA IbcStart == IbcInit => IbcInv
<1> SUFFICES ASSUME IbcInit PROVE IbcInv
    BY Zenon
<1>1. /\ wallet = Wallet /\ escrow = Escrow /\ abroad = Abroad /\ packets = {} /\ sequence = 0
      /\ foreign = [ch \in Channels |-> 0]
    BY Zenon DEF IbcInit
<1>2. IbcTypeOK
    <2>1. wallet \in Banks(Senders) /\ escrow \in Banks(Channels) /\ abroad \in Banks(Channels)
        BY <1>1, GenesisAssumption DEF Banks
    <2>2. foreign \in [Channels -> Int] /\ sequence \in Nat
        BY Zenon, <1>1, IntegersClosed
    <2>3. IsFiniteSet(packets) /\ packets = {}
        BY Zenon, <1>1, FS_EmptySet
    <2> QED BY Zenon, <2>1, <2>2, <2>3 DEF IbcTypeOK
<1>3. \A ch, d : Flying(packets, ch, d) = 0
    BY Zenon, <1>1, SumEmpty DEF Flying
<1>4. EscrowCovers
    <2>1. ASSUME NEW ch \in Channels, NEW d \in IbcDenoms PROVE Owed(ch, d) = Abroad[ch][d]
        BY <1>1, <1>3, InFlightIs, GenesisAssumption DEF Owed
    <2>2. ASSUME NEW ch \in Channels, NEW d \in IbcDenoms
          PROVE  [a \in AliasesOf(d) |-> Converted(a, Owed(ch, a))]
                     = [a \in AliasesOf(d) |-> Abroad[ch][a] * Factor(a)]
        BY Zenon, <2>1 DEF AliasesOf, Converted
    <2> QED BY Zenon, <1>1, <2>1, <2>2, GenesisAssumption DEF EscrowCovers, OwedForAliases
<1>5. VouchersBacked
    <2> SUFFICES ASSUME NEW ch \in Channels
                 PROVE  foreign[ch] = Flying(packets, ch, Voucher[ch]) + Across(wallet, Senders, Voucher[ch])
                                      + Across(escrow, Channels, Voucher[ch])
        BY Zenon, BackedIs DEF BackedBy
    <2> DEFINE f == [u \in Senders |-> wallet[u][Voucher[ch]]]
               g == [c \in Channels |-> escrow[c][Voucher[ch]]]
    <2>1. (\A u \in Senders : f[u] = 0) /\ (\A c \in Channels : g[c] = 0)
        BY Zenon, <1>1, GenesisAssumption
    <2>2. /\ Across(wallet, Senders, Voucher[ch]) = SumFunctionOnSet(f, Senders)
          /\ Across(escrow, Channels, Voucher[ch]) = SumFunctionOnSet(g, Channels)
        BY Zenon DEF Across
    <2> HIDE DEF f, g
    <2>3. SumFunctionOnSet(f, Senders) = 0 /\ SumFunctionOnSet(g, Channels) = 0
        BY Zenon, <2>1, ChannelsAssumption, SumZero
    <2> QED BY <1>1, <1>3, <2>2, <2>3
<1> QED BY Zenon, <1>2, <1>4, <1>5 DEF IbcInv

\* A step of x/dispensation changes nothing here.
LEMMA IbcCustodyStep == IbcInv /\ [CustodyNext]_custodyVars => IbcInv'
<1> SUFFICES ASSUME IbcInv, [CustodyNext]_custodyVars PROVE IbcInv'
    BY Zenon
<1>1. [IbcNext]_ibcVars
    BY Zenon DEF CustodyNext, custodyVars
<1> QED BY Zenon, <1>1, IbcStep

\* Whatever entries come and go in the token registry, a channel's escrow covers
\* all that may come back over it, aliases at their worth included.
THEOREM EscrowAlwaysCovers == CustodySpec => []EscrowCovers
<1>1. CustodyInit => IbcInv
    BY Zenon, IbcStart DEF CustodyInit
<1>2. IbcInv => EscrowCovers
    BY Zenon DEF IbcInv
<1> QED BY <1>1, <1>2, IbcCustodyStep, PTL DEF CustodySpec

\* Every voucher here, in a wallet, in escrow or on its way back, stands for a
\* coin that the other chain keeps.
THEOREM VouchersAreBacked == CustodySpec => []VouchersBacked
<1>1. CustodyInit => IbcInv
    BY Zenon, IbcStart DEF CustodyInit
<1>2. IbcInv => VouchersBacked
    BY Zenon DEF IbcInv
<1> QED BY <1>1, <1>2, IbcCustodyStep, PTL DEF CustodySpec

=============================================================================
