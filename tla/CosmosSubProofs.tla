-------------------------- MODULE CosmosSubProofs --------------------------
(***************************************************************************)
(* Furynet to Ethereum: what every step of the goroutine CosmosSub, of     *)
(* Ethereum's pool and of the contracts it calls preserves.  The lemmas    *)
(* are in the terms of CosmosSub; the last two sections use them for the   *)
(* processes of the bridge, Relayer.                                       *)
(*                                                                         *)
(* FuryInv: a goroutine has dealt with every message of the blocks behind  *)
(* its cursor, in LevelDB and in memory, and with those before its place   *)
(* in the block it reads; a transaction it waits for is where it believes  *)
(* it to be.                                                               *)
(* ContractsOK: a prophecy is paid if and only if its votes reach the      *)
(* threshold.  PoolOK: what is in the pool or paid was asked for.          *)
(* Unpaid: the prophecies asked for and not paid.                          *)
(***************************************************************************)
EXTENDS Relayer, TLAPS

-----------------------------------------------------------------------------
(***************************************************************************)
(* The messages of Furynet's blocks.                                       *)
(***************************************************************************)
ClaimOf(m) == BurnLockEventToCosmosMsg(m)
Blocks == Append(furyChain, furyNext)

\* Every message is at one place.
Once(b) ==
    \A n, k \in DOMAIN b : \A i \in DOMAIN b[n], j \in DOMAIN b[k] : b[n][i] = b[k][j] => n = k /\ i = j

\* Messages that differ ask for prophecies that differ.
MessagesApart ==
    /\ \A m \in FuryMessages : ClaimOf(m) \in EthProphecies
    /\ \A m, n \in FuryMessages : ClaimOf(m) = ClaimOf(n) => m = n

MessagesOK ==
    /\ furyChain \in Seq(Seq(FuryMessages)) /\ furyNext \in Seq(FuryMessages)
    /\ Once(Blocks)

\* A message that is new goes into the block being made.
LEMMA OnceMore ==
    ASSUME NEW c \in Seq(Seq(FuryMessages)), NEW s \in Seq(FuryMessages), NEW m \in FuryMessages,
           Once(Append(c, s)), m \notin Emitted(Append(c, s))
    PROVE  Once(Append(c, Append(s, m)))
<1> DEFINE b == Append(c, s)
           d == Append(c, Append(s, m))
<1>1. b \in Seq(Seq(FuryMessages)) /\ d \in Seq(Seq(FuryMessages)) /\ Len(d) = Len(b)
    OBVIOUS
<1>2. \A n \in 1 .. Len(b) : \A i \in DOMAIN b[n] : b[n][i] # m
    BY SMTT(30), <1>1 DEF Emitted, In
<1>3. ASSUME NEW n \in DOMAIN d, NEW i \in DOMAIN d[n]
      PROVE  n \in DOMAIN b /\ (IF i \in DOMAIN b[n] THEN d[n][i] = b[n][i]
                                ELSE d[n][i] = m /\ n = Len(c) + 1 /\ i = Len(s) + 1)
    <2>1. n \in 1 .. Len(c) + 1
        OBVIOUS
    <2>2. CASE n <= Len(c)
        <3>1. d[n] = c[n] /\ b[n] = c[n]
            BY <2>1, <2>2
        <3> QED BY <2>1, <3>1
    <2>3. CASE n = Len(c) + 1
        <3>1. d[n] = Append(s, m) /\ b[n] = s
            BY <2>3
        <3>2. i \in 1 .. Len(s) + 1
            BY <3>1
        <3> QED BY <2>3, <3>1, <3>2
    <2> QED BY <2>1, <2>2, <2>3
<1>4. \A n \in DOMAIN b : n \in 1 .. Len(b)
    BY <1>1
<1> HIDE DEF b, d
<1>5. ASSUME NEW n \in DOMAIN d, NEW k \in DOMAIN d, NEW i \in DOMAIN d[n], NEW j \in DOMAIN d[k],
             d[n][i] = d[k][j]
      PROVE  n = k /\ i = j
    <2>1. CASE i \in DOMAIN b[n] /\ j \in DOMAIN b[k]
        <3>1. Once(b)
            BY Zenon DEF b
        <3> QED BY <1>3, <1>5, <2>1, <3>1 DEF Once
    <2>2. CASE i \notin DOMAIN b[n] /\ j \notin DOMAIN b[k]
        BY <1>3, <2>2
    <2>3. CASE i \in DOMAIN b[n] /\ j \notin DOMAIN b[k]
        BY <1>2, <1>3, <1>4, <1>5, <2>3
    <2>4. CASE i \notin DOMAIN b[n] /\ j \in DOMAIN b[k]
        BY <1>2, <1>3, <1>4, <1>5, <2>4
    <2> QED BY Zenon, <2>1, <2>2, <2>3, <2>4
<1> QED BY Zenon, <1>5 DEF Once, d

\* The next block is empty at first.
LEMMA OnceDone ==
    ASSUME NEW b \in Seq(Seq(FuryMessages)), Once(b)
    PROVE  Once(Append(b, <<>>))
<1> DEFINE d == Append(b, <<>>)
<1>1. ASSUME NEW n \in DOMAIN d, NEW i \in DOMAIN d[n]
      PROVE  n \in DOMAIN b /\ d[n] = b[n]
    <2>1. n \in 1 .. Len(b) + 1
        OBVIOUS
    <2>2. n # Len(b) + 1
        OBVIOUS
    <2> QED BY <2>1, <2>2
<1> HIDE DEF d
<1>2. Once(d)
    BY <1>1 DEF Once
<1> QED BY Zenon, <1>2 DEF d

-----------------------------------------------------------------------------
(***************************************************************************)
(* The goroutine CosmosSub.  A message that it passes is in an Ethereum    *)
(* block, in the pool, or given up; while it waits for the receipt of a    *)
(* transaction that was lost it has not passed the message.  A lost        *)
(* transaction of a message that it has passed is given up, and none of    *)
(* those is the one it waits for, because every message is at one place.   *)
(***************************************************************************)
furyState == <<furyChain, furyNext, furySub, furyCursor, furySince, ethPool, sent, givenUp>>

\* What becomes of the contracts when a transaction is mined: the call succeeds
\* or it changes nothing.
Mined(v, p) ==
    /\ <<v, p>> \in ethPool
    /\ newProphecyClaim(v, p) \/ UNCHANGED contractVars
    /\ ethPool' = ethPool \ {<<v, p>>}
    /\ sent' = sent \cup {<<v, p.id>>}
    /\ Notify(v, p, "block")
    /\ UNCHANGED <<furyChain, furyNext, furyDbVars, givenUp>>

\* The steps of the bridge, as far as CosmosSub sees them.
FuryStep ==
    \/ \E m \in FuryMessages : FuryMessage(m)
    \/ FuryBlock
    \/ \E v \in Validators : FuryRelayer(v) \/ NoReceipt(v) \/ FuryStart(v) \/ FuryStop(v)
    \/ \E q \in ethPool : Mined(q[1], q[2]) \/ LoseTx(q[1], q[2])
    \/ \E v \in setup.operators : FuryReplay(v)
    \/ UNCHANGED furyState

GoroutineTypes ==
    [pc : {"none", "down", "idle", "read", "sent"}, last : Nat, seen : Nat, pos : Nat \ {0},
     tx : {"none", "pool", "block", "lost"}]

SentOn(v, p) == <<v, p.id>> \in sent \/ <<v, p>> \in ethPool
Passed(v, p) == SentOn(v, p) \/ <<v, p>> \in givenUp

\* The messages of the blocks after a, up to b.
BlocksPassed(v, a, b) ==
    \A n \in DOMAIN furyChain : a < n /\ n <= b => \A i \in DOMAIN furyChain[n] : Passed(v, ClaimOf(furyChain[n][i]))

\* f is the state of v's goroutine, c the block that LevelDB holds.
Follows(v, f, c) ==
    /\ f.pc \in {"idle", "read", "sent"} =>
           f.last <= f.seen /\ f.seen <= Len(furyChain) /\ (c # 0 => f.last = c)
    /\ f.pc \in {"read", "sent"} /\ f.last < f.seen =>
           \A i \in DOMAIN furyChain[f.last + 1] :
               i < f.pos => Passed(v, ClaimOf(furyChain[f.last + 1][i]))
    /\ f.pc = "sent" =>
           /\ f.last < f.seen /\ f.pos \in DOMAIN furyChain[f.last + 1]
           /\ f.tx # "lost" => Passed(v, ClaimOf(furyChain[f.last + 1][f.pos]))

FuryCursorOK(v) ==
    /\ furyCursor[v] <= Len(furyChain)
    /\ BlocksPassed(v, furySince[v], furyCursor[v])
    /\ Follows(v, furySub[v], furyCursor[v])

FuryInv ==
    /\ MessagesOK
    /\ furySub \in [Validators -> GoroutineTypes]
    /\ furyCursor \in [Validators -> Nat] /\ furySince \in [Validators -> Nat]
    /\ \A v \in Validators : FuryCursorOK(v)

\* A part of a sequence, as FuryBehind takes it.
LEMMA PlaceInPart ==
    ASSUME NEW S, NEW c \in Seq(S), NEW a \in Nat, NEW b \in Nat, b <= Len(c),
           NEW n \in DOMAIN SubSeq(c, a + 1, b)
    PROVE  /\ a + n \in DOMAIN c /\ a < a + n /\ a + n <= b
           /\ SubSeq(c, a + 1, b)[n] = c[a + n]
BY SMTT(30)

\* What the invariant says about what lies behind a cursor.
LEMMA FuryInvMeans == FuryInv => FuryBehindCursorHandled
<1> SUFFICES ASSUME FuryInv, NEW v \in Validators, NEW p \in FuryBehind(v)
             PROVE  Passed(v, p)
    BY Zenon DEF FuryBehindCursorHandled, FuryBehindCursorHandled, Passed, SentOn
<1> DEFINE a == furySince[v]
           b == furyCursor[v]
           s == SubSeq(furyChain, a + 1, b)
<1>1. a \in Nat /\ b \in Nat /\ b <= Len(furyChain) /\ furyChain \in Seq(Seq(FuryMessages))
    BY Zenon DEF FuryInv, FuryCursorOK, MessagesOK
<1>2. PICK m \in Emitted(s) : p = ClaimOf(m)
    BY Zenon DEF FuryBehind, ProphecyClaims, ClaimOf
<1>3. PICK n \in DOMAIN s : m \in In(s[n])
    BY Zenon DEF Emitted
<1>4. a + n \in DOMAIN furyChain /\ a < a + n /\ a + n <= b /\ s[n] = furyChain[a + n]
    <2> HIDE DEF a, b
    <2> QED BY ONLY Zenon, <1>1, PlaceInPart, n \in DOMAIN s
<1>5. PICK i \in DOMAIN furyChain[a + n] : m = furyChain[a + n][i]
    BY Zenon, <1>3, <1>4 DEF In
<1>6. BlocksPassed(v, a, b)
    BY Zenon DEF FuryInv, FuryCursorOK
<1> QED BY Zenon, <1>2, <1>4, <1>5, <1>6 DEF BlocksPassed

\* The blocks stay, and others may follow.
Grows ==
    /\ MessagesOK' /\ Len(furyChain) <= Len(furyChain')
    /\ \A n \in DOMAIN furyChain : n \in DOMAIN furyChain' /\ furyChain'[n] = furyChain[n]

\* What v's goroutine has sent or passed stays so.
KeepsPassed(v) ==
    \A p \in EthProphecies : Passed(v, p) => Passed(v, p)'

\* A message asks for a prophecy.
LEMMA MessageTypes ==
    ASSUME MessagesApart, MessagesOK, NEW n \in DOMAIN furyChain, NEW i \in DOMAIN furyChain[n]
    PROVE  furyChain[n][i] \in FuryMessages /\ ClaimOf(furyChain[n][i]) \in EthProphecies
<1>1. furyChain[n] \in Seq(FuryMessages)
    BY DEF MessagesOK
<1>2. furyChain[n][i] \in FuryMessages
    BY <1>1
<1> QED BY Zenon, <1>2 DEF MessagesApart

\* A range of blocks stays passed.
LEMMA PassedStays ==
    ASSUME MessagesApart, MessagesOK, Grows, NEW v, KeepsPassed(v), NEW a \in Nat, NEW b \in Nat, b <= Len(furyChain),
           BlocksPassed(v, a, b)
    PROVE  BlocksPassed(v, a, b)'
<1> SUFFICES ASSUME NEW n \in DOMAIN furyChain', a < n, n <= b, NEW i \in DOMAIN furyChain'[n]
             PROVE  \E p \in EthProphecies : p = ClaimOf(furyChain'[n][i]) /\ Passed(v, p)'
    BY DEF BlocksPassed, ClaimOf, BurnLockEventToCosmosMsg, FurynetToEthereum
<1>1. n \in DOMAIN furyChain
    <2>1. furyChain' \in Seq(Seq(FuryMessages)) /\ furyChain \in Seq(Seq(FuryMessages))
        BY Zenon DEF Grows, MessagesOK
    <2> QED BY <2>1
<1>2. furyChain'[n] = furyChain[n]
    BY Zenon, <1>1 DEF Grows
<1>3. PICK p \in EthProphecies : p = ClaimOf(furyChain[n][i])
    BY Zenon, <1>1, <1>2, MessageTypes
<1>4. Passed(v, p)
    BY Zenon, <1>1, <1>2, <1>3 DEF BlocksPassed
<1>5. Passed(v, p)'
    BY Zenon, <1>4 DEF KeepsPassed
<1> QED BY Zenon, <1>2, <1>3, <1>5

\* A goroutine that does not move stays where it may be.
LEMMA FollowsStays ==
    ASSUME MessagesApart, MessagesOK, Grows, NEW v, KeepsPassed(v), NEW f \in GoroutineTypes, NEW c \in Nat,
           Follows(v, f, c)
    PROVE  Follows(v, f, c)'
<1>1. furyChain \in Seq(Seq(FuryMessages)) /\ f.last \in Nat /\ f.seen \in Nat
    BY Zenon DEF MessagesOK, GoroutineTypes
<1>2. PICK k \in Nat : k = Len(furyChain') /\ Len(furyChain) <= k
    <2>1. furyChain' \in Seq(Seq(FuryMessages)) /\ Len(furyChain) <= Len(furyChain')
        BY Zenon DEF Grows, MessagesOK
    <2> QED BY ONLY SMT, <2>1
<1>3. f.pc \in {"idle", "read", "sent"} =>
           f.last <= f.seen /\ f.seen <= Len(furyChain') /\ (c # 0 => f.last = c)
    BY <1>1, <1>2 DEF Follows
<1>4. ASSUME f.pc \in {"read", "sent"}, f.last < f.seen
      PROVE  f.last + 1 \in DOMAIN furyChain /\ furyChain'[f.last + 1] = furyChain[f.last + 1]
    <2>1. f.seen <= Len(furyChain)
        BY Zenon, <1>4 DEF Follows
    <2>2. f.last + 1 \in DOMAIN furyChain
        BY <1>1, <1>4, <2>1
    <2> QED BY Zenon, <2>2 DEF Grows
<1>5. ASSUME f.pc \in {"read", "sent"}, f.last < f.seen, NEW i \in DOMAIN furyChain'[f.last + 1], i < f.pos
      PROVE  \E p \in EthProphecies : p = ClaimOf(furyChain'[f.last + 1][i]) /\ Passed(v, p)'
    <2>1. PICK p \in EthProphecies : p = ClaimOf(furyChain[f.last + 1][i])
        BY Zenon, <1>4, <1>5, MessageTypes
    <2>2. Passed(v, p)
        BY Zenon, <1>4, <1>5, <2>1 DEF Follows
    <2>3. Passed(v, p)'
        BY Zenon, <2>2 DEF KeepsPassed
    <2> QED BY Zenon, <1>4, <1>5, <2>1, <2>3
<1>6. ASSUME f.pc = "sent"
      PROVE  /\ f.last < f.seen /\ f.pos \in DOMAIN furyChain'[f.last + 1]
             /\ f.tx # "lost" => \E p \in EthProphecies : p = ClaimOf(furyChain'[f.last + 1][f.pos]) /\ Passed(v, p)'
    <2>1. f.last < f.seen /\ f.pos \in DOMAIN furyChain[f.last + 1]
          /\ (f.tx # "lost" => Passed(v, ClaimOf(furyChain[f.last + 1][f.pos])))
        BY Zenon, <1>6 DEF Follows
    <2>2. PICK p \in EthProphecies : p = ClaimOf(furyChain[f.last + 1][f.pos])
        BY Zenon, <1>4, <1>6, <2>1, MessageTypes
    <2>3. Passed(v, p) => Passed(v, p)'
        BY Zenon DEF KeepsPassed
    <2> QED BY Zenon, <1>4, <1>6, <2>1, <2>2, <2>3
<1> QED BY Zenon, <1>3, <1>5, <1>6 DEF Follows, ClaimOf, BurnLockEventToCosmosMsg, FurynetToEthereum

\* The messages stay as they are.
LEMMA GrowsSame ==
    ASSUME MessagesApart, MessagesOK, UNCHANGED <<furyChain, furyNext>>
    PROVE  Grows
BY DEF MessagesOK, Grows, Blocks

\* The state that a goroutine is in, by its parts, now and after a step.
Parts ==
    \A w, f, a, c :
        /\ furySub[w] = f /\ furyCursor[w] = c /\ furySince[w] = a
        /\ c <= Len(furyChain) /\ BlocksPassed(w, a, c) /\ Follows(w, f, c)
        => FuryCursorOK(w)

\* FuryCursorOK follows from its parts.
LEMMA PartsNow == Parts
BY Zenon DEF Parts, FuryCursorOK

\* The same of the next state.
LEMMA PartsNext == Parts'
BY PartsNow, PTL

\* The state that a goroutine comes to.
LEMMA CursorIs ==
    ASSUME NEW w, NEW f, NEW a, NEW c, furySub'[w] = f, furyCursor'[w] = c, furySince'[w] = a,
           c <= Len(furyChain'), BlocksPassed(w, a, c)', Follows(w, f, c)'
    PROVE  FuryCursorOK(w)'
BY Zenon, PartsNext DEF Parts

\* v's goroutine moves on, and what has been passed stays so.
LEMMA MovesOnFury ==
    ASSUME MessagesApart, FuryInv, Grows, NEW v \in Validators, \A w \in Validators \ {v} : KeepsPassed(w),
           NEW g \in GoroutineTypes, NEW a \in Nat, NEW c \in Nat,
           furySub' = [furySub EXCEPT ![v] = g],
           furyCursor' = [furyCursor EXCEPT ![v] = c],
           furySince' = [furySince EXCEPT ![v] = a],
           c <= Len(furyChain'), BlocksPassed(v, a, c)', Follows(v, g, c)'
    PROVE  FuryInv'
<1>1. /\ furySub' \in [Validators -> GoroutineTypes]
      /\ furyCursor' \in [Validators -> Nat] /\ furySince' \in [Validators -> Nat]
    BY Zenon DEF FuryInv
<1>2. FuryCursorOK(v)'
    <2>1. furySub'[v] = g /\ furyCursor'[v] = c /\ furySince'[v] = a
        BY Zenon DEF FuryInv
    <2> QED BY Zenon, <2>1, CursorIs
<1>3. ASSUME NEW w \in Validators, w # v
      PROVE  FuryCursorOK(w)'
    <2>1. PICK f \in GoroutineTypes, d \in Nat, b \in Nat :
              f = furySub[w] /\ d = furyCursor[w] /\ b = furySince[w]
        BY Zenon DEF FuryInv
    <2>2. furySub'[w] = f /\ furyCursor'[w] = d /\ furySince'[w] = b
        BY Zenon, <1>3, <2>1 DEF FuryInv
    <2>3. MessagesOK /\ d <= Len(furyChain) /\ BlocksPassed(w, b, d) /\ Follows(w, f, d)
        BY Zenon, <2>1 DEF FuryInv, FuryCursorOK
    <2>4. Follows(w, f, d)' /\ BlocksPassed(w, b, d)'
        <3>1. KeepsPassed(w)
            BY Zenon, <1>3
        <3>2. Follows(w, f, d)'
            BY ONLY Zenon, MessagesApart, Grows, <2>3, <3>1, FollowsStays, f \in GoroutineTypes, d \in Nat
        <3>3. BlocksPassed(w, b, d)'
            BY ONLY Zenon, MessagesApart, Grows, <2>3, <3>1, PassedStays, b \in Nat, d \in Nat
        <3> QED BY Zenon, <3>2, <3>3
    <2>5. d <= Len(furyChain')
        <3>1. PICK k \in Nat : k = Len(furyChain') /\ Len(furyChain) <= k
            BY DEF Grows, MessagesOK
        <3>2. Len(furyChain) \in Nat
            BY <2>3 DEF MessagesOK
        <3> QED BY <2>3, <3>1, <3>2
    <2> QED BY Zenon, <2>2, <2>4, <2>5, CursorIs
<1> QED BY Zenon, <1>1, <1>2, <1>3 DEF FuryInv, Grows

\* No goroutine moves.
LEMMA NoneMoves ==
    ASSUME MessagesApart, FuryInv, Grows, \A w \in Validators : KeepsPassed(w),
           UNCHANGED <<furySub, furyCursor, furySince>>
    PROVE  FuryInv'
<1>1. CASE Validators = {}
    BY Zenon, <1>1 DEF FuryInv, Grows
<1>2. ASSUME NEW v \in Validators
      PROVE  FuryInv'
    <2>1. PICK f \in GoroutineTypes, d \in Nat, b \in Nat :
              f = furySub[v] /\ d = furyCursor[v] /\ b = furySince[v]
        BY Zenon DEF FuryInv
    <2>2. MessagesOK /\ d <= Len(furyChain) /\ BlocksPassed(v, b, d) /\ Follows(v, f, d)
        BY Zenon, <2>1 DEF FuryInv, FuryCursorOK
    <2>3. Follows(v, f, d)' /\ BlocksPassed(v, b, d)'
        BY Zenon, <2>2, FollowsStays, PassedStays
    <2>4. d <= Len(furyChain')
        <3>1. PICK k \in Nat : k = Len(furyChain') /\ Len(furyChain) <= k
            BY DEF Grows, MessagesOK
        <3>2. Len(furyChain) \in Nat
            BY <2>2 DEF MessagesOK
        <3> QED BY <2>2, <3>1, <3>2
    <2>5. /\ furySub' = [furySub EXCEPT ![v] = f]
          /\ furyCursor' = [furyCursor EXCEPT ![v] = d]
          /\ furySince' = [furySince EXCEPT ![v] = b]
        BY Zenon, <2>1 DEF FuryInv
    <2> QED BY Zenon, <2>3, <2>4, <2>5, MovesOnFury
<1> QED BY Zenon, <1>1, <1>2

\* Nothing that was sent or given up is taken back.
LEMMA PassedMore ==
    ASSUME sent \subseteq sent', ethPool \subseteq ethPool', givenUp \subseteq givenUp'
    PROVE  \A w \in Validators : KeepsPassed(w)
BY Zenon DEF KeepsPassed, Passed, SentOn

\* v's goroutine moves on within the block or the range it is in.
LEMMA MoveGoroutine ==
    ASSUME MessagesApart, FuryInv, UNCHANGED <<furyChain, furyNext, furyCursor, furySince>>,
           \A w \in Validators : KeepsPassed(w),
           NEW v \in Validators, NEW g \in GoroutineTypes, furySub' = [furySub EXCEPT ![v] = g],
           NEW c, c = furyCursor[v], Follows(v, g, c)'
    PROVE  FuryInv'
<1>1. PICK a \in Nat : a = furySince[v]
    BY Zenon DEF FuryInv
<1>2. c \in Nat /\ MessagesOK /\ c <= Len(furyChain) /\ BlocksPassed(v, a, c)
    BY Zenon, <1>1 DEF FuryInv, FuryCursorOK
<1>3. Grows
    BY Zenon, <1>2, GrowsSame
<1>4. BlocksPassed(v, a, c)' /\ c <= Len(furyChain')
    BY Zenon, <1>2, <1>3, PassedStays
<1>5. furyCursor' = [furyCursor EXCEPT ![v] = c] /\ furySince' = [furySince EXCEPT ![v] = a]
    BY Zenon, <1>1 DEF FuryInv
<1> QED BY Zenon, <1>2, <1>3, <1>4, <1>5, MovesOnFury

\* A message of Furynet, and a block.
LEMMA MessageKeeps ==
    ASSUME MessagesApart, FuryInv, NEW m \in FuryMessages, FuryMessage(m)
    PROVE  FuryInv'
<1>1. /\ furyChain' = furyChain /\ furyNext' = Append(furyNext, m)
      /\ m \notin Emitted(Append(furyChain, furyNext))
      /\ UNCHANGED <<furySub, furyCursor, furySince, ethPool, sent, givenUp>>
    BY Zenon DEF FuryMessage, furyDbVars, ethPoolVars
<1>2. furyChain \in Seq(Seq(FuryMessages)) /\ furyNext \in Seq(FuryMessages) /\ Once(Append(furyChain, furyNext))
    BY Zenon DEF FuryInv, MessagesOK, Blocks
<1>3. Once(Append(furyChain, Append(furyNext, m)))
    BY Zenon, <1>1, <1>2, OnceMore
<1>4. MessagesOK'
    BY <1>1, <1>2, <1>3 DEF MessagesOK, Blocks
<1>5. Grows
    BY <1>1, <1>2, <1>4 DEF Grows
<1> QED BY Zenon, <1>1, <1>5, PassedMore, NoneMoves

\* The block that was being made is done.
LEMMA BlockKeeps ==
    ASSUME MessagesApart, FuryInv, FuryBlock
    PROVE  FuryInv'
<1>1. /\ furyChain' = Append(furyChain, furyNext) /\ furyNext' = <<>>
      /\ UNCHANGED <<furySub, furyCursor, furySince, ethPool, sent, givenUp>>
    BY Zenon DEF FuryBlock, furyDbVars, ethPoolVars
<1>2. furyChain \in Seq(Seq(FuryMessages)) /\ furyNext \in Seq(FuryMessages) /\ Once(Append(furyChain, furyNext))
    BY Zenon DEF FuryInv, MessagesOK, Blocks
<1>3. furyChain' \in Seq(Seq(FuryMessages))
    BY <1>1, <1>2
<1>4. Once(Append(furyChain', <<>>))
    BY Zenon, <1>1, <1>2, <1>3, OnceDone
<1>5. MessagesOK'
    BY <1>1, <1>3, <1>4 DEF MessagesOK, Blocks
<1>6. Grows
    BY <1>1, <1>2, <1>5 DEF Grows
<1> QED BY Zenon, <1>1, <1>6, PassedMore, NoneMoves

\* The process starts, or ends.
LEMMA FuryStartKeeps ==
    ASSUME MessagesApart, FuryInv, NEW v \in Validators, FuryStart(v) \/ FuryStop(v)
    PROVE  FuryInv'
<1>1. PICK c \in Nat : c = furyCursor[v]
    BY Zenon DEF FuryInv
<1>2. c <= Len(furyChain) /\ Len(furyChain) \in Nat
    BY <1>1 DEF FuryInv, FuryCursorOK, MessagesOK
<1>3. PICK g : /\ furySub' = [furySub EXCEPT ![v] = g]
               /\ \/ g = [pc |-> "idle", last |-> c, seen |-> Len(furyChain), pos |-> 1, tx |-> "none"]
                  \/ g = [pc |-> "down", last |-> 0, seen |-> 0, pos |-> 1, tx |-> "none"]
    BY Zenon, <1>1 DEF FuryStart, FuryStop, SetFury
<1>4. g \in GoroutineTypes /\ g.pc \in {"idle", "down"} /\ (g.pc = "idle" => g.last = c /\ g.seen = Len(furyChain))
    BY SMTT(30), <1>2, <1>3 DEF GoroutineTypes
<1>5. UNCHANGED <<furyChain, furyNext, furyCursor, furySince, ethPool, sent, givenUp>>
    BY Zenon DEF FuryStart, FuryStop, furyDbVars, ethPoolVars
<1>6. Follows(v, g, c)'
    BY <1>2, <1>4, <1>5 DEF Follows
<1>7. \A w \in Validators : KeepsPassed(w)
    BY Zenon, <1>5, PassedMore
<1> QED BY Zenon, <1>1, <1>3, <1>4, <1>5, <1>6, <1>7, MoveGoroutine

\* On to the next message of the block, when the one before is passed.
LEMMA StepFollows ==
    ASSUME MessagesApart, MessagesOK, Grows, NEW v, KeepsPassed(v), NEW f \in GoroutineTypes, NEW c \in Nat,
           Follows(v, f, c), f.pc \in {"read", "sent"}, f.last < f.seen,
           f.pos \in DOMAIN furyChain[f.last + 1],
           NEW p, p = ClaimOf(furyChain[f.last + 1][f.pos]), Passed(v, p)',
           NEW g, g = Step(f)
    PROVE  g \in GoroutineTypes /\ Follows(v, g, c)'
<1>1. f.last \in Nat /\ f.seen \in Nat /\ f.pos \in Nat \ {0}
    BY Zenon DEF GoroutineTypes
<1>2. /\ g.pc = "read" /\ g.last = f.last /\ g.seen = f.seen /\ g.pos = f.pos + 1
      /\ g \in GoroutineTypes
    <2>1. g = [pc |-> "read", last |-> f.last, seen |-> f.seen, pos |-> f.pos + 1, tx |-> "none"]
        BY Zenon DEF Step
    <2>2. f.pos + 1 \in Nat \ {0}
        BY SMTT(30), <1>1
    <2> QED BY ONLY Zenon, SMTT(30), <1>1, <2>1, <2>2 DEF GoroutineTypes
<1>3. Follows(v, f, c)'
    BY Zenon, FollowsStays
<1>4. f.last + 1 \in DOMAIN furyChain
    <2>1. f.seen <= Len(furyChain) /\ furyChain \in Seq(Seq(FuryMessages))
        BY Zenon DEF Follows, MessagesOK
    <2>2. Len(furyChain) \in Nat /\ DOMAIN furyChain = 1 .. Len(furyChain)
        BY SMTT(30), <2>1
    <2> QED BY ONLY SMTT(30), <1>1, <2>1, <2>2, f.last < f.seen
<1>5. furyChain'[f.last + 1] = furyChain[f.last + 1] /\ furyChain[f.last + 1] \in Seq(FuryMessages)
    <2>1. furyChain'[f.last + 1] = furyChain[f.last + 1]
        BY Zenon, <1>4 DEF Grows
    <2>2. PICK k \in DOMAIN furyChain : k = f.last + 1
        BY Zenon, <1>4
    <2>3. furyChain \in Seq(Seq(FuryMessages))
        BY Zenon DEF MessagesOK
    <2>4. furyChain[k] \in Seq(FuryMessages)
        BY ONLY SMTT(30), k \in DOMAIN furyChain, <2>3
    <2> QED BY ONLY Zenon, <2>1, <2>2, <2>4
<1>6. ASSUME NEW i \in DOMAIN furyChain'[f.last + 1], i < f.pos + 1
      PROVE  \E q : q = ClaimOf(furyChain'[f.last + 1][i]) /\ Passed(v, q)'
    <2>1. CASE i = f.pos
        BY Zenon, <2>1, <1>5
    <2>2. CASE i # f.pos
        <3>1. i < f.pos
            BY SMTT(30), <1>1, <1>5, <1>6, <2>2
        <3>2. PICK q \in EthProphecies : q = ClaimOf(furyChain[f.last + 1][i])
            BY Zenon, <1>4, <1>5, <1>6, MessageTypes
        <3>3. Passed(v, q)
            BY Zenon, <1>5, <1>6, <3>1, <3>2 DEF Follows
        <3> QED BY Zenon, <1>5, <3>2, <3>3 DEF KeepsPassed
    <2> QED BY Zenon, <2>1, <2>2
<1>7. g.last <= g.seen /\ g.seen <= Len(furyChain') /\ (c # 0 => g.last = c)
    BY Zenon, <1>2, <1>3 DEF Follows
<1>8. ASSUME NEW i \in DOMAIN furyChain'[g.last + 1], i < g.pos
      PROVE  \E q : q = ClaimOf(furyChain'[g.last + 1][i]) /\ Passed(v, q)'
    BY Zenon, <1>2, <1>6, <1>8
<1>9. g.pc = "read" /\ g \in GoroutineTypes
    BY Zenon, <1>2
<1> QED BY ONLY Zenon, <1>7, <1>8, <1>9 DEF Follows, ClaimOf, BurnLockEventToCosmosMsg, FurynetToEthereum

\* The goroutine reads a block, or has read all of them.
LEMMA NewBlockKeeps ==
    ASSUME MessagesApart, FuryInv, NEW v \in Validators, NewBlock(v) \/ CaughtUp(v)
    PROVE  FuryInv'
<1>1. PICK f \in GoroutineTypes, c \in Nat : f = furySub[v] /\ c = furyCursor[v]
    BY Zenon DEF FuryInv
<1>2. Follows(v, f, c) /\ MessagesOK
    BY Zenon, <1>1 DEF FuryInv, FuryCursorOK
<1>3. /\ f.last \in Nat /\ f.seen \in Nat /\ f.pos \in Nat \ {0} /\ f.tx \in {"none", "pool", "block", "lost"}
      /\ furyChain \in Seq(Seq(FuryMessages)) /\ f = [pc |-> f.pc, last |-> f.last, seen |-> f.seen, pos |-> f.pos, tx |-> f.tx]
    BY Zenon, <1>2 DEF GoroutineTypes, MessagesOK
<1>4. UNCHANGED <<furyChain, furyNext, furyCursor, furySince, ethPool, sent, givenUp>>
    BY Zenon DEF NewBlock, CaughtUp, furyDbVars, ethPoolVars
<1>5. \A w \in Validators : KeepsPassed(w)
    BY Zenon, <1>4, PassedMore
<1>6. CASE NewBlock(v)
    <2>1. f.pc = "idle" /\ f.seen < Len(furyChain)
        BY Zenon, <1>1, <1>6 DEF NewBlock
    <2>2. PICK last \in Nat : last = IF f.last = 0 THEN f.seen + 1 ELSE f.last
        BY <1>3
    <2>3. PICK g : g = [pc |-> "read", last |-> last, seen |-> f.seen + 1, pos |-> 1, tx |-> "none"]
        BY Zenon
    <2>4. furySub' = [furySub EXCEPT ![v] = g]
        BY Zenon, <1>1, <1>6, <2>2, <2>3 DEF NewBlock, SetFury
    <2>5. g \in GoroutineTypes
        BY SMTT(30), <1>3, <2>3 DEF GoroutineTypes
    <2>6. g.last <= g.seen /\ g.seen <= Len(furyChain) /\ (c # 0 => g.last = c)
        BY <1>2, <1>3, <2>1, <2>2, <2>3 DEF Follows
    <2>7. \A n \in DOMAIN furyChain : \A i \in DOMAIN furyChain[n] : ~(i < 1)
        BY <1>3
    <2>8. g.last < g.seen => g.last + 1 \in DOMAIN furyChain
        BY SMTT(30), <1>3, <2>3, <2>6
    <2>9. Follows(v, g, c)'
        BY Zenon, <1>4, <2>3, <2>6, <2>7, <2>8 DEF Follows
    <2> QED BY Zenon, <1>1, <1>4, <1>5, <2>4, <2>5, <2>9, MoveGoroutine
<1>7. CASE CaughtUp(v)
    <2>1. f.pc = "read" /\ furySub' = [furySub EXCEPT ![v] = [furySub[v] EXCEPT !.pc = "idle"]]
        BY Zenon, <1>1, <1>7 DEF CaughtUp
    <2>2. PICK g : g = [f EXCEPT !.pc = "idle"]
        BY Zenon
    <2>3. g = [pc |-> "idle", last |-> f.last, seen |-> f.seen, pos |-> f.pos, tx |-> f.tx]
        BY Zenon, <1>3, <2>2
    <2>4. g \in GoroutineTypes
        BY Zenon, <1>3, <2>3 DEF GoroutineTypes
    <2>5. Follows(v, g, c)'
        BY Zenon, <1>2, <1>4, <2>1, <2>3 DEF Follows
    <2>6. furySub' = [furySub EXCEPT ![v] = g]
        BY Zenon, <1>1, <2>1, <2>2
    <2> QED BY Zenon, <1>1, <1>4, <1>5, <2>4, <2>5, <2>6, MoveGoroutine
<1> QED BY Zenon, <1>6, <1>7

\* The fields of a goroutine's state.
LEMMA GoroutineIs ==
    ASSUME NEW f \in GoroutineTypes
    PROVE  /\ f.pc \in {"none", "down", "idle", "read", "sent"}
           /\ f.last \in Nat /\ f.seen \in Nat /\ f.pos \in Nat \ {0}
           /\ f.tx \in {"none", "pool", "block", "lost"}
           /\ f = [pc |-> f.pc, last |-> f.last, seen |-> f.seen, pos |-> f.pos, tx |-> f.tx]
BY Zenon DEF GoroutineTypes

\* A message is sent, or given up after five attempts.
LEMMA HandleKeeps ==
    ASSUME MessagesApart, FuryInv, NEW v \in Validators, HandleBurnLockMsg(v)
    PROVE  FuryInv'
<1>1. PICK f \in GoroutineTypes, c \in Nat : f = furySub[v] /\ c = furyCursor[v]
    BY Zenon DEF FuryInv
<1>2. Follows(v, f, c) /\ MessagesOK /\ furyChain \in Seq(Seq(FuryMessages))
    BY Zenon, <1>1 DEF FuryInv, FuryCursorOK, MessagesOK
<1>3. UNCHANGED <<furyChain, furyNext, furyCursor, furySince, sent>>
    BY Zenon DEF HandleBurnLockMsg, furyDbVars
<1>4. Grows
    BY Zenon, <1>2, <1>3, GrowsSame
<1>5. f.pc = "read" /\ f.last < f.seen /\ f.pos <= Len(furyChain[f.last + 1])
    BY Zenon, <1>1 DEF HandleBurnLockMsg, AtMessage, Reading, Block
<1>6. f.last + 1 \in DOMAIN furyChain
    BY <1>2, <1>5, GoroutineIs DEF Follows
<1>7. f.pos \in DOMAIN furyChain[f.last + 1]
    <2>1. furyChain[f.last + 1] \in Seq(FuryMessages)
        BY <1>2, <1>6
    <2> QED BY <1>5, <2>1, GoroutineIs
<1>8. PICK p \in EthProphecies : p = ClaimOf(furyChain[f.last + 1][f.pos])
    BY Zenon, <1>2, <1>6, <1>7, MessageTypes
<1>9. p = BurnLockEventToCosmosMsg(Message(v))
    BY Zenon, <1>1, <1>8 DEF ClaimOf, Message, Block
<1>10. CASE /\ ethPool' = ethPool \cup {<<v, p>>} /\ givenUp' = givenUp
            /\ furySub' = [furySub EXCEPT ![v].pc = "sent", ![v].tx = "pool"]
    <2>1. PICK g : g = [pc |-> "sent", last |-> f.last, seen |-> f.seen, pos |-> f.pos, tx |-> "pool"]
        BY Zenon
    <2>2. furySub' = [furySub EXCEPT ![v] = g]
        <3>1. furySub \in [Validators -> GoroutineTypes]
            BY Zenon DEF FuryInv
        <3>2. furySub' = [furySub EXCEPT ![v] = [[furySub[v] EXCEPT !.pc = "sent"] EXCEPT !.tx = "pool"]]
            BY ONLY Zenon, <1>10, <3>1, v \in Validators
        <3>3. PICK h : h = [pc |-> "sent", last |-> f.last, seen |-> f.seen, pos |-> f.pos, tx |-> f.tx]
            BY Zenon
        <3>4. h = [f EXCEPT !.pc = "sent"]
            BY <3>3, GoroutineIs
        <3>5. g = [h EXCEPT !.tx = "pool"]
            BY ONLY <2>1, <3>3
        <3> QED BY Zenon, <1>1, <3>2, <3>4, <3>5
    <2>3. g \in GoroutineTypes
        BY Zenon, <2>1, GoroutineIs DEF GoroutineTypes
    <2>4. \A w \in Validators : KeepsPassed(w)
        BY Zenon, <1>3, <1>10, PassedMore
    <2>5. Follows(v, f, c)'
        BY Zenon, <1>2, <1>4, <2>4, FollowsStays
    <2>6. Passed(v, p)'
        BY Zenon, <1>10 DEF Passed, SentOn
    <2>7. g.pos \in DOMAIN furyChain'[g.last + 1] /\ g.last < g.seen
          /\ p = ClaimOf(furyChain'[g.last + 1][g.pos])
        BY Zenon, <1>3, <1>5, <1>7, <1>8, <2>1
    <2>8. Follows(v, g, c)'
        <3>1. g.pc = "sent" /\ f.pc \in {"read", "sent"}
              /\ g.last = f.last /\ g.seen = f.seen /\ g.pos = f.pos
            BY Zenon, <1>5, <2>1
        <3> QED BY ONLY Zenon, <2>5, <2>6, <2>7, <3>1 DEF Follows, ClaimOf, BurnLockEventToCosmosMsg, FurynetToEthereum
    <2> QED BY Zenon, <1>1, <1>3, <2>2, <2>3, <2>4, <2>8, MoveGoroutine
<1>11. CASE /\ givenUp' = givenUp \cup {<<v, p>>} /\ ethPool' = ethPool
            /\ furySub' = [furySub EXCEPT ![v] = Step(@)]
    <2>1. PICK g : g = Step(f)
        BY Zenon
    <2>2. furySub' = [furySub EXCEPT ![v] = g]
        BY Zenon, <1>1, <1>11, <2>1
    <2>3. \A w \in Validators : KeepsPassed(w)
        BY Zenon, <1>3, <1>11, PassedMore
    <2>4. Passed(v, p)'
        BY Zenon, <1>11 DEF Passed
    <2>5. g \in GoroutineTypes /\ Follows(v, g, c)'
        BY Zenon, <1>2, <1>4, <1>5, <1>7, <1>8, <2>1, <2>3, <2>4, StepFollows
    <2> QED BY Zenon, <1>1, <1>3, <2>2, <2>3, <2>5, MoveGoroutine
<1> QED BY Zenon, <1>9, <1>10, <1>11 DEF HandleBurnLockMsg

\* The receipt is there, or the goroutine stops waiting for it.
LEMMA ReceiptKeeps ==
    ASSUME MessagesApart, FuryInv, NEW v \in Validators, Receipt(v) \/ NoReceipt(v)
    PROVE  FuryInv'
<1>1. PICK f \in GoroutineTypes, c \in Nat : f = furySub[v] /\ c = furyCursor[v]
    BY Zenon DEF FuryInv
<1>2. Follows(v, f, c) /\ MessagesOK /\ furyChain \in Seq(Seq(FuryMessages))
    BY Zenon, <1>1 DEF FuryInv, FuryCursorOK, MessagesOK
<1>3. UNCHANGED <<furyChain, furyNext, furyCursor, furySince, ethPool, sent, givenUp>>
    BY Zenon DEF Receipt, NoReceipt, furyDbVars, ethPoolVars
<1>4. Grows /\ \A w \in Validators : KeepsPassed(w)
    BY Zenon, <1>2, <1>3, GrowsSame, PassedMore
<1>5. f.pc = "sent"
    BY Zenon, <1>1 DEF Receipt, NoReceipt
<1>6. f.last < f.seen /\ f.pos \in DOMAIN furyChain[f.last + 1]
    BY Zenon, <1>2, <1>5 DEF Follows
<1>7. f.last + 1 \in DOMAIN furyChain
    BY <1>2, <1>5, <1>6, GoroutineIs DEF Follows
<1>8. CASE f.tx = "lost" /\ furySub' = [furySub EXCEPT ![v].pc = "read"]
    <2>1. PICK g : g = [pc |-> "read", last |-> f.last, seen |-> f.seen, pos |-> f.pos, tx |-> f.tx]
        BY Zenon
    <2>2. furySub' = [furySub EXCEPT ![v] = g]
        <3>1. furySub' = [furySub EXCEPT ![v] = [furySub[v] EXCEPT !.pc = "read"]]
            BY Zenon, <1>8
        <3>2. g = [f EXCEPT !.pc = "read"]
            BY <2>1, GoroutineIs
        <3> QED BY Zenon, <1>1, <3>1, <3>2
    <2>3. g \in GoroutineTypes
        BY Zenon, <2>1, GoroutineIs DEF GoroutineTypes
    <2>4. Follows(v, f, c)'
        BY Zenon, <1>2, <1>4, FollowsStays
    <2>5. Follows(v, g, c)'
        BY Zenon, <1>5, <2>1, <2>4 DEF Follows
    <2> QED BY Zenon, <1>1, <1>3, <1>4, <2>2, <2>3, <2>5, MoveGoroutine
<1>9. CASE f.tx # "lost" /\ furySub' = [furySub EXCEPT ![v] = Step(@)]
    <2>1. PICK p \in EthProphecies : p = ClaimOf(furyChain[f.last + 1][f.pos])
        BY Zenon, <1>2, <1>6, <1>7, MessageTypes
    <2>2. Passed(v, p)
        BY Zenon, <1>2, <1>5, <1>9, <2>1 DEF Follows
    <2>3. Passed(v, p)'
        BY Zenon, <1>3, <2>2 DEF Passed, SentOn
    <2>4. PICK g : g = Step(f)
        BY Zenon
    <2>5. furySub' = [furySub EXCEPT ![v] = g]
        BY Zenon, <1>1, <1>9, <2>4
    <2>6. g \in GoroutineTypes /\ Follows(v, g, c)'
        BY Zenon, <1>2, <1>4, <1>5, <1>6, <2>1, <2>3, <2>4, StepFollows
    <2> QED BY Zenon, <1>1, <1>3, <1>4, <2>5, <2>6, MoveGoroutine
<1> QED BY Zenon, <1>1, <1>8, <1>9 DEF Receipt, NoReceipt

\* The block is saved as read: its messages are passed, and so are those of the
\* blocks before it.
LEMMA FuryPutKeeps ==
    ASSUME MessagesApart, FuryInv, NEW v \in Validators, FuryPut(v)
    PROVE  FuryInv'
<1>1. PICK f \in GoroutineTypes, c \in Nat, a \in Nat : f = furySub[v] /\ c = furyCursor[v] /\ a = furySince[v]
    BY Zenon DEF FuryInv
<1>2. Follows(v, f, c) /\ MessagesOK /\ furyChain \in Seq(Seq(FuryMessages)) /\ BlocksPassed(v, a, c)
    BY Zenon, <1>1 DEF FuryInv, FuryCursorOK, MessagesOK
<1>3. UNCHANGED <<furyChain, furyNext, ethPool, sent, givenUp>>
    BY Zenon DEF FuryPut, ethPoolVars
<1>4. Grows /\ \A w \in Validators : KeepsPassed(w)
    BY Zenon, <1>2, <1>3, GrowsSame, PassedMore
<1>5. f.pc = "read" /\ f.last < f.seen /\ f.pos > Len(furyChain[f.last + 1])
    BY Zenon, <1>1 DEF FuryPut, Reading, Block
<1>6. f.last + 1 \in DOMAIN furyChain /\ f.seen <= Len(furyChain) /\ (c # 0 => f.last = c)
    BY <1>2, <1>5, GoroutineIs DEF Follows
<1>7. PICK d \in Nat, b \in Nat : d = f.last + 1 /\ b = IF c = 0 THEN f.last ELSE a
    BY GoroutineIs
<1>8. PICK g : g = [pc |-> "read", last |-> d, seen |-> f.seen, pos |-> 1, tx |-> "none"]
    BY Zenon
<1>9. /\ furySub' = [furySub EXCEPT ![v] = g]
      /\ furyCursor' = [furyCursor EXCEPT ![v] = d]
      /\ furySince' = [furySince EXCEPT ![v] = b]
    BY Zenon, <1>1, <1>7, <1>8 DEF FuryPut, SetFury
<1>10. g \in GoroutineTypes
    BY <1>7, <1>8, GoroutineIs DEF GoroutineTypes
<1>11. ASSUME NEW i \in DOMAIN furyChain[d]
       PROVE  Passed(v, ClaimOf(furyChain[d][i]))
    <2>1. furyChain[d] \in Seq(FuryMessages)
        BY <1>2, <1>6, <1>7
    <2>2. i < f.pos
        BY <1>5, <1>7, <2>1, GoroutineIs
    <2> QED BY Zenon, <1>2, <1>5, <1>7, <2>2 DEF Follows
<1>12. ASSUME NEW n \in DOMAIN furyChain, b < n, n <= d, NEW i \in DOMAIN furyChain[n]
       PROVE  Passed(v, ClaimOf(furyChain[n][i]))
    <2>1. CASE n = d
        BY Zenon, <1>11, <1>12, <2>1
    <2>2. CASE n # d
        <3>1. n \in Nat
            BY <1>2
        <3>2. c # 0 /\ a < n /\ n <= c
            BY <1>6, <1>7, <1>12, <2>2, <3>1, GoroutineIs
        <3> QED BY Zenon, <1>2, <1>12, <3>2 DEF BlocksPassed
    <2> QED BY Zenon, <2>1, <2>2
<1>13. BlocksPassed(v, b, d)
    BY Zenon, <1>12 DEF BlocksPassed
<1>14. d <= Len(furyChain) /\ d <= f.seen
    BY <1>2, <1>5, <1>6, <1>7, GoroutineIs
<1>15. BlocksPassed(v, b, d)' /\ d <= Len(furyChain')
    BY Zenon, <1>2, <1>3, <1>4, <1>13, <1>14, PassedStays
<1>16. g.last < g.seen => g.last + 1 \in DOMAIN furyChain
    BY SMTT(30), <1>2, <1>6, <1>7, <1>8, GoroutineIs
<1>17. \A n \in DOMAIN furyChain : \A i \in DOMAIN furyChain[n] : ~(i < 1)
    BY SMTT(30), <1>2
<1>18. Follows(v, g, d)'
    BY Zenon, <1>3, <1>6, <1>8, <1>14, <1>16, <1>17 DEF Follows
<1> QED BY Zenon, <1>4, <1>9, <1>10, <1>15, <1>18, MovesOnFury

\* Messages at different places ask for different prophecies.
LEMMA ApartInBlocks ==
    ASSUME MessagesApart, MessagesOK, NEW n \in DOMAIN furyChain, NEW i \in DOMAIN furyChain[n],
           NEW k \in DOMAIN furyChain, NEW j \in DOMAIN furyChain[k],
           ClaimOf(furyChain[n][i]) = ClaimOf(furyChain[k][j])
    PROVE  n = k /\ i = j
<1>1. furyChain[n][i] \in FuryMessages /\ furyChain[k][j] \in FuryMessages
    BY Zenon, MessageTypes
<1>2. furyChain[n][i] = furyChain[k][j]
    BY Zenon, <1>1 DEF MessagesApart
<1>3. \A x \in DOMAIN furyChain : x \in DOMAIN Blocks /\ Blocks[x] = furyChain[x]
    BY SMTT(30) DEF MessagesOK, Blocks
<1> QED BY <1>2, <1>3 DEF MessagesOK, Once

\* The operator replays.
LEMMA FuryReplayKeeps ==
    ASSUME MessagesApart, FuryInv, NEW v, FuryReplay(v)
    PROVE  FuryInv'
<1>1. /\ UNCHANGED <<furyChain, furyNext, furySub, furyCursor, furySince, sent, givenUp>>
      /\ ethPool \subseteq ethPool'
    BY Zenon DEF FuryReplay, furyDbVars
<1>2. Grows
    BY Zenon, <1>1, GrowsSame DEF FuryInv
<1> QED BY Zenon, <1>1, <1>2, PassedMore, NoneMoves

\* What becomes of a transaction is written into the goroutine that awaits it.
LEMMA NotifyIs ==
    ASSUME furySub \in [Validators -> GoroutineTypes], NEW w \in Validators, NEW p, NEW where,
           Notify(w, p, where), NEW f, f = furySub[w],
           NEW g, g = [pc |-> f.pc, last |-> f.last, seen |-> f.seen, pos |-> f.pos,
                       tx |-> IF Awaits(w, p) THEN where ELSE f.tx]
    PROVE  furySub' = [furySub EXCEPT ![w] = g]
<1>1. PICK x : x = IF Awaits(w, p) THEN where ELSE f.tx
    BY Zenon
<1>2. furySub' = [furySub EXCEPT ![w] = [furySub[w] EXCEPT !.tx = x]]
    BY Zenon, <1>1 DEF Notify
<1>3. f \in GoroutineTypes
    BY Zenon
<1>4. g = [f EXCEPT !.tx = x]
    BY ONLY <1>1, <1>3, GoroutineIs, g = [pc |-> f.pc, last |-> f.last, seen |-> f.seen, pos |-> f.pos,
                                          tx |-> IF Awaits(w, p) THEN where ELSE f.tx]
<1> QED BY Zenon, <1>2, <1>4

\* Whose process is no validator's is nobody's.
LEMMA NotifyNone ==
    ASSUME furySub \in [Validators -> GoroutineTypes], NEW w, w \notin Validators, NEW p, NEW where,
           Notify(w, p, where)
    PROVE  furySub' = furySub
BY Zenon DEF Notify

\* The transaction of a message is in a block.
LEMMA MineTxKeeps ==
    ASSUME MessagesApart, FuryInv, NEW w, NEW p, Mined(w, p)
    PROVE  FuryInv'
<1>1. /\ UNCHANGED <<furyChain, furyNext, furyCursor, furySince, givenUp>>
      /\ ethPool' = ethPool \ {<<w, p>>} /\ sent' = sent \cup {<<w, p.id>>}
      /\ Notify(w, p, "block")
    BY Zenon DEF Mined, furyDbVars
<1>2. MessagesOK /\ furySub \in [Validators -> GoroutineTypes]
    BY Zenon DEF FuryInv
<1>3. Grows
    BY Zenon, <1>1, <1>2, GrowsSame
<1>4. \A v \in Validators : KeepsPassed(v)
    BY Zenon, <1>1 DEF KeepsPassed, Passed, SentOn
<1>5. CASE w \notin Validators
    BY Zenon, <1>1, <1>2, <1>3, <1>4, <1>5, NotifyNone, NoneMoves
<1>6. CASE w \in Validators
    <2>1. PICK f \in GoroutineTypes, c \in Nat : f = furySub[w] /\ c = furyCursor[w]
        BY Zenon, <1>6 DEF FuryInv
    <2>2. Follows(w, f, c)
        BY Zenon, <1>6, <2>1 DEF FuryInv, FuryCursorOK
    <2>3. PICK g : g = [pc |-> f.pc, last |-> f.last, seen |-> f.seen, pos |-> f.pos,
                        tx |-> IF Awaits(w, p) THEN "block" ELSE f.tx]
        BY Zenon
    <2>4. furySub' = [furySub EXCEPT ![w] = g]
        BY ONLY SMTT(30), <1>1, <1>2, <1>6, <2>1, <2>3, NotifyIs
    <2>5. g \in GoroutineTypes
        BY Zenon, <2>3, GoroutineIs DEF GoroutineTypes
    <2>6. Follows(w, f, c)'
        BY Zenon, <1>2, <1>3, <1>4, <1>6, <2>2, FollowsStays
    <2>7. ASSUME g.pc = "sent", g.tx # "lost"
          PROVE  \E q : q = ClaimOf(furyChain'[g.last + 1][g.pos]) /\ Passed(w, q)'
        <3>1. CASE Awaits(w, p)
            <4>1. p = ClaimOf(furyChain[g.last + 1][g.pos])
                BY Zenon, <2>1, <2>3, <3>1 DEF Awaits, Message, Block, ClaimOf
            <4>2. Passed(w, p)'
                BY Zenon, <1>1 DEF Passed, SentOn
            <4> QED BY Zenon, <1>1, <4>1, <4>2
        <3>2. CASE ~Awaits(w, p)
            <4>1. f.pc = "sent" /\ f.tx # "lost"
                BY Zenon, <2>3, <2>7, <3>2
            <4> QED BY Zenon, <2>3, <2>6, <4>1 DEF Follows, ClaimOf, BurnLockEventToCosmosMsg, FurynetToEthereum
        <3> QED BY Zenon, <3>1, <3>2
    <2>8. g.pc = f.pc /\ g.last = f.last /\ g.seen = f.seen /\ g.pos = f.pos
        BY Zenon, <2>3
    <2>9. Follows(w, g, c)'
        BY ONLY Zenon, <2>6, <2>7, <2>8 DEF Follows, ClaimOf, BurnLockEventToCosmosMsg, FurynetToEthereum
    <2> QED BY Zenon, <1>1, <1>4, <1>6, <2>1, <2>4, <2>5, <2>9, MoveGoroutine
<1> QED BY Zenon, <1>5, <1>6

\* A transaction is lost.  When its goroutine awaits it, the message is at the
\* place the goroutine is at and nowhere before.
LEMMA LoseTxKeeps ==
    ASSUME MessagesApart, FuryInv, NEW w, NEW p, LoseTx(w, p)
    PROVE  FuryInv'
<1>1. /\ UNCHANGED <<furyChain, furyNext, furyCursor, furySince, sent>>
      /\ ethPool' = ethPool \ {<<w, p>>}
      /\ givenUp' = IF Awaits(w, p) THEN givenUp ELSE givenUp \cup {<<w, p>>}
      /\ Notify(w, p, "lost")
    BY Zenon DEF LoseTx, furyDbVars
<1>2. MessagesOK /\ furySub \in [Validators -> GoroutineTypes] /\ furyChain \in Seq(Seq(FuryMessages))
    BY Zenon DEF FuryInv, MessagesOK
<1>3. Grows
    BY Zenon, <1>1, <1>2, GrowsSame
<1>4. \A v \in Validators \ {w} : KeepsPassed(v)
    BY Zenon, <1>1 DEF KeepsPassed, Passed, SentOn
<1>5. CASE w \notin Validators
    <2>1. \A v \in Validators : KeepsPassed(v)
        BY Zenon, <1>4, <1>5
    <2> QED BY Zenon, <1>1, <1>2, <1>3, <1>5, <2>1, NotifyNone, NoneMoves
<1>6. CASE w \in Validators
    <2>1. PICK f \in GoroutineTypes, c \in Nat, a \in Nat : f = furySub[w] /\ c = furyCursor[w] /\ a = furySince[w]
        BY Zenon, <1>6 DEF FuryInv
    <2>2. Follows(w, f, c) /\ BlocksPassed(w, a, c) /\ c <= Len(furyChain)
        BY Zenon, <1>6, <2>1 DEF FuryInv, FuryCursorOK
    <2>3. PICK g : g = [pc |-> f.pc, last |-> f.last, seen |-> f.seen, pos |-> f.pos,
                        tx |-> IF Awaits(w, p) THEN "lost" ELSE f.tx]
        BY Zenon
    <2>4. furySub' = [furySub EXCEPT ![w] = g]
        <3>1. Notify(w, p, "lost") /\ furySub \in [Validators -> GoroutineTypes] /\ f = furySub[w]
            BY Zenon, <1>1, <1>2, <2>1
        <3> QED BY ONLY <1>6, <2>3, <3>1, NotifyIs
    <2>5. g \in GoroutineTypes
        BY Zenon, <2>3, GoroutineIs DEF GoroutineTypes
    <2>6. Awaits(w, p) => f.pc = "sent" /\ p = ClaimOf(furyChain[f.last + 1][f.pos])
        BY Zenon, <2>1 DEF Awaits, Message, Block, ClaimOf
    <2>7. f.pc = "sent" => /\ f.last + 1 \in DOMAIN furyChain /\ f.pos \in DOMAIN furyChain[f.last + 1]
                           /\ (c # 0 => f.last = c) /\ f.last < f.seen
        BY <1>2, <2>2, GoroutineIs DEF Follows
    <2>8. ASSUME NEW n \in DOMAIN furyChain, NEW i \in DOMAIN furyChain[n],
                 Passed(w, ClaimOf(furyChain[n][i])),
                 Awaits(w, p) => ~(n = f.last + 1 /\ i = f.pos)
          PROVE  \E q : q = ClaimOf(furyChain[n][i]) /\ Passed(w, q)'
        <3>1. PICK q \in EthProphecies : q = ClaimOf(furyChain[n][i])
            BY Zenon, <1>2, MessageTypes
        <3>2. ASSUME Awaits(w, p), q = p
              PROVE  FALSE
            <4>0. PICK k \in DOMAIN furyChain : k = f.last + 1
                BY Zenon, <2>6, <2>7, <3>2
            <4>1. PICK j \in DOMAIN furyChain[k] : j = f.pos /\ p = ClaimOf(furyChain[k][j])
                BY Zenon, <2>6, <2>7, <3>2, <4>0
            <4>2. ClaimOf(furyChain[n][i]) = ClaimOf(furyChain[k][j])
                BY Zenon, <3>1, <3>2, <4>1
            <4>3. n = k /\ i = j
                BY Zenon, <1>2, <4>2, ApartInBlocks
            <4> QED BY Zenon, <2>8, <3>2, <4>0, <4>1, <4>3
        <3>3. Passed(w, q)
            BY Zenon, <2>8, <3>1
        <3>4. Passed(w, q)'
            BY Zenon, <1>1, <3>2, <3>3 DEF Passed, SentOn
        <3> QED BY Zenon, <3>1, <3>4
    <2>9. ASSUME NEW n \in DOMAIN furyChain, a < n, n <= c, NEW i \in DOMAIN furyChain[n]
          PROVE  \E q : q = ClaimOf(furyChain[n][i]) /\ Passed(w, q)'
        <3>1. n \in Nat \ {0}
            BY SMTT(30), <1>2
        <3>2. Awaits(w, p) => n # f.last + 1
            BY <2>6, <2>7, <2>9, <3>1, GoroutineIs
        <3>3. Passed(w, ClaimOf(furyChain[n][i]))
            BY Zenon, <2>2, <2>9 DEF BlocksPassed
        <3> QED BY Zenon, <2>8, <2>9, <3>2, <3>3
    <2>10. BlocksPassed(w, a, c)'
        <3> SUFFICES ASSUME NEW n \in DOMAIN furyChain', a < n, n <= c, NEW i \in DOMAIN furyChain'[n]
                     PROVE  \E q : q = ClaimOf(furyChain'[n][i]) /\ Passed(w, q)'
            BY Zenon DEF BlocksPassed, ClaimOf, BurnLockEventToCosmosMsg, FurynetToEthereum
        <3> QED BY Zenon, <1>1, <2>9
    <2>11. g.pc = f.pc /\ g.last = f.last /\ g.seen = f.seen /\ g.pos = f.pos
        BY Zenon, <2>3
    <2>12. ASSUME g.pc \in {"read", "sent"}, g.last < g.seen, NEW i \in DOMAIN furyChain[g.last + 1], i < g.pos
           PROVE  \E q : q = ClaimOf(furyChain[g.last + 1][i]) /\ Passed(w, q)'
        <3>1. f.last + 1 \in DOMAIN furyChain
            BY <1>2, <2>2, <2>11, <2>12, GoroutineIs DEF Follows
        <3>2. furyChain[f.last + 1] \in Seq(FuryMessages) /\ f.pos \in Nat
            BY SMTT(30), <1>2, <3>1, GoroutineIs
        <3>3. i # f.pos
            BY <2>11, <2>12, <3>2
        <3>4. Passed(w, ClaimOf(furyChain[f.last + 1][i]))
            BY Zenon, <2>2, <2>11, <2>12 DEF Follows
        <3> QED BY Zenon, <2>8, <2>11, <2>12, <3>1, <3>3, <3>4
    <2>13. ASSUME g.pc = "sent", g.tx # "lost"
           PROVE  \E q : q = ClaimOf(furyChain[g.last + 1][g.pos]) /\ Passed(w, q)'
        <3>1. PICK q \in EthProphecies : q = ClaimOf(furyChain[f.last + 1][f.pos])
            BY Zenon, <1>2, <2>7, <2>11, <2>13, MessageTypes
        <3>2. ~Awaits(w, p) /\ f.tx # "lost"
            BY Zenon, <2>3, <2>13
        <3>3. Passed(w, q)
            BY Zenon, <2>2, <2>11, <2>13, <3>1, <3>2 DEF Follows
        <3>4. Passed(w, q)'
            BY Zenon, <1>1, <3>2, <3>3 DEF Passed, SentOn
        <3> QED BY Zenon, <2>11, <3>1, <3>4
    <2>14. /\ g.pc \in {"idle", "read", "sent"} =>
                  g.last <= g.seen /\ g.seen <= Len(furyChain) /\ (c # 0 => g.last = c)
           /\ g.pc = "sent" => g.last < g.seen /\ g.pos \in DOMAIN furyChain[g.last + 1]
        BY Zenon, <2>2, <2>11 DEF Follows
    <2>15. Follows(w, g, c)'
        <3>1. furyChain' = furyChain
            BY Zenon, <1>1
        <3> QED BY ONLY Zenon, <3>1, <2>12, <2>13, <2>14
                   DEF Follows, ClaimOf, BurnLockEventToCosmosMsg, FurynetToEthereum
    <2>16. furyCursor' = [furyCursor EXCEPT ![w] = c] /\ furySince' = [furySince EXCEPT ![w] = a]
        BY Zenon, <1>1, <1>6, <2>1 DEF FuryInv
    <2>17. c <= Len(furyChain')
        BY Zenon, <1>1, <2>2
    <2> QED BY Zenon, <1>3, <1>4, <1>6, <2>4, <2>5, <2>10, <2>15, <2>16, <2>17, MovesOnFury
<1> QED BY Zenon, <1>5, <1>6

\* What FuryInit says of the goroutines and of the contracts' votes and funds.
Begins ==
    /\ furyChain = <<>> /\ furyNext = <<>>
    /\ furySub = [v \in Validators |-> [pc |-> IF v \in setup.relayers THEN "down" ELSE "none",
                                        last |-> 0, seen |-> 0, pos |-> 1, tx |-> "none"]]
    /\ furyCursor = [v \in Validators |-> 0] /\ furySince = [v \in Validators |-> 0]
    /\ lockedTokenList = [s \in Symbols |-> Zero]
    /\ lowerToUpperTokens = [s \in Symbols |-> IF s \in {"eth", "efury"} THEN s ELSE Unset]
    /\ controlledBridgeTokens = [s \in Symbols |-> Zero]
    /\ cosmosWhiteList = {}
    /\ held = GenesisHeld /\ minted = [t \in BridgeTokens |-> 0]
    /\ signedPower = [p \in EthProphecies |-> 0]
    /\ completed = [p \in EthProphecies |-> <<>>]
    /\ ethPool = {}

\* Nothing is read and nothing is sent at first.
LEMMA FuryStarts ==
    ASSUME Begins
    PROVE  FuryInv
<1>1. /\ furyChain = <<>> /\ furyNext = <<>>
      /\ furySub = [v \in Validators |-> [pc |-> IF v \in setup.relayers THEN "down" ELSE "none",
                                          last |-> 0, seen |-> 0, pos |-> 1, tx |-> "none"]]
      /\ furyCursor = [v \in Validators |-> 0] /\ furySince = [v \in Validators |-> 0]
    BY Zenon DEF Begins
<1>2. MessagesOK
    BY SMTT(30), <1>1 DEF MessagesOK, Blocks, Once
<1>3. ASSUME NEW v \in Validators
      PROVE  furySub[v] \in GoroutineTypes /\ FuryCursorOK(v)
    <2>1. furySub[v].pc \in {"none", "down"} /\ furySub[v] \in GoroutineTypes
        <3>1. PICK x \in {"none", "down"} :
                  furySub[v] = [pc |-> x, last |-> 0, seen |-> 0, pos |-> 1, tx |-> "none"]
            BY Zenon, <1>1
        <3> QED BY ONLY SMTT(30), <3>1, x \in {"none", "down"} DEF GoroutineTypes
    <2>2. Follows(v, furySub[v], furyCursor[v])
        BY Zenon, <2>1 DEF Follows
    <2>3. BlocksPassed(v, furySince[v], furyCursor[v])
        <3>1. DOMAIN furyChain = {}
            BY <1>1
        <3> QED BY ONLY Zenon, <3>1 DEF BlocksPassed
    <2> QED BY SMTT(30), <1>1, <2>1, <2>2, <2>3 DEF FuryCursorOK
<1>4. /\ furySub \in [Validators -> GoroutineTypes]
      /\ furyCursor \in [Validators -> Nat] /\ furySince \in [Validators -> Nat]
    BY Zenon, <1>1, <1>3
<1> QED BY Zenon, <1>2, <1>3, <1>4 DEF FuryInv

\* Every step keeps the invariant.
LEMMA FuryStepKeeps ==
    ASSUME MessagesApart, FuryInv, FuryStep
    PROVE  FuryInv'
<1>1. ASSUME NEW v \in Validators, FuryRelayer(v) \/ NoReceipt(v)
      PROVE  FuryInv'
    BY Zenon, <1>1, NewBlockKeeps, HandleKeeps, ReceiptKeeps, FuryPutKeeps DEF FuryRelayer
<1>2. ASSUME NEW q \in ethPool, Mined(q[1], q[2]) \/ LoseTx(q[1], q[2])
      PROVE  FuryInv'
    BY Zenon, <1>2, MineTxKeeps, LoseTxKeeps
<1>3. ASSUME NEW v \in setup.operators, FuryReplay(v)
      PROVE  FuryInv'
    BY Zenon, <1>3, FuryReplayKeeps
<1>4. CASE UNCHANGED furyState
    <2>1. Grows
        BY Zenon, <1>4, GrowsSame DEF furyState, FuryInv
    <2>2. UNCHANGED <<furySub, furyCursor, furySince, ethPool, sent, givenUp>>
        BY Zenon, <1>4 DEF furyState
    <2> QED BY Zenon, <2>1, <2>2, PassedMore, NoneMoves
<1> QED BY Zenon, <1>1, <1>2, <1>3, <1>4, BlockKeeps, MessageKeeps, FuryStartKeeps DEF FuryStep

-----------------------------------------------------------------------------
(***************************************************************************)
(* The contracts.                                                          *)
(***************************************************************************)
\* What is paid is a sequence for every prophecy, and a prophecy that has the
\* power the threshold asks for is paid.
PaidOK ==
    /\ signedPower = [p \in EthProphecies |-> signedPower[p]]
    /\ completed \in [EthProphecies -> Seq(Assets \cup BridgeTokens)]
    /\ EnoughMeansPaid

\* The vote that gives a prophecy that power pays it in the same transaction.
LEMMA VotePays ==
    ASSUME PaidOK, NEW v, NEW p, newProphecyClaim(v, p), UNCHANGED totalPower,
           completed' \in [EthProphecies -> Seq(Assets \cup BridgeTokens)]
    PROVE  PaidOK'
<1>1. PICK signed : signedPower' = [signedPower EXCEPT ![p] = signed]
                    /\ (Reached(signed) => \E t : completed' = [completed EXCEPT ![p] = Append(@, t)])
                    /\ (~Reached(signed) => completed' = completed)
    BY Zenon DEF newProphecyClaim, completeProphecyClaim
<1>2. ASSUME NEW q \in EthProphecies, signedPower'[q] > 0, Reached(signedPower'[q])
      PROVE  completed'[q] # <<>>
    <2>1. CASE q # p
        <3>1. signedPower'[q] = signedPower[q] /\ completed'[q] = completed[q]
            BY Zenon, <1>1, <2>1 DEF PaidOK
        <3> QED BY Zenon, <1>2, <3>1 DEF PaidOK, EnoughMeansPaid, EnoughMeansPaid
    <2>2. CASE q = p
        <3>1. signedPower'[q] = signed
            BY Zenon, <1>1, <2>2 DEF PaidOK
        <3>2. PICK t : completed' = [completed EXCEPT ![p] = Append(@, t)]
            BY Zenon, <1>1, <1>2, <3>1
        <3>3. completed'[q] = Append(completed[q], t) /\ completed[q] \in Seq(Assets \cup BridgeTokens)
            BY Zenon, <2>2, <3>2 DEF PaidOK
        <3> QED BY <3>3
    <2> QED BY Zenon, <2>1, <2>2
<1>3. EnoughMeansPaid'
    BY Zenon, <1>2 DEF EnoughMeansPaid, EnoughMeansPaid, Reached
<1>4. signedPower' = [q \in EthProphecies |-> signedPower'[q]]
    BY Zenon, <1>1 DEF PaidOK
<1> QED BY Zenon, <1>3, <1>4 DEF PaidOK

\* The lists and the funds of the contracts.  No token but ether is locked, so what
\* is unlocked is ether.
ListsOK ==
    /\ lockedTokenList = [s \in Symbols |-> Zero]
    /\ lowerToUpperTokens \in [Symbols -> Symbols \cup {Unset}]
    /\ controlledBridgeTokens \in [Symbols -> BridgeTokens \cup {Zero}]
    /\ cosmosWhiteList \subseteq BridgeTokens
FundsOK == held \in [Assets -> Int] /\ minted \in [BridgeTokens -> Int]
PaidReached == \A p \in EthProphecies : completed[p] # <<>> => Reached(signedPower[p])
ContractsOK == ListsOK /\ FundsOK /\ PaidOK /\ PaidReached

\* What a vote that pays does: ether leaves the bank, or a bridge token is minted.
Pays(p, t) ==
    /\ completed' = [completed EXCEPT ![p] = Append(@, t)]
    /\ IF p.type = "Burn"
       THEN t = Zero /\ held' = [held EXCEPT ![Zero] = @ - p.amount] /\ minted' = minted
       ELSE t \in BridgeTokens /\ minted' = [minted EXCEPT ![t] = @ + p.amount] /\ held' = held

\* The lists that a vote leaves have their types.
LEMMA VoteLists ==
    ASSUME ListsOK, NEW s \in Symbols, NEW lists, lists \in {createNewBridgeToken(s), Lists}
    PROVE  /\ lists.ltu \in [Symbols -> Symbols \cup {Unset}]
           /\ lists.tokens \in [Symbols -> BridgeTokens \cup {Zero}]
           /\ lists.white \subseteq BridgeTokens
<1>1. CASE lists = Lists
    BY Zenon, <1>1 DEF Lists, ListsOK
<1>2. CASE lists = createNewBridgeToken(s)
    <2>1. Deployed(s) \in BridgeTokens /\ Lower[s] \in Symbols
        BY Zenon, SymbolAssumption DEF BridgeTokens
    <2>2. /\ lists.ltu = [lowerToUpperTokens EXCEPT ![Lower[s]] = s]
          /\ lists.tokens = [controlledBridgeTokens EXCEPT ![s] = Deployed(s)]
          /\ lists.white = cosmosWhiteList \cup {Deployed(s)}
        BY Zenon, <1>2 DEF createNewBridgeToken
    <2> QED BY Zenon, <2>1, <2>2 DEF ListsOK
<1> QED BY Zenon, <1>1, <1>2

\* Resolving a symbol gives a symbol.
LEMMA ResolvedOnFury ==
    ASSUME NEW map \in [Symbols -> Symbols \cup {Unset}], NEW s \in Symbols
    PROVE  safeLowerToUpperTokens(map, s) \in Symbols
BY Zenon DEF safeLowerToUpperTokens

\* A vote keeps the contracts' state; it pays a prophecy that was not paid, or none.
LEMMA VoteEffect ==
    ASSUME ContractsOK, NEW v, NEW p \in EthProphecies, newProphecyClaim(v, p), UNCHANGED totalPower
    PROVE  /\ ListsOK' /\ completed[p] = <<>>
           /\ UNCHANGED <<held, minted, completed>> \/ \E t : Pays(p, t)
<1> DEFINE s == safeLowerToUpperTokens(lowerToUpperTokens, p.symbol)
           lists == IF signedPower[p] = 0 /\ p.type = "Lock" /\ controlledBridgeTokens[s] = Zero
                    THEN createNewBridgeToken(s) ELSE Lists
<1>1. /\ lowerToUpperTokens' = lists.ltu
      /\ controlledBridgeTokens' = lists.tokens
      /\ cosmosWhiteList' = lists.white
      /\ completeProphecyClaim(p, lists) \/ UNCHANGED <<held, minted, completed>>
      /\ lockedTokenList' = lockedTokenList
      /\ ~Reached(signedPower[p])
    BY Zenon DEF newProphecyClaim
<1>2. p.symbol \in Symbols /\ p.type \in {"Burn", "Lock"} /\ s \in Symbols
    BY Zenon, ProphecyAssumption, ResolvedOnFury DEF ContractsOK, ListsOK
<1>3. lists \in {createNewBridgeToken(s), Lists}
    BY Zenon
<1> HIDE DEF s, lists
<1>4. /\ lists.ltu \in [Symbols -> Symbols \cup {Unset}]
      /\ lists.tokens \in [Symbols -> BridgeTokens \cup {Zero}]
      /\ lists.white \subseteq BridgeTokens
    BY Zenon, <1>2, <1>3, VoteLists DEF ContractsOK
<1>5. ListsOK'
    BY Zenon, <1>1, <1>4 DEF ContractsOK, ListsOK
<1>6. completed[p] = <<>>
    BY Zenon, <1>1 DEF ContractsOK, PaidReached
<1>7. CASE completeProphecyClaim(p, lists) /\ p.type = "Burn"
    <2>1. safeLowerToUpperTokens(lists.ltu, p.symbol) \in Symbols
        BY Zenon, <1>2, <1>4, ResolvedOnFury
    <2>2. unlockedAsset(lists, p.symbol) = Zero
        BY Zenon, <2>1 DEF unlockedAsset, ContractsOK, ListsOK
    <2>3. Pays(p, Zero)
        BY Zenon, <1>7, <2>2 DEF completeProphecyClaim, unlock, Pays
    <2> QED BY Zenon, <1>5, <1>6, <2>3
<1>8. CASE completeProphecyClaim(p, lists) /\ p.type # "Burn"
    <2>1. safeLowerToUpperTokens(lists.ltu, p.symbol) \in Symbols
        BY Zenon, <1>2, <1>4, ResolvedOnFury
    <2>2. PICK t : t = mintedToken(lists, p.symbol)
        BY Zenon
    <2>3. t \in BridgeTokens \cup {Zero}
        BY Zenon, <1>4, <2>1, <2>2 DEF mintedToken
    <2>4. Pays(p, t)
        BY Zenon, <1>8, <2>2, <2>3 DEF completeProphecyClaim, mintBridgeTokens, Pays
    <2> QED BY Zenon, <1>5, <1>6, <2>4
<1> QED BY Zenon, <1>1, <1>5, <1>6, <1>7, <1>8
\* The messages that the blocks hold, one more message or one more block.
LEMMA EmittedMore ==
    ASSUME NEW c \in Seq(Seq(FuryMessages)), NEW s \in Seq(FuryMessages), NEW m \in FuryMessages
    PROVE  Emitted(Append(c, Append(s, m))) = Emitted(Append(c, s)) \cup {m}
<1> DEFINE b == Append(c, s)
           d == Append(c, Append(s, m))
<1>1. DOMAIN b = 1 .. Len(c) + 1 /\ DOMAIN d = 1 .. Len(c) + 1
    OBVIOUS
<1>2. \A n \in 1 .. Len(c) : b[n] = c[n] /\ d[n] = c[n]
    OBVIOUS
<1>3. b[Len(c) + 1] = s /\ d[Len(c) + 1] = Append(s, m)
    BY SMTT(30)
<1>4. In(Append(s, m)) = In(s) \cup {m}
    <2>1. DOMAIN Append(s, m) = 1 .. Len(s) + 1 /\ DOMAIN s = 1 .. Len(s) /\ Len(s) \in Nat
        OBVIOUS
    <2>2. \A i \in 1 .. Len(s) : Append(s, m)[i] = s[i]
        OBVIOUS
    <2>3. Append(s, m)[Len(s) + 1] = m
        OBVIOUS
    <2>4. PICK k \in Nat : k = Len(s)
        OBVIOUS
    <2>5. \A i \in 1 .. k + 1 : i \in 1 .. k \/ i = k + 1
        OBVIOUS
    <2>6. 1 .. k \subseteq 1 .. k + 1 /\ k + 1 \in 1 .. k + 1
        OBVIOUS
    <2> QED BY Zenon, <2>1, <2>2, <2>3, <2>4, <2>5, <2>6 DEF In
<1>5. PICK l \in Nat : l = Len(c)
    OBVIOUS
<1>6. \A n \in 1 .. l + 1 : n \in 1 .. l \/ n = l + 1
    OBVIOUS
<1>7. 1 .. l \subseteq 1 .. l + 1 /\ l + 1 \in 1 .. l + 1
    OBVIOUS
<1> HIDE DEF b, d
<1>8. Emitted(d) = Emitted(b) \cup {m}
    <2>1. \A n \in 1 .. l : b[n] = d[n]
        BY Zenon, <1>2, <1>5
    <2>2. In(d[l + 1]) = In(b[l + 1]) \cup {m}
        BY Zenon, <1>3, <1>4, <1>5
    <2>3. DOMAIN b = 1 .. l + 1 /\ DOMAIN d = 1 .. l + 1
        BY Zenon, <1>1, <1>5
    <2>4. ASSUME NEW x \in Emitted(d)
          PROVE  x \in Emitted(b) \cup {m}
        <3>1. PICK n \in 1 .. l + 1 : x \in In(d[n])
            BY Zenon, <2>3 DEF Emitted
        <3>2. x \in In(b[n]) \cup {m}
            BY Zenon, <1>6, <2>1, <2>2, <3>1
        <3> QED BY Zenon, <2>3, <3>2 DEF Emitted
    <2>5. ASSUME NEW x \in Emitted(b)
          PROVE  x \in Emitted(d)
        <3>1. PICK n \in 1 .. l + 1 : x \in In(b[n])
            BY Zenon, <2>3 DEF Emitted
        <3>2. x \in In(d[n])
            BY Zenon, <1>6, <2>1, <2>2, <3>1
        <3> QED BY Zenon, <2>3, <3>2 DEF Emitted
    <2>6. m \in Emitted(d)
        BY Zenon, <1>7, <2>2, <2>3 DEF Emitted
    <2> QED BY Zenon, <2>4, <2>5, <2>6
<1> QED BY Zenon, <1>8 DEF b, d

\* An empty block holds no message.
LEMMA EmittedSame ==
    ASSUME NEW b \in Seq(Seq(FuryMessages))
    PROVE  Emitted(Append(b, <<>>)) = Emitted(b)
<1> DEFINE d == Append(b, <<>>)
<1>1. PICK l \in Nat : l = Len(b) /\ DOMAIN b = 1 .. l /\ DOMAIN d = 1 .. l + 1
    OBVIOUS
<1>2. \A n \in 1 .. l : d[n] = b[n]
    BY <1>1
<1>3. d[l + 1] = <<>>
    BY <1>1
<1>4. In(<<>>) = {}
    BY DEF In
<1>5. \A n \in 1 .. l + 1 : n \in 1 .. l \/ n = l + 1
    OBVIOUS
<1>6. 1 .. l \subseteq 1 .. l + 1
    OBVIOUS
<1> HIDE DEF d
<1>7. ASSUME NEW x \in Emitted(d)
      PROVE  x \in Emitted(b)
    <2>1. PICK n \in 1 .. l + 1 : x \in In(d[n])
        BY Zenon, <1>1 DEF Emitted
    <2>2. n \in 1 .. l /\ x \in In(b[n])
        BY Zenon, <1>2, <1>3, <1>4, <1>5, <2>1
    <2> QED BY Zenon, <1>1, <2>2 DEF Emitted
<1>8. ASSUME NEW x \in Emitted(b)
      PROVE  x \in Emitted(d)
    <2>1. PICK n \in 1 .. l : x \in In(b[n])
        BY Zenon, <1>1 DEF Emitted
    <2> QED BY Zenon, <1>1, <1>2, <1>6, <2>1 DEF Emitted
<1>9. Emitted(d) = Emitted(b)
    BY Zenon, <1>7, <1>8
<1> QED BY Zenon, <1>9 DEF d
\* The prophecies that the messages of Furynet ask for.  What is in the pool and
\* what is paid was asked for.
Asked == ProphecyClaims(Blocks)
PoolOK ==
    /\ \A q \in ethPool : q[2] \in Asked
    /\ \A p \in EthProphecies : completed[p] # <<>> => p \in Asked

\* A prophecy asked for is one of the prophecies.
LEMMA AskedTypes ==
    ASSUME MessagesApart, MessagesOK
    PROVE  Asked \subseteq EthProphecies /\ Emitted(Blocks) \subseteq FuryMessages
           /\ Blocks \in Seq(Seq(FuryMessages))
<1>1. Blocks \in Seq(Seq(FuryMessages))
    BY DEF MessagesOK, Blocks
<1>2. ASSUME NEW m \in Emitted(Blocks) PROVE m \in FuryMessages
    <2>1. PICK n \in DOMAIN Blocks : m \in In(Blocks[n])
        BY Zenon DEF Emitted
    <2>2. Blocks[n] \in Seq(FuryMessages)
        BY <1>1
    <2>3. PICK i \in DOMAIN Blocks[n] : m = Blocks[n][i]
        BY Zenon, <2>1 DEF In
    <2> QED BY <2>2, <2>3
<1> QED BY Zenon, <1>1, <1>2 DEF Asked, ProphecyClaims, MessagesApart, ClaimOf

\* A message asks for a prophecy that was not asked for.
LEMMA MessageAsks ==
    ASSUME MessagesApart, MessagesOK, NEW m \in FuryMessages, FuryMessage(m)
    PROVE  Asked' = Asked \cup {ClaimOf(m)} /\ ClaimOf(m) \notin Asked
<1>1. /\ furyChain' = furyChain /\ furyNext' = Append(furyNext, m)
      /\ m \notin Emitted(Blocks)
    BY Zenon DEF FuryMessage, Blocks
<1>2. Emitted(Append(furyChain, Append(furyNext, m))) = Emitted(Blocks) \cup {m}
    BY EmittedMore DEF MessagesOK, Blocks
<1>3. PICK b : b = Append(furyChain, Append(furyNext, m))
    BY Zenon
<1>4. Asked' = {BurnLockEventToCosmosMsg(x) : x \in Emitted(b)}
    BY <1>1, <1>3 DEF Asked, Blocks, ProphecyClaims, Emitted, In, BurnLockEventToCosmosMsg,
                      FurynetToEthereum
<1>5. Asked' = Asked \cup {ClaimOf(m)}
    BY Zenon, <1>2, <1>3, <1>4 DEF Asked, ProphecyClaims, ClaimOf
<1>6. ClaimOf(m) \notin Asked
    BY Zenon, <1>1, AskedTypes DEF Asked, ProphecyClaims, ClaimOf, MessagesApart
<1> QED BY Zenon, <1>5, <1>6

\* Nothing else does: a block that is done holds the messages of the block being
\* made.
LEMMA BlockAsksNothing ==
    ASSUME MessagesApart, MessagesOK, FuryBlock \/ UNCHANGED <<furyChain, furyNext>>
    PROVE  Asked' = Asked
<1>1. CASE UNCHANGED <<furyChain, furyNext>>
    BY <1>1 DEF Asked, Blocks, ProphecyClaims, Emitted, In, BurnLockEventToCosmosMsg,
                FurynetToEthereum
<1>2. CASE FuryBlock
    <2>1. furyChain' = Blocks /\ furyNext' = <<>>
        BY Zenon, <1>2 DEF FuryBlock, Blocks
    <2>2. PICK b : b = Append(Blocks, <<>>)
        BY Zenon
    <2>3. Emitted(b) = Emitted(Blocks)
        BY Zenon, <2>2, AskedTypes, EmittedSame
    <2>4. Blocks' = b
        BY Zenon, <2>1, <2>2 DEF Blocks
    <2>5. Asked' = {BurnLockEventToCosmosMsg(x) : x \in Emitted(b)}
        BY <2>4 DEF Asked, ProphecyClaims, Emitted, In, BurnLockEventToCosmosMsg,
                    FurynetToEthereum
    <2> QED BY Zenon, <2>3, <2>5 DEF Asked, ProphecyClaims
<1> QED BY Zenon, <1>1, <1>2

\* What a step of CosmosSub's side does to the messages and the pool.
LEMMA PoolChange ==
    ASSUME FuryInv, FuryStep
    PROVE  /\ \/ \E m \in FuryMessages : FuryMessage(m)
              \/ FuryBlock
              \/ UNCHANGED <<furyChain, furyNext>>
           /\ \A q \in ethPool' : q \in ethPool \/ q[2] \in Asked
<1>0. MessagesOK
    BY Zenon DEF FuryInv
<1>1. CASE FuryBlock
    BY Zenon, <1>1 DEF FuryBlock, ethPoolVars
<1>2. ASSUME NEW v \in Validators, FuryRelayer(v) \/ NoReceipt(v)
      PROVE  /\ UNCHANGED <<furyChain, furyNext>>
             /\ \A q \in ethPool' : q \in ethPool \/ q[2] \in Asked
    <2>1. CASE HandleBurnLockMsg(v)
        <3>1. /\ UNCHANGED <<furyChain, furyNext>> /\ AtMessage(v)
              /\ ethPool' \subseteq ethPool \cup {<<v, ClaimOf(Message(v))>>}
            BY Zenon, <2>1 DEF HandleBurnLockMsg, ClaimOf
        <3>2. ClaimOf(Message(v)) \in Asked
            <4>1. PICK n \in Nat, i \in Nat \ {0}, k \in Nat : n = furySub[v].last /\ i = furySub[v].pos
                                                      /\ k = furySub[v].seen /\ n < k /\ k <= Len(furyChain)
                BY Zenon, <3>1 DEF AtMessage, Reading, FuryInv, FuryCursorOK, Follows, GoroutineTypes
            <4>2. n + 1 \in DOMAIN furyChain /\ furyChain[n + 1] \in Seq(FuryMessages)
                BY SMTT(30), <1>0, <4>1 DEF MessagesOK
            <4>3. i \in DOMAIN furyChain[n + 1] /\ Message(v) = furyChain[n + 1][i]
                BY SMTT(30), <3>1, <4>1, <4>2 DEF AtMessage, Message, Block
            <4>4. n + 1 \in DOMAIN Blocks /\ Blocks[n + 1] = furyChain[n + 1]
                BY SMTT(30), <1>0, <4>2 DEF MessagesOK, Blocks
            <4>5. Message(v) \in Emitted(Blocks)
                BY <4>3, <4>4 DEF Emitted, In
            <4> QED BY Zenon, <4>5 DEF Asked, ProphecyClaims, ClaimOf
        <3> QED BY <3>1, <3>2
    <2>2. CASE ~HandleBurnLockMsg(v)
        BY Zenon, <1>2, <2>2 DEF FuryRelayer, NewBlock, CaughtUp, Receipt, FuryPut,
                          NoReceipt, ethPoolVars
    <2> QED BY Zenon, <2>1, <2>2
<1>3. ASSUME NEW q \in ethPool, Mined(q[1], q[2]) \/ LoseTx(q[1], q[2])
      PROVE  UNCHANGED <<furyChain, furyNext>> /\ ethPool' \subseteq ethPool
    BY Zenon, <1>3 DEF Mined, LoseTx
<1>4. ASSUME NEW v \in setup.operators, FuryReplay(v)
      PROVE  /\ UNCHANGED <<furyChain, furyNext>>
             /\ \A q \in ethPool' : q \in ethPool \/ q[2] \in Asked
    <2>1. UNCHANGED <<furyChain, furyNext>>
          /\ ethPool' \subseteq ethPool \cup {<<v, ClaimOf(m)>> : m \in Emitted(furyChain)}
        BY Zenon, <1>4 DEF FuryReplay, ClaimOf
    <2>2. Emitted(furyChain) \subseteq Emitted(Blocks)
        <3>1. \A n \in DOMAIN furyChain : n \in DOMAIN Blocks /\ Blocks[n] = furyChain[n]
            BY <1>0 DEF MessagesOK, Blocks
        <3> QED BY Zenon, <3>1 DEF Emitted
    <2>3. \A m \in Emitted(furyChain) : ClaimOf(m) \in Asked
        BY Zenon, <2>2 DEF Asked, ProphecyClaims, ClaimOf
    <2> QED BY SMTT(30), <2>1, <2>3
<1>5. ASSUME NEW m \in FuryMessages, FuryMessage(m)
      PROVE  ethPool' = ethPool
    BY Zenon, <1>5 DEF FuryMessage, ethPoolVars
<1>6. ASSUME NEW v \in Validators, FuryStart(v) \/ FuryStop(v)
      PROVE  UNCHANGED <<furyChain, furyNext, ethPool>>
    BY Zenon, <1>6 DEF FuryStart, FuryStop, ethPoolVars
<1>7. CASE UNCHANGED furyState
    BY Zenon, <1>7 DEF furyState
<1> QED BY Zenon, <1>1, <1>2, <1>3, <1>4, <1>5, <1>6, <1>7 DEF FuryStep

\* At first nothing is paid and nothing is asked for.
LEMMA ContractsStart ==
    ASSUME Begins
    PROVE  ContractsOK /\ PoolOK
<1>1. /\ lockedTokenList = [s \in Symbols |-> Zero]
      /\ lowerToUpperTokens = [s \in Symbols |-> IF s \in {"eth", "efury"} THEN s ELSE Unset]
      /\ controlledBridgeTokens = [s \in Symbols |-> Zero]
      /\ cosmosWhiteList = {}
      /\ held = GenesisHeld /\ minted = [t \in BridgeTokens |-> 0]
      /\ signedPower = [p \in EthProphecies |-> 0]
      /\ completed = [p \in EthProphecies |-> <<>>]
      /\ ethPool = {}
    BY Zenon DEF Begins
<1>2. ListsOK
    BY Zenon, <1>1 DEF ListsOK
<1>3. FundsOK
    BY SMTT(30), <1>1, HeldAssumption DEF FundsOK
<1>4. PaidOK /\ PaidReached
    BY <1>1 DEF PaidOK, PaidReached, EnoughMeansPaid
<1>5. PoolOK
    BY Zenon, <1>1 DEF PoolOK
<1> QED BY Zenon, <1>2, <1>3, <1>4, <1>5 DEF ContractsOK

\* Only a vote changes what is paid: a step that leaves the lists, the votes and
\* the payments alone keeps what holds of the contracts.
LEMMA ContractsKept ==
    ASSUME ContractsOK, FundsOK',
           UNCHANGED <<lockedTokenList, lowerToUpperTokens, controlledBridgeTokens, cosmosWhiteList,
                       totalPower, signedPower, completed>>
    PROVE  ContractsOK'
BY Zenon DEF ContractsOK, ListsOK, PaidOK, PaidReached, EnoughMeansPaid, Reached

\* A vote keeps what holds of the contracts; it pays a prophecy that was not paid,
\* or none.
LEMMA VoteKeeps ==
    ASSUME ContractsOK, NEW v, NEW p \in EthProphecies, newProphecyClaim(v, p)
    PROVE  /\ ContractsOK' /\ completed[p] = <<>>
           /\ UNCHANGED <<held, minted, completed>> \/ \E t : Pays(p, t)
<1>1. UNCHANGED totalPower
    BY Zenon DEF newProphecyClaim, valsetVars
<1>2. /\ ListsOK' /\ completed[p] = <<>>
      /\ UNCHANGED <<held, minted, completed>> \/ \E t : Pays(p, t)
    BY Zenon, <1>1, VoteEffect
<1>3. p.amount \in Nat /\ p.type \in {"Burn", "Lock"}
    BY Zenon, ProphecyAssumption
<1>4. FundsOK' /\ completed' \in [EthProphecies -> Seq(Assets \cup BridgeTokens)]
    <2>1. CASE UNCHANGED <<held, minted, completed>>
        BY Zenon, <2>1 DEF ContractsOK, FundsOK, PaidOK
    <2>2. ASSUME NEW t, Pays(p, t)
          PROVE  FundsOK' /\ completed' \in [EthProphecies -> Seq(Assets \cup BridgeTokens)]
        <3>1. Zero \in Assets
            BY Zenon DEF Assets
        <3>2. t \in Assets \cup BridgeTokens
            BY Zenon, <2>2, <3>1 DEF Pays
        <3>3. completed[p] \in Seq(Assets \cup BridgeTokens)
            BY Zenon DEF ContractsOK, PaidOK
        <3>4. Append(completed[p], t) \in Seq(Assets \cup BridgeTokens)
            BY <3>2, <3>3
        <3>5. completed' \in [EthProphecies -> Seq(Assets \cup BridgeTokens)]
            BY Zenon, <2>2, <3>4 DEF Pays, ContractsOK, PaidOK
        <3>6. FundsOK'
            BY SMTT(30), <1>3, <2>2, <3>1 DEF Pays, FundsOK, ContractsOK
        <3> QED BY Zenon, <3>5, <3>6
    <2> QED BY Zenon, <1>2, <2>1, <2>2
<1>5. PaidOK'
    BY Zenon, <1>1, <1>4, VotePays DEF ContractsOK
<1>6. PaidReached'
    <2>1. PICK signed : signedPower' = [signedPower EXCEPT ![p] = signed]
                        /\ (Reached(signed) \/ completed' = completed)
        BY Zenon DEF newProphecyClaim
    <2>2. \A n : Reached(n)' <=> Reached(n)
        BY Zenon, <1>1 DEF Reached
    <2>3. ASSUME NEW q \in EthProphecies, completed'[q] # <<>>
          PROVE  Reached(signedPower'[q])
        <3>1. CASE q # p
            <4>1. completed'[q] = completed[q] /\ signedPower'[q] = signedPower[q]
                BY Zenon, <1>2, <2>1, <3>1 DEF Pays, ContractsOK, PaidOK
            <4> QED BY Zenon, <2>3, <4>1 DEF ContractsOK, PaidReached
        <3>2. CASE q = p
            <4>1. completed' # completed
                BY Zenon, <1>2, <2>3, <3>2
            <4> QED BY Zenon, <2>1, <3>2, <4>1 DEF ContractsOK, PaidOK
        <3> QED BY Zenon, <3>1, <3>2
    <2> QED BY Zenon, <1>1, <2>3 DEF PaidReached, Reached
<1> QED BY Zenon, <1>2, <1>4, <1>5, <1>6 DEF ContractsOK

\* A payment is one of a prophecy in the pool.
PaysFromPool == \E q \in ethPool : \E t : Pays(q[2], t)

\* No step puts into the pool, or pays, what was not asked for.
LEMMA PoolKeeps ==
    ASSUME MessagesApart, FuryInv, PoolOK, FuryStep,
           completed \in [EthProphecies -> Seq(Assets \cup BridgeTokens)],
           completed' = completed \/ PaysFromPool
    PROVE  PoolOK' /\ Asked \subseteq Asked'
<1>0. MessagesOK
    BY Zenon DEF FuryInv
<1>1. Asked \subseteq Asked'
    BY Zenon, <1>0, PoolChange, MessageAsks, BlockAsksNothing
<1>2. \A q \in ethPool' : q[2] \in Asked
    BY Zenon, PoolChange DEF PoolOK
<1>3. ASSUME NEW p \in EthProphecies, completed'[p] # <<>>
      PROVE  p \in Asked
    <2>1. CASE completed[p] # <<>>
        BY Zenon, <2>1 DEF PoolOK
    <2>2. CASE completed[p] = <<>>
        <3>1. PICK q \in ethPool : \E t : Pays(q[2], t)
            BY Zenon, <1>3, <2>2 DEF PaysFromPool
        <3>2. p = q[2]
            BY Zenon, <1>3, <2>2, <3>1 DEF Pays
        <3> QED BY Zenon, <3>2 DEF PoolOK
    <2> QED BY Zenon, <2>1, <2>2
<1> QED BY Zenon, <1>1, <1>2, <1>3 DEF PoolOK

-----------------------------------------------------------------------------
(***************************************************************************)
(* What is in flight to Ethereum: asked for and not paid.                  *)
(***************************************************************************)
Unpaid(type) == {p \in Asked : p.type = type /\ completed[p] = <<>>}

\* Every prophecy in flight is one of a message.
LEMMA UnpaidTypes ==
    ASSUME MessagesApart, MessagesOK, NEW type
    PROVE  /\ Unpaid(type) \subseteq EthProphecies
           /\ Unpaid(type) \subseteq {ClaimOf(m) : m \in FuryMessages}
<1>1. Asked \subseteq {ClaimOf(m) : m \in FuryMessages}
    BY Zenon, AskedTypes DEF Asked, ProphecyClaims, ClaimOf
<1>2. Asked \subseteq EthProphecies
    BY Zenon, AskedTypes
<1> QED BY Zenon, <1>1, <1>2 DEF Unpaid

\* A payment takes its prophecy, and no other, from what is in flight.
LEMMA PaymentLands ==
    ASSUME MessagesApart, MessagesOK,
           completed \in [EthProphecies -> Seq(Assets \cup BridgeTokens)],
           NEW p \in Asked, completed[p] = <<>>, NEW t, Pays(p, t), Asked' = Asked, NEW type
    PROVE  /\ Unpaid(type)' = Unpaid(type) \ {p}
           /\ p.type = type => p \in Unpaid(type)
           /\ p.type # type => p \notin Unpaid(type)
<1>0. p \in EthProphecies /\ Asked \subseteq EthProphecies
    BY Zenon, AskedTypes
<1>1. completed' = [completed EXCEPT ![p] = Append(<<>>, t)]
    BY Zenon DEF Pays
<1>2. \A x \in EthProphecies : completed'[x] = IF x = p THEN <<t>> ELSE completed[x]
    BY SMTT(30), <1>0, <1>1
<1>3. Unpaid(type)' = {x \in Asked : x.type = type /\ completed'[x] = <<>>}
    BY Zenon DEF Unpaid
<1>4. \A x \in Asked : completed'[x] = <<>> <=> (x # p /\ completed[x] = <<>>)
    <2>1. <<t>> # <<>>
        BY Zenon
    <2> QED BY ONLY Zenon, <1>0, <1>2, <2>1, completed[p] = <<>>
<1>5. Unpaid(type)' = Unpaid(type) \ {p}
    BY ONLY Zenon, SMTT(30), <1>3, <1>4 DEF Unpaid
<1> QED BY Zenon, <1>5 DEF Unpaid

\* A message puts its prophecy into what is in flight.
LEMMA MessageLeaves ==
    ASSUME MessagesApart, MessagesOK, PoolOK, NEW m \in FuryMessages, FuryMessage(m),
           completed' = completed, NEW type
    PROVE  /\ ClaimOf(m) \in EthProphecies /\ ClaimOf(m).amount = m.amount
           /\ m.type = type =>
                Unpaid(type)' = Unpaid(type) \cup {ClaimOf(m)} /\ ClaimOf(m) \notin Unpaid(type)
           /\ m.type # type => Unpaid(type)' = Unpaid(type)
<1>1. PICK p : p = ClaimOf(m) /\ p.type = m.type /\ p.amount = m.amount
    <2>1. ClaimOf(m).type = m.type /\ ClaimOf(m).amount = m.amount
        BY Zenon DEF ClaimOf, BurnLockEventToCosmosMsg
    <2> QED BY Zenon, <2>1
<1>2. p \in EthProphecies /\ p \notin Asked /\ Asked' = Asked \cup {p}
    BY Zenon, <1>1, MessageAsks DEF MessagesApart
<1>3. completed[p] = <<>>
    BY Zenon, <1>2 DEF PoolOK
<1>4. m.type = type => Unpaid(type)' = Unpaid(type) \cup {p} /\ p \notin Unpaid(type)
    <2>1. Unpaid(type)' = {x \in Asked \cup {p} : x.type = type /\ completed[x] = <<>>}
        BY Zenon, <1>2 DEF Unpaid
    <2>2. p \notin Unpaid(type)
        BY Zenon, <1>2 DEF Unpaid
    <2> QED BY ONLY Zenon, <1>1, <1>3, <2>1, <2>2 DEF Unpaid
<1>5. m.type # type => Unpaid(type)' = Unpaid(type)
    BY Zenon, <1>1, <1>2 DEF Unpaid
<1> QED BY Zenon, <1>1, <1>2, <1>4, <1>5

\* Nothing else changes what is in flight.
LEMMA FlightKept ==
    ASSUME MessagesApart, MessagesOK, FuryBlock \/ UNCHANGED <<furyChain, furyNext>>,
           completed' = completed, NEW type
    PROVE  Unpaid(type)' = Unpaid(type)
BY Zenon, BlockAsksNothing DEF Unpaid

-----------------------------------------------------------------------------
(***************************************************************************)
(* The bridge from end to end, on its way from Furynet to Ethereum: every  *)
(* step of Relayer is one that the lemmas are about.                       *)
(***************************************************************************)
\* Every step of Relayer is one that the lemmas are about.
LEMMA StepOfFury ==
    ASSUME [RelayerNext]_vars
    PROVE  FuryStep
<1>1. ASSUME UNCHANGED listSide PROVE FuryStep
    BY Zenon, <1>1 DEF listSide, FuryStep, furyState
<1>2. CASE Ethereum /\ LockAndBurn
    BY Zenon, <1>1, <1>2 DEF LockAndBurn
<1>3. CASE SubNext /\ UNCHANGED furySide
    BY Zenon, <1>1, <1>3 DEF furySide
<1>4. CASE FuryNext /\ UNCHANGED ethereumSide
    <2>1. ASSUME NEW q \in ethPool, MineTx(q[1], q[2]) PROVE Mined(q[1], q[2])
        BY Zenon, <2>1 DEF MineTx, Mined
    <2> QED BY Zenon, <1>4, <2>1 DEF FuryNext, FuryStep
<1>5. ASSUME NEW m \in FuryMessages, Send(m) PROVE FuryStep
    BY Zenon, <1>5 DEF Send, FuryStep
<1>6. CASE TogglePause
    BY Zenon, <1>1, <1>6 DEF TogglePause
<1>7. ASSUME NEW v \in Validators, StartRelayer(v) PROVE FuryStep
    <2>1. CASE FuryStart(v)
        BY Zenon, <2>1 DEF FuryStep
    <2>2. CASE UNCHANGED furySide
        BY Zenon, <1>1, <2>2 DEF furySide
    <2> QED BY Zenon, <1>7, <2>1, <2>2 DEF StartRelayer
<1>8. ASSUME NEW v \in Validators, Crash(v) PROVE FuryStep
    BY Zenon, <1>8 DEF Crash, FuryStep
<1>9. CASE UNCHANGED vars
    BY Zenon, <1>1, <1>9 DEF vars, furySide
<1> QED BY Zenon, <1>2, <1>3, <1>4, <1>5, <1>6, <1>7, <1>8, <1>9 DEF RelayerNext

\* Messages that differ ask for prophecies that differ, in the terms of the lemmas.
LEMMA MessagesAreApart == MessagesApart
BY Zenon, MessageAssumption DEF MessagesApart, ClaimOf

\* Every step of the bridge keeps the invariant of CosmosSub's side.
LEMMA RelayerKeepsFury ==
    ASSUME FuryInv, [RelayerNext]_vars
    PROVE  FuryInv'
BY Zenon, StepOfFury, MessagesAreApart, FuryStepKeeps

\* The initial states are those that the lemmas start from.
LEMMA RelayerBegins ==
    ASSUME RelayerInit
    PROVE  Begins
BY Zenon DEF RelayerInit, Begins, FuryInit, ContractInit, BankInit

\* Nothing that CosmosSub has read and saved its cursor past goes unsent, unless
\* it was given up after five attempts.
THEOREM FuryCursorsPassNothing == RelayerSpec => []FuryBehindCursorHandled
<1>1. RelayerInit => FuryInv
    BY Zenon, RelayerBegins, FuryStarts
<1>2. FuryInv /\ [RelayerNext]_vars => FuryInv'
    BY Zenon, RelayerKeepsFury
<1>3. FuryInv => FuryBehindCursorHandled
    BY Zenon, FuryInvMeans
<1> QED BY <1>1, <1>2, <1>3, PTL DEF RelayerSpec

-----------------------------------------------------------------------------
(***************************************************************************)
(* The contracts.                                                          *)
(***************************************************************************)
valset == <<active, ethPower, validatorCount, totalPower>>
contracts == <<lockedTokenList, lowerToUpperTokens, controlledBridgeTokens, cosmosWhiteList,
               held, minted, signedPower, completed>>

\* A step of CosmosSub or of its chains votes on a prophecy, or leaves the
\* contracts alone.
LEMMA FuryNextDoes ==
    ASSUME FuryNext
    PROVE  /\ UNCHANGED valset
           /\ \/ UNCHANGED contracts /\ (FuryBlock \/ UNCHANGED <<furyChain, furyNext>>)
              \/ /\ \E q \in ethPool : newProphecyClaim(q[1], q[2])
                 /\ UNCHANGED <<furyChain, furyNext>>
<1> USE DEF valset, contracts, contractVars, bridgeBankVars, valsetVars, voteVars
<1>1. ASSUME NEW q \in ethPool, MineTx(q[1], q[2])
      PROVE  /\ UNCHANGED valset /\ UNCHANGED <<furyChain, furyNext>>
             /\ UNCHANGED contracts \/ newProphecyClaim(q[1], q[2])
    <2>1. CASE newProphecyClaim(q[1], q[2])
        BY Zenon, <1>1, <2>1 DEF MineTx, newProphecyClaim
    <2>2. CASE UNCHANGED contractVars
        BY Zenon, <1>1, <2>2 DEF MineTx
    <2> QED BY Zenon, <1>1, <2>1, <2>2 DEF MineTx
<1>2. CASE FuryBlock
    BY Zenon, <1>2 DEF FuryBlock
<1>3. ASSUME NEW v \in Validators, FuryRelayer(v) \/ NoReceipt(v)
      PROVE  UNCHANGED valset /\ UNCHANGED contracts /\ UNCHANGED <<furyChain, furyNext>>
    BY Zenon, <1>3 DEF FuryRelayer, NewBlock, CaughtUp, HandleBurnLockMsg,
                Receipt, FuryPut, NoReceipt
<1>4. ASSUME NEW q \in ethPool, LoseTx(q[1], q[2])
      PROVE  UNCHANGED valset /\ UNCHANGED contracts /\ UNCHANGED <<furyChain, furyNext>>
    BY Zenon, <1>4 DEF LoseTx
<1>5. ASSUME NEW v \in setup.operators, FuryReplay(v)
      PROVE  UNCHANGED valset /\ UNCHANGED contracts /\ UNCHANGED <<furyChain, furyNext>>
    BY Zenon, <1>5 DEF FuryReplay
<1> QED BY Zenon, <1>1, <1>2, <1>3, <1>4, <1>5 DEF FuryNext

\* A step of the bridge votes on a prophecy, locks and burns, or leaves the
\* contracts alone.
LEMMA ContractsChange ==
    ASSUME [RelayerNext]_vars
    PROVE  /\ UNCHANGED valset
           /\ \/ UNCHANGED contracts
              \/ Ethereum /\ LockAndBurn
              \/ \E q \in ethPool : newProphecyClaim(q[1], q[2])
<1> USE DEF valset, contracts
<1>1. CASE Ethereum /\ LockAndBurn
    BY Zenon, <1>1 DEF LockAndBurn, listSide
<1>2. CASE SubNext /\ UNCHANGED furySide
    BY Zenon, <1>2 DEF furySide, listSide
<1>3. CASE FuryNext /\ UNCHANGED ethereumSide
    BY Zenon, <1>3, FuryNextDoes
<1>4. ASSUME NEW m \in FuryMessages, Send(m)
      PROVE  UNCHANGED valset /\ UNCHANGED contracts
    BY Zenon, <1>4 DEF Send, FuryMessage, contractVars, bridgeBankVars, valsetVars, voteVars
<1>5. CASE TogglePause
    BY Zenon, <1>5 DEF TogglePause, listSide, togglePause, fundVars
<1>6. ASSUME NEW v \in Validators, StartRelayer(v)
      PROVE  UNCHANGED valset /\ UNCHANGED contracts
    BY Zenon, <1>6 DEF StartRelayer, furySide, listSide, FuryStart, contractVars, bridgeBankVars,
                valsetVars, voteVars
<1>7. ASSUME NEW v \in Validators, Crash(v)
      PROVE  UNCHANGED valset /\ UNCHANGED contracts
    BY Zenon, <1>7 DEF Crash, FuryStop, contractVars, bridgeBankVars, valsetVars, voteVars
<1>8. CASE UNCHANGED vars
    BY Zenon, <1>8 DEF vars, furySide, listSide
<1> QED BY <1>1, <1>2, <1>3, <1>4, <1>5, <1>6, <1>7, <1>8 DEF RelayerNext
\* What holds of both goroutines' Furynet side and of the contracts: FuryInv, the
\* types and the payments of the contracts, and that every transaction and every
\* payment is one that a message asked for.
BridgeInv == FuryInv /\ ContractsOK /\ PoolOK

\* The bridge starts with it.
LEMMA RelayerStartsBridge ==
    ASSUME RelayerInit
    PROVE  BridgeInv
BY Zenon, RelayerBegins, FuryStarts, ContractsStart DEF BridgeInv

\* A vote is on a prophecy that a message asked for; it pays that prophecy, which
\* was not paid, or nothing.
LEMMA VoteInPool ==
    ASSUME BridgeInv, NEW q \in ethPool, newProphecyClaim(q[1], q[2])
    PROVE  /\ q[2] \in Asked /\ q[2] \in EthProphecies
           /\ ContractsOK' /\ completed[q[2]] = <<>>
           /\ UNCHANGED <<held, minted, completed>> \/ \E t : Pays(q[2], t)
<1>1. q[2] \in Asked
    BY Zenon DEF BridgeInv, PoolOK
<1>2. MessagesOK
    BY Zenon DEF BridgeInv, FuryInv
<1>3. Asked \subseteq EthProphecies
    BY Zenon, <1>2, MessagesAreApart, AskedTypes
<1>4. ContractsOK
    BY Zenon DEF BridgeInv
<1>5. PICK v, p : v = q[1] /\ p = q[2] /\ p \in EthProphecies /\ newProphecyClaim(v, p)
    BY Zenon, <1>1, <1>3
<1>6. /\ ContractsOK' /\ completed[p] = <<>>
      /\ UNCHANGED <<held, minted, completed>> \/ \E t : Pays(p, t)
    BY Zenon, <1>4, <1>5, VoteKeeps
<1> QED BY Zenon, <1>1, <1>5, <1>6

\* Every step of the bridge keeps it; that the amounts stay integers when blocks
\* are added or replaced is left to the caller.
LEMMA RelayerKeepsBridge ==
    ASSUME BridgeInv, [RelayerNext]_vars, Ethereum /\ LockAndBurn => FundsOK'
    PROVE  BridgeInv'
<1>1. FuryInv'
    BY Zenon, RelayerKeepsFury DEF BridgeInv
<1>2. ContractsOK' /\ (completed' = completed \/ PaysFromPool)
    <2>1. ASSUME UNCHANGED valset, UNCHANGED contracts
          PROVE  ContractsOK' /\ completed' = completed
        <3>1. FundsOK'
            BY Zenon, <2>1 DEF contracts, BridgeInv, ContractsOK, FundsOK
        <3> QED BY Zenon, <2>1, <3>1, ContractsKept DEF contracts, valset, BridgeInv
    <2>2. CASE Ethereum /\ LockAndBurn
        <3>1. UNCHANGED <<lockedTokenList, lowerToUpperTokens, controlledBridgeTokens, cosmosWhiteList,
                          totalPower, signedPower, completed>>
            BY Zenon, <2>2 DEF LockAndBurn, listSide
        <3>2. ContractsOK'
            BY Zenon, <2>2, <3>1, ContractsKept DEF BridgeInv
        <3> QED BY Zenon, <3>1, <3>2
    <2>3. ASSUME NEW q \in ethPool, newProphecyClaim(q[1], q[2])
          PROVE  ContractsOK' /\ (completed' = completed \/ PaysFromPool)
        BY Zenon, <2>3, VoteInPool DEF PaysFromPool
    <2> QED BY Zenon, <2>1, <2>2, <2>3, ContractsChange
<1>3. completed \in [EthProphecies -> Seq(Assets \cup BridgeTokens)]
    BY Zenon DEF BridgeInv, ContractsOK, PaidOK
<1>4. PoolOK'
    BY Zenon, <1>2, <1>3, StepOfFury, MessagesAreApart, PoolKeeps DEF BridgeInv
<1> QED BY Zenon, <1>1, <1>2, <1>4 DEF BridgeInv

\* The invariant says that a prophecy with the power it needs is paid.
LEMMA BridgeInvMeans ==
    ASSUME BridgeInv
    PROVE  EnoughMeansPaid
BY Zenon DEF BridgeInv, ContractsOK, PaidOK

=============================================================================
