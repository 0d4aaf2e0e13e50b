----------------------------- MODULE IbcTransfer -----------------------------
(***************************************************************************)
(* x/ibctransfer and the token registry it asks: coins leave over an IBC   *)
(* channel, are escrowed in the channel's account, and come back; coins of *)
(* the other chain come in as vouchers.  Earlier releases sent some coins  *)
(* as an alias of fewer decimals, of which some are still abroad: what     *)
(* comes back of an alias is burned and paid from the escrow in the coin   *)
(* it stands for.                                                          *)
(*                                                                         *)
(* External: the SDK's transfer module, the relaying of packets, and the   *)
(* other chains, which send back no more than they were sent.  Core IBC    *)
(* discards what a callback wrote when it returns an error                 *)
(* acknowledgement.                                                        *)
(***************************************************************************)
EXTENDS Integers, FiniteSets, Functions

CONSTANTS
    Channels, Senders,      \* Senders: accounts of users, on any chain
    OwnDenoms,              \* coins of this chain, aliases among them
    Voucher,                \* Voucher[ch]: the denom here of the other chain's coin
    PermissionSets,         \* what an entry may permit: sets of IBCEXPORT, IBCIMPORT
    UnitDenom,              \* unit_denom of a denom's entry: the denom, or what it is an alias of
    Decimals,               \* decimals of a denom's entry; both are given once and for all
    NoEntry,                \* a denom is not in the registry
    Registries,             \* registries that an administrator may set as a whole
    Wallet, Escrow, Abroad, \* who has what at first
    MaxPackets              \* bound: packets

IbcDenoms == OwnDenoms \cup {Voucher[ch] : ch \in Channels}

AliasesOf(d) == {a \in IbcDenoms \ {d} : UnitDenom[a] = d}

\* How many units of the coin it stands for an alias is worth.
Factor(d) == 10 ^ (Decimals[UnitDenom[d]] - Decimals[d])

ASSUME ChannelsAssumption ==
    /\ IsFiniteSet(Channels) /\ IsFiniteSet(Senders) /\ IsFiniteSet(OwnDenoms)
    /\ \A ch \in Channels : Voucher[ch] \notin OwnDenoms
    /\ \A ch, c \in Channels : Voucher[ch] = Voucher[c] => ch = c

\* An alias is a coin of this chain, and has fewer decimals than what it stands
\* for, which is no alias.
ASSUME AliasAssumption ==
    \A d \in IbcDenoms :
        /\ UnitDenom[d] \in IbcDenoms /\ UnitDenom[UnitDenom[d]] = UnitDenom[d]
        /\ UnitDenom[d] # d => d \in OwnDenoms
        /\ Decimals[d] \in Nat /\ Decimals[d] <= Decimals[UnitDenom[d]]
        /\ Factor(d) \in Nat

\* What is in users' wallets and in escrow at first, and what of our coins is
\* abroad: enough in escrow for all of it, and no voucher yet.
ASSUME GenesisAssumption ==
    /\ Wallet \in [Senders -> [IbcDenoms -> Nat]]
    /\ Escrow \in [Channels -> [IbcDenoms -> Nat]] /\ Abroad \in [Channels -> [IbcDenoms -> Nat]]
    /\ \A ch \in Channels : \A d \in IbcDenoms \ {Voucher[ch]} :
           Escrow[ch][d] >= Abroad[ch][d]
               + SumFunctionOnSet([a \in AliasesOf(d) |-> Abroad[ch][a] * Factor(a)], AliasesOf(d))
    /\ \A ch \in Channels : /\ \A u \in Senders : Wallet[u][Voucher[ch]] = 0
                            /\ \A c \in Channels : Escrow[c][Voucher[ch]] = 0

VARIABLES
    registry,   \* the permissions in each denom's entry, or NoEntry
    wallet,     \* external: x/bank, users
    escrow,     \* external: x/bank, the escrow account of each channel
    abroad,     \* external: vouchers of our denoms on the other chain
    foreign,    \* external: what the other chain has escrowed of its own coin
    packets,    \* external: packets on their way: [seq, out, ch, denom, amount, user]
    sequence    \* external: packets sent

ibcVars == <<registry, wallet, escrow, abroad, foreign, packets, sequence>>
coinVars == <<wallet, escrow, abroad, foreign, packets, sequence>>

-----------------------------------------------------------------------------
(* The token registry. *)

(***************************************************************************)
(* The list may hold several entries for a denom, by SetRegistry; only the *)
(* first is ever found or replaced, and Deregister removes them all.       *)
(***************************************************************************)
Registered(d) == registry[d] # NoEntry
CheckEntryPermission(d, permission) == permission \in registry[d]

Register(d, permissions) ==
    /\ registry' = [registry EXCEPT ![d] = permissions]
    /\ UNCHANGED coinVars

Deregister(d) ==
    /\ registry' = [registry EXCEPT ![d] = NoEntry]
    /\ UNCHANGED coinVars

SetRegistry(r) ==
    /\ registry' = r
    /\ UNCHANGED coinVars

-----------------------------------------------------------------------------
(* External: x/bank and the packets of the SDK's transfer module. *)

Add(bank, x, d, n) == [bank EXCEPT ![x][d] = @ + n]

Packet(out, ch, d, n, u) ==
    [seq |-> sequence, out |-> out, ch |-> ch, denom |-> d, amount |-> n, user |-> u]

Enqueue(p) ==
    /\ sequence < MaxPackets
    /\ sequence' = sequence + 1
    /\ packets' = packets \cup {p}

\* This chain is the source of the coin: it is escrowed when it leaves.
Own(p) == p.denom # Voucher[p.ch]

\* Coins leave the user, or come back to them when the packet fails.
TakeOut(p, n) ==
    /\ wallet' = Add(wallet, p.user, p.denom, -n)
    /\ escrow' = IF Own(p) THEN Add(escrow, p.ch, p.denom, n) ELSE escrow

-----------------------------------------------------------------------------
(* Coins that leave. *)

\* Mutant: an alias may be sent.
TransferAny(u, ch, d, n) ==
    /\ Registered(d)
    /\ CheckEntryPermission(d, "IBCEXPORT")
    /\ n <= wallet[u][d]
    /\ LET p == Packet(TRUE, ch, d, n, u) IN Enqueue(p) /\ TakeOut(p, n)
    /\ UNCHANGED <<registry, abroad, foreign>>

Transfer(u, ch, d, n) ==
    /\ Registered(d)
    /\ UnitDenom[d] = d
    /\ CheckEntryPermission(d, "IBCEXPORT")
    /\ n <= wallet[u][d]
    /\ LET p == Packet(TRUE, ch, d, n, u) IN Enqueue(p) /\ TakeOut(p, n)
    /\ UNCHANGED <<registry, abroad, foreign>>

\* The other chain takes the packet.
Arrives(p) ==
    /\ abroad' = IF Own(p) THEN Add(abroad, p.ch, p.denom, p.amount) ELSE abroad
    /\ foreign' = IF Own(p) THEN foreign ELSE [foreign EXCEPT ![p.ch] = @ - p.amount]
    /\ packets' = packets \ {p}
    /\ UNCHANGED <<registry, wallet, escrow, sequence>>

\* OnAcknowledgementPacket with an error, and OnTimeoutPacket: the SDK's refund.
Refund(p) ==
    /\ TakeOut(p, -p.amount)
    /\ packets' = packets \ {p}
    /\ UNCHANGED <<registry, abroad, foreign, sequence>>

-----------------------------------------------------------------------------
(* Coins that come. *)

SendHere(u, ch, d, n) ==
    LET p == Packet(FALSE, ch, d, n, u) IN
    /\ Enqueue(p)
    /\ Own(p) => n <= abroad[ch][d]
    /\ abroad' = IF Own(p) THEN Add(abroad, ch, d, -n) ELSE abroad
    /\ foreign' = IF Own(p) THEN foreign ELSE [foreign EXCEPT ![ch] = @ + n]
    /\ UNCHANGED <<registry, wallet, escrow>>

\* Refused here, or timed out there: the other chain refunds.
SentBack(p) ==
    /\ abroad' = IF Own(p) THEN Add(abroad, p.ch, p.denom, p.amount) ELSE abroad
    /\ foreign' = IF Own(p) THEN foreign ELSE [foreign EXCEPT ![p.ch] = @ - p.amount]
    /\ packets' = packets \ {p}
    /\ UNCHANGED <<registry, sequence>>

\* The alias has an entry, and so does the coin with more decimals it stands for.
Converts(d) ==
    /\ Registered(d) /\ Registered(UnitDenom[d])
    /\ 0 < Decimals[d] /\ Decimals[d] < Decimals[UnitDenom[d]]

\* ConvertIncomingCoins
Converted(d, n) == n * Factor(d)

\* IsRecvPacketAllowed, and the escrow holds what is to be paid from it.
Receivable(p) ==
    /\ Registered(p.denom)
    /\ Own(p) \/ CheckEntryPermission(p.denom, "IBCIMPORT")
    /\ Own(p) => p.amount <= escrow[p.ch][p.denom]
    /\ Converts(p.denom) => Converted(p.denom, p.amount) <= escrow[p.ch][UnitDenom[p.denom]]

\* The SDK's OnRecvPacket, then ExecConvForIncomingCoins.
Pay(p) ==
    LET d == p.denom
        unescrowed == IF Own(p) THEN Add(escrow, p.ch, d, -p.amount) ELSE escrow
    IN  IF Converts(d)
        THEN /\ wallet' = Add(wallet, p.user, UnitDenom[d], Converted(d, p.amount))
             /\ escrow' = Add(unescrowed, p.ch, UnitDenom[d], -Converted(d, p.amount))
        ELSE /\ wallet' = Add(wallet, p.user, d, p.amount)
             /\ escrow' = unescrowed

\* Mutant: what the SDK has written stays although the packet is refused.
OnRecvPacketKeeps(p) ==
    \/ /\ Receivable(p)
       /\ Pay(p)
       /\ packets' = packets \ {p}
       /\ UNCHANGED <<registry, abroad, foreign, sequence>>
    \/ /\ ~Receivable(p)
       /\ Pay(p)
       /\ SentBack(p)

OnRecvPacketWhitelistConvert(p) ==
    \/ /\ Receivable(p)
       /\ Pay(p)
       /\ packets' = packets \ {p}
       /\ UNCHANGED <<registry, abroad, foreign, sequence>>
    \/ /\ ~Receivable(p)
       /\ SentBack(p)
       /\ UNCHANGED <<wallet, escrow>>

-----------------------------------------------------------------------------
IbcInit ==
    /\ registry \in Registries
    /\ wallet = Wallet
    /\ escrow = Escrow
    /\ abroad = Abroad
    /\ foreign = [ch \in Channels |-> 0]
    /\ packets = {}
    /\ sequence = 0

Leaving ==
    \/ \E u \in Senders, ch \in Channels, d \in IbcDenoms :
           \E n \in 1 .. wallet[u][d] : Transfer(u, ch, d, n)
    \/ \E p \in packets : p.out /\ (Arrives(p) \/ Refund(p))

Coming ==
    \/ \E u \in Senders, ch \in Channels : SendHere(u, ch, Voucher[ch], 1)
    \/ \E u \in Senders, ch \in Channels : \E d \in IbcDenoms \ {Voucher[ch]} :
           \E n \in 1 .. abroad[ch][d] : SendHere(u, ch, d, n)
    \/ \E p \in packets :
           /\ ~p.out
           /\ OnRecvPacketWhitelistConvert(p) \/ (SentBack(p) /\ UNCHANGED <<wallet, escrow>>)

RegistryStep ==
    \/ \E d \in IbcDenoms : Deregister(d) \/ \E ps \in PermissionSets : Register(d, ps)
    \/ \E r \in Registries : SetRegistry(r)

IbcNext == Leaving \/ Coming \/ RegistryStep

-----------------------------------------------------------------------------
(* Properties. *)

InFlight(ch, d) ==
    SumFunctionOnSet([p \in packets |-> IF p.ch = ch /\ p.denom = d THEN p.amount ELSE 0], packets)

Owed(ch, d) == abroad[ch][d] + InFlight(ch, d)

\* What is owed for the aliases of d.
OwedForAliases(ch, d) ==
    SumFunctionOnSet([a \in AliasesOf(d) |-> Converted(a, Owed(ch, a))], AliasesOf(d))

\* The escrow of a channel covers all that may come back over it, coins sent as
\* they are and aliases that ExecConvForIncomingCoins pays from the same
\* account, whatever entries come and go in the registry meanwhile.
EscrowCovers ==
    \A ch \in Channels : \A d \in IbcDenoms \ {Voucher[ch]} :
        escrow[ch][d] >= Owed(ch, d) + OwedForAliases(ch, d)

\* Every voucher here stands for a coin that the other chain keeps: a packet
\* refused after the SDK has credited it leaves nothing behind.
VouchersBacked ==
    \A ch \in Channels :
        foreign[ch] = InFlight(ch, Voucher[ch])
                      + SumFunctionOnSet([u \in Senders |-> wallet[u][Voucher[ch]]], Senders)
                      + SumFunctionOnSet([c \in Channels |-> escrow[c][Voucher[ch]]], Channels)

=============================================================================
