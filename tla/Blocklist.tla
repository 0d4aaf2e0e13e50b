------------------------------ MODULE Blocklist -----------------------------
(***************************************************************************)
(* The Blocklist contract: a list of addresses with an index into it, kept *)
(* dense by moving the last entry into the place of a removed one.  The    *)
(* index entries of removed addresses stay, and isBlocklisted has to see   *)
(* through them.  The list counts from 0, the sequence from 1.             *)
(***************************************************************************)
EXTENDS Integers, Sequences, Functions

CONSTANTS Accounts, MaxBatch    \* MaxBatch bounds the length of a batch

ASSUME BatchAssumption == MaxBatch \in Nat

VARIABLES userIndex, userList

listState == <<userIndex, userList>>

-----------------------------------------------------------------------------
\* Mutant: the entry found is not compared with the address.
inBounds(index, list, a) == index[a] < Len(list)

isBlocklistedIn(index, list, a) == index[a] < Len(list) /\ list[index[a] + 1] = a
isBlocklisted(a) == isBlocklistedIn(userIndex, userList, a)

\* _addToBlocklist; a failed turn reverts the batch.
Added(st, a) ==
    [ok    |-> st.ok /\ ~isBlocklistedIn(st.index, st.list, a),
     index |-> [st.index EXCEPT ![a] = Len(st.list)],
     list  |-> Append(st.list, a)]

\* Mutant: the moved entry keeps its old index.
RemovedIndexKept(st, a) ==
    IF ~(st.ok /\ isBlocklistedIn(st.index, st.list, a)) THEN [st EXCEPT !.ok = FALSE]
    ELSE LET n == Len(st.list) IN
         [ok    |-> TRUE,
          index |-> st.index,
          list  |-> SubSeq([st.list EXCEPT ![st.index[a] + 1] = st.list[n]], 1, n - 1)]

\* _removeFromBlocklist
Removed(st, a) ==
    IF ~(st.ok /\ isBlocklistedIn(st.index, st.list, a)) THEN [st EXCEPT !.ok = FALSE]
    ELSE LET n == Len(st.list)
             keyToMove == st.list[n]
         IN [ok    |-> TRUE,
             index |-> [st.index EXCEPT ![keyToMove] = st.index[a]],
             list  |-> SubSeq([st.list EXCEPT ![st.index[a] + 1] = keyToMove], 1, n - 1)]

Commit(st) == st.ok /\ userIndex' = st.index /\ userList' = st.list
Now == [ok |-> TRUE, index |-> userIndex, list |-> userList]

addToBlocklist(a) == Commit(Added(Now, a))
removeFromBlocklist(a) == Commit(Removed(Now, a))

\* Mutant: an address that is there already is skipped and the rest added.
batchAddToBlocklistSkips(batch) ==
    LET after[n \in 0 .. Len(batch)] ==
            IF n = 0 THEN Now
            ELSE IF isBlocklistedIn(after[n - 1].index, after[n - 1].list, batch[n]) THEN after[n - 1]
            ELSE Added(after[n - 1], batch[n])
    IN  Commit(after[Len(batch)])

\* A batch takes its addresses in turn.
batchAddToBlocklist(batch) ==
    LET after[n \in 0 .. Len(batch)] == IF n = 0 THEN Now ELSE Added(after[n - 1], batch[n])
    IN  Commit(after[Len(batch)])
batchRemoveFromBlocklist(batch) ==
    LET after[n \in 0 .. Len(batch)] == IF n = 0 THEN Now ELSE Removed(after[n - 1], batch[n])
    IN  Commit(after[Len(batch)])

-----------------------------------------------------------------------------
Batches == UNION {[1 .. n -> Accounts] : n \in 0 .. MaxBatch}

ListInit == userIndex = [a \in Accounts |-> 0] /\ userList = <<>>
SingleStep == \E a \in Accounts : addToBlocklist(a) \/ removeFromBlocklist(a)
BatchStep == \E batch \in Batches : batchAddToBlocklist(batch) \/ batchRemoveFromBlocklist(batch)
ListNext == SingleStep \/ BatchStep
ListSpec == ListInit /\ [][ListNext]_listState

-----------------------------------------------------------------------------
ListTypeOK == userIndex \in [Accounts -> Nat] /\ userList \in Seq(Accounts)

\* Every entry of the list is found through the index of its address, so no
\* address is listed twice and isBlocklisted is true of exactly the listed ones
\* (the stale index of a removed address never points at itself).
IndexAgrees == \A i \in DOMAIN userList : userIndex[userList[i]] = i - 1

Blocked == {a \in Accounts : isBlocklisted(a)}
AddsTo(S) == S \cap Blocked = {} /\ Blocked' = Blocked \cup S
RemovesFrom(S) == S \subseteq Blocked /\ Blocked' = Blocked \ S

\* isBlocklisted answers as a set of addresses would: additions name addresses
\* not in the set and add exactly those, removals name addresses of the set and
\* remove exactly those, whatever stale index entries there are.
SingleIsSet ==
    [][\A a \in Accounts : /\ addToBlocklist(a) => AddsTo({a})
                           /\ removeFromBlocklist(a) => RemovesFrom({a})]_listState

\* The same of batches; a batch that names an address twice reverts.
BatchIsSet ==
    [][\A batch \in Batches : /\ batchAddToBlocklist(batch) => AddsTo(Range(batch))
                              /\ batchRemoveFromBlocklist(batch) => RemovesFrom(Range(batch))]_listState
=============================================================================
