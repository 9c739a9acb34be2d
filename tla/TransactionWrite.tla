-------------------------- MODULE TransactionWrite --------------------------
(***************************************************************************)
(* The writers of one Weezevent transaction: its weezeventTransaction row, *)
(* the item rows below it and the payment rows below those.                *)
(*                                                                         *)
(*   chunk        insertTransactionBatch, from the rawData of a chunk      *)
(*   full         a first or forced run of syncTransactionsIncremental     *)
(*   incremental  any other run of it                                      *)
(*   upsert       upsertTransaction, from a webhook or syncTransactions    *)
(*                                                                         *)
(* The first three end in processBatchTransactions, which creates what is  *)
(* missing; the fourth replaces the items.  Every step is one database or  *)
(* API call; none of the sequences is in a database transaction, and the   *)
(* item table has no unique key, so two writers interleave freely.         *)
(*                                                                         *)
(* Abstracted: the transaction goes through the versions 1, 2, ... at      *)
(* Weezevent, and Valid says which of them have the status V; the rows of  *)
(* a version become one item, the payments of a row one payment, because   *)
(* createMany writes them all or none.  The upserts of events, products,   *)
(* merchants and locations are left out: their rows have a unique key.     *)
(***************************************************************************)
EXTENDS Naturals, FiniteSets

CONSTANTS
    Writers,
    Kind,       \* [Writers -> Kinds]
    MaxVersion, \* bound: versions the transaction goes through
    Valid,      \* versions with the status V
    MaxRounds,  \* bound: times a writer starts
    MaxThrows   \* bound: calls that throw

Kinds == {"chunk", "full", "incremental", "upsert"}

ASSUME TransactionWriteAssumption ==
    /\ Kind \in [Writers -> Kinds]
    /\ MaxVersion \in Nat \ {0}
    /\ Valid \subseteq 1..MaxVersion
    /\ MaxRounds \in Nat
    /\ MaxThrows \in Nat

VARIABLES
    remote,     \* version Weezevent returns
    row,        \* version in weezeventTransaction, 0 if there is no row
    items,      \* rows of weezeventTransactionItem
    step,       \* next call of each writer
    got,        \* the version it fetched
    known,      \* its existingIds holds the transaction
    target,     \* the item its payments go to
    rounds,     \* times it has started
    throws,
    overlapped  \* history: two writers have been at work at once

writtenTables == <<row, items>>
locals == <<step, got, known, target>>
writeVars == <<remote, writtenTables, locals, rounds, throws, overlapped>>

Version == 1..MaxVersion
ItemId == Writers \X (1..MaxRounds)
Item == [id : ItemId, of : Version, paid : Nat]
Steps == {"idle", "existing", "fetch", "create", "check", "items",
          "row", "delete", "replace", "find", "pay"}

WriteTypeOK ==
    /\ remote \in Version
    /\ row \in 0..MaxVersion
    /\ items \in SUBSET Item
    /\ step \in [Writers -> Steps]
    /\ got \in [Writers -> 0..MaxVersion]
    /\ known \in [Writers -> BOOLEAN]
    /\ target \in [Writers -> ItemId \union {<<>>}]
    /\ \A w \in Writers : step[w] = "pay" => target[w] \in ItemId
    /\ rounds \in [Writers -> 0..MaxRounds]
    /\ throws \in 0..MaxThrows
    /\ overlapped \in BOOLEAN

WriteInit ==
    /\ remote = 1
    /\ row = 0
    /\ items = {}
    /\ step = [w \in Writers |-> "idle"]
    /\ got = [w \in Writers |-> 0]
    /\ known = [w \in Writers |-> FALSE]
    /\ target = [w \in Writers |-> <<>>]
    /\ rounds = [w \in Writers |-> 0]
    /\ throws = 0
    /\ overlapped = FALSE

Idle(w) == step[w] = "idle"
Quiet == \A w \in Writers : Idle(w)

Goto(w, s) == step' = [step EXCEPT ![w] = s]

\* A writer that ends forgets what it knew.
End(w) ==
    /\ Goto(w, "idle")
    /\ got' = [got EXCEPT ![w] = 0]
    /\ known' = [known EXCEPT ![w] = FALSE]
    /\ target' = [target EXCEPT ![w] = <<>>]

\* The transaction is modified, validated or cancelled at Weezevent.
Change ==
    /\ remote < MaxVersion
    /\ remote' = remote + 1
    /\ UNCHANGED <<writtenTables, locals, rounds, throws, overlapped>>

(* getExistingTransactionIds comes before the first page in a run, and     *)
(* after the chunk has been fetched in a worker.                           *)
InRun(w) == Kind[w] \in {"full", "incremental"}

Start(w) ==
    /\ Idle(w)
    /\ rounds[w] < MaxRounds
    /\ rounds' = [rounds EXCEPT ![w] = @ + 1]
    /\ Goto(w, IF InRun(w) THEN "existing" ELSE "fetch")
    /\ overlapped' = (overlapped \/ ~Quiet)
    /\ UNCHANGED <<remote, writtenTables, got, known, target, throws>>

ReadExisting(w) ==
    /\ step[w] = "existing"
    /\ known' = [known EXCEPT ![w] = row # 0]
    /\ Goto(w, IF InRun(w) THEN "fetch" ELSE "create")
    /\ UNCHANGED <<remote, writtenTables, got, target, rounds, throws, overlapped>>

\* MUTANT of Fetch: the payload of the webhook, as old as it may be.
FetchPayload(w) ==
    /\ step[w] = "fetch"
    /\ \E v \in 1..remote : got' = [got EXCEPT ![w] = v]
    /\ Goto(w, CASE InRun(w) -> "create"
                 [] Kind[w] = "chunk" -> "existing"
                 [] Kind[w] = "upsert" -> "row")
    /\ UNCHANGED <<remote, writtenTables, known, target, rounds, throws, overlapped>>

Fetch(w) ==
    /\ step[w] = "fetch"
    /\ got' = [got EXCEPT ![w] = remote]
    /\ Goto(w, CASE InRun(w) -> "create"
                 [] Kind[w] = "chunk" -> "existing"
                 [] Kind[w] = "upsert" -> "row")
    /\ UNCHANGED <<remote, writtenTables, known, target, rounds, throws, overlapped>>

-----------------------------------------------------------------------------
(* processBatchTransactions *)

\* An incremental run drops what it knows; the batch drops what is not V.
Dropped(w) == (Kind[w] = "incremental" /\ known[w]) \/ got[w] \notin Valid

Skip(w) ==
    /\ step[w] = "create"
    /\ Dropped(w)
    /\ End(w)
    /\ UNCHANGED <<remote, writtenTables, rounds, throws, overlapped>>

\* createMany with skipDuplicates; nothing to create for a known transaction.
Create(w) ==
    /\ step[w] = "create"
    /\ ~Dropped(w)
    /\ row' = IF row = 0 /\ ~known[w] THEN got[w] ELSE row
    /\ Goto(w, "check")
    /\ UNCHANGED <<remote, items, got, known, target, rounds, throws, overlapped>>

\* MUTANT of HasItems: nothing is known to have items.
ItemsUnknown == FALSE

\* txIdsWithItems
HasItems == items # {}

CheckItems(w) ==
    /\ step[w] = "check"
    /\ ~HasItems
    /\ Goto(w, "items")
    /\ UNCHANGED <<remote, writtenTables, got, known, target, rounds, throws, overlapped>>

KeepItems(w) ==
    /\ step[w] = "check"
    /\ HasItems
    /\ End(w)
    /\ UNCHANGED <<remote, writtenTables, rounds, throws, overlapped>>

AddItem(w) == items' = items \union {[id |-> <<w, rounds[w]>>, of |-> got[w], paid |-> 0]}

InsertItems(w) ==
    /\ step[w] = "items"
    /\ AddItem(w)
    /\ End(w)
    /\ UNCHANGED <<remote, row, rounds, throws, overlapped>>

-----------------------------------------------------------------------------
(* upsertTransaction, upsertTransactionItems *)

UpsertRow(w) ==
    /\ step[w] = "row"
    /\ row' = got[w]
    /\ Goto(w, "delete")
    /\ UNCHANGED <<remote, items, got, known, target, rounds, throws, overlapped>>

\* MUTANT of DeleteItems: the old items stay.
KeepOldItems(w) ==
    /\ step[w] = "delete"
    /\ Goto(w, "replace")
    /\ UNCHANGED <<remote, writtenTables, got, known, target, rounds, throws, overlapped>>

DeleteItems(w) ==
    /\ step[w] = "delete"
    /\ items' = {}
    /\ Goto(w, "replace")
    /\ UNCHANGED <<remote, row, got, known, target, rounds, throws, overlapped>>

ReplaceItems(w) ==
    /\ step[w] = "replace"
    /\ AddItem(w)
    /\ Goto(w, "find")
    /\ UNCHANGED <<remote, row, got, known, target, rounds, throws, overlapped>>

\* itemIdMap keeps one item per weezeventItemId, whichever comes last.
FindItems(w) ==
    /\ step[w] = "find"
    /\ \E i \in items : target' = [target EXCEPT ![w] = i.id]
    /\ Goto(w, "pay")
    /\ UNCHANGED <<remote, writtenTables, got, known, rounds, throws, overlapped>>

FindNothing(w) ==
    /\ step[w] = "find"
    /\ items = {}
    /\ End(w)
    /\ UNCHANGED <<remote, writtenTables, rounds, throws, overlapped>>

\* If the item is gone the foreign key rejects the payment and the call throws.
Paid(i, id) == IF i.id = id THEN [i EXCEPT !.paid = @ + 1] ELSE i

Pay(w) ==
    /\ step[w] = "pay"
    /\ items' = {Paid(i, target[w]) : i \in items}
    /\ End(w)
    /\ UNCHANGED <<remote, row, rounds, throws, overlapped>>

\* A call throws: nothing that has been written is undone.
Throw(w) ==
    /\ ~Idle(w)
    /\ throws < MaxThrows
    /\ throws' = throws + 1
    /\ End(w)
    /\ UNCHANGED <<remote, writtenTables, rounds, overlapped>>

Batch(w) ==
    ReadExisting(w) \/ Skip(w) \/ Create(w) \/ CheckItems(w) \/ KeepItems(w) \/ InsertItems(w)
Upsert(w) ==
    UpsertRow(w) \/ DeleteItems(w) \/ ReplaceItems(w) \/ FindItems(w) \/ FindNothing(w) \/ Pay(w)

WriteNext ==
    \/ Change
    \/ \E w \in Writers : Start(w) \/ Fetch(w) \/ Batch(w) \/ Upsert(w) \/ Throw(w)

WriteSpec == WriteInit /\ [][WriteNext]_writeVars

-----------------------------------------------------------------------------
(***************************************************************************)
(* If no two writers overlap and no call throws, the items are those of    *)
(* the stored version, once: revenue is neither doubled nor stale.         *)
(***************************************************************************)
ItemsMatchRow ==
    Quiet /\ ~overlapped /\ throws = 0 /\ row # 0 =>
        \E i \in items : items = {i} /\ i.of = row

(***************************************************************************)
(* Whatever the writers and their interleaving, if no call throws a stored *)
(* transaction is not left without items when they have all ended, though  *)
(* the upserts delete the items before they write them.                    *)
(***************************************************************************)
ItemsNotLost == Quiet /\ throws = 0 /\ row # 0 => items # {}

(***************************************************************************)
(* An upsert repairs what earlier faults left behind: as long as writers   *)
(* do not overlap, when one ends with its payments there is one item, of   *)
(* the stored version, paid once.                                          *)
(***************************************************************************)
UpsertRepairs ==
    [][\A w \in Writers : Pay(w) /\ ~overlapped =>
           \E i \in items' : items' = {i} /\ i.of = row /\ i.paid = 1]_writeVars

(***************************************************************************)
(* Writers that do not overlap never replace a version by an older one,    *)
(* even when calls throw: what a writer fetched is at least as new as what *)
(* it finds in the table.                                                  *)
(***************************************************************************)
RowNeverOlder == [][~overlapped' => row' >= row]_writeVars
=============================================================================
