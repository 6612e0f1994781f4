---------------------------- MODULE StoragePages ----------------------------
(***************************************************************************)
(* The two walks of setupsOnTheGo.ts over the storage of a chain, item by  *)
(* item and page by page: migrate copies every key of the items with sudo  *)
(* batches, getTokensAccountDataStorage prints the items of one pallet.    *)
(* The chain goes on while they walk, so keys come and go between pages.   *)
(* Keys are their places in the order of the storage.                      *)
(***************************************************************************)
EXTENDS Naturals, FiniteSets

CONSTANTS
  Items,       \* number of storage items to walk
  MaxKey,      \* keys of an item are among 1 .. MaxKey
  PageSize,    \* keys of a page: 100
  FlushEvery,  \* pages between two batches: 8
  MaxChanges   \* bound: keys that come or go during the walk

ASSUME PagesAssumption ==
  /\ Items \in Nat \ {0} /\ MaxKey \in Nat /\ MaxChanges \in Nat
  /\ PageSize \in Nat \ {0} /\ FlushEvery \in Nat \ {0}

Keys == 1 .. MaxKey
Undefined == 0   \* what keys[n] is beyond the end of the page

VARIABLES
  walk,     \* "migrate" or "read"
  storage,  \* chain: per item, its keys
  pc,       \* where the walk awaits: "page", "values", "next", "batch",
            \*   "last", or how it ended: "done", "failed"
  item,     \* dataId
  keys,     \* the page
  nextkeys, \* the page after it
  loop,     \* pages so far, modulo FlushEvery
  allKeys,  \* the entries read and not yet sent, per key
  sent,     \* entries that batches have written, per item and key
  steady,   \* history: per item, the keys it has had from the start
  changes   \* history: keys that came or went

walker == <<pc, item, keys, nextkeys, loop, allKeys, sent>>
walksVars == <<walk, storage, walker, steady, changes>>

\* entries are counted as none, one or many
Many == 2
NoEntries == [k \in Keys |-> 0]
Plus(e, f) == [k \in Keys |-> IF e[k] + f[k] > Many THEN Many ELSE e[k] + f[k]]

WalksInit ==
  /\ walk \in {"migrate", "read"}
  /\ storage \in [1 .. Items -> SUBSET Keys]
  /\ pc = "page"
  /\ item = 1
  /\ keys = {} /\ nextkeys = {}
  /\ loop = 0
  /\ allKeys = NoEntries
  /\ sent = [i \in 1 .. Items |-> NoEntries]
  /\ steady = storage
  /\ changes = 0

-----------------------------------------------------------------------------
\* api.rpc.state.getKeysPaged(key, PageSize, start)
KeysPaged(start) ==
  LET after == {k \in storage[item] : k > start} IN
  {k \in after : Cardinality({l \in after : l < k}) < PageSize}

\* keys[keys.length - 1]
LastKey == IF keys = {} THEN Undefined
           ELSE CHOOSE k \in keys : \A l \in keys : l <= k

\* keys[99]: the last key only of a full page
HundredthKey == IF Cardinality(keys) = PageSize THEN LastKey ELSE Undefined

\* getKeysPaged of the first page of an item
FirstPage ==
  /\ pc = "page"
  /\ pc' = "values"
  /\ keys' = KeysPaged(Undefined)
  /\ loop' = 0
  /\ UNCHANGED <<item, nextkeys, allKeys, sent>>

\* getStorage of every key of the page
ReadValues ==
  /\ pc = "values"
  /\ pc' = "next"
  /\ allKeys' = Plus(allKeys, [k \in Keys |-> IF k \in keys THEN 1 ELSE 0])
  /\ UNCHANGED <<item, keys, nextkeys, loop, sent>>

\* mutant: the key of the other walk
CursorAtHundred == HundredthKey

\* the key that the next page of migrate starts after
Cursor == LastKey

MigrateNext ==
  /\ walk = "migrate"
  /\ pc = "next"
  /\ pc' = "batch"
  /\ nextkeys' = KeysPaged(Cursor)
  /\ UNCHANGED <<item, keys, loop, allKeys, sent>>

\* if (nextkeys.includes(last) || nextkeys.length === 0) cont = false
PagesEnd(last, next) == last \in next \/ next = {}

\* mutant: allKeys is not emptied after its batch
MigrateBatchKeeping ==
  /\ pc = "batch"
  /\ IF loop = 0
     THEN sent' = [sent EXCEPT ![item] = Plus(@, allKeys)]
     ELSE UNCHANGED sent
  /\ IF PagesEnd(LastKey, nextkeys)
     THEN pc' = "last" /\ UNCHANGED keys
     ELSE pc' = "values" /\ keys' = nextkeys
  /\ loop' = (loop + 1) % FlushEvery
  /\ UNCHANGED <<item, nextkeys, allKeys>>

\* the batch of every eighth page, and then the decision whether to go on
MigrateBatch ==
  /\ pc = "batch"
  /\ IF loop = 0
     THEN /\ sent' = [sent EXCEPT ![item] = Plus(@, allKeys)]
          /\ allKeys' = NoEntries
     ELSE UNCHANGED <<sent, allKeys>>
  /\ IF PagesEnd(LastKey, nextkeys)
     THEN pc' = "last" /\ UNCHANGED keys
     ELSE pc' = "values" /\ keys' = nextkeys
  /\ loop' = (loop + 1) % FlushEvery
  /\ UNCHANGED <<item, nextkeys>>

\* the walk goes on with the next item
NextItem ==
  /\ allKeys' = NoEntries
  /\ IF item = Items
     THEN pc' = "done" /\ UNCHANGED item
     ELSE pc' = "page" /\ item' = item + 1

\* the batch after the loop
MigrateRest ==
  /\ pc = "last"
  /\ sent' = [sent EXCEPT ![item] = Plus(@, allKeys)]
  /\ NextItem
  /\ UNCHANGED <<keys, nextkeys, loop>>

\* batchAsSudoFinalized rejects, and migrate with it
BatchRefused ==
  /\ pc = "last" \/ (pc = "batch" /\ loop = 0)
  /\ pc' = "failed"
  /\ UNCHANGED <<item, keys, nextkeys, loop, allKeys, sent>>

\* getTokensAccountDataStorage; its allKeys is never used
ReadNext ==
  /\ walk = "read"
  /\ pc = "next"
  /\ nextkeys' = KeysPaged(HundredthKey)
  /\ IF PagesEnd(HundredthKey, nextkeys')
     THEN NextItem /\ UNCHANGED keys
     ELSE /\ pc' = "values"
          /\ keys' = nextkeys'
          /\ allKeys' = NoEntries
          /\ UNCHANGED item
  /\ UNCHANGED <<loop, sent>>

\* chain: a key of an item comes or goes
Change ==
  /\ changes < MaxChanges
  /\ pc \notin {"done", "failed"}
  /\ \E i \in 1 .. Items, k \in Keys :
       /\ storage' = [storage EXCEPT
            ![i] = IF k \in @ THEN @ \ {k} ELSE @ \cup {k}]
       /\ steady' = [steady EXCEPT ![i] = @ \ {k}]
  /\ changes' = changes + 1
  /\ UNCHANGED <<walk, walker>>

Walk ==
  /\ \/ FirstPage \/ ReadValues \/ MigrateNext \/ MigrateBatch \/ MigrateRest
     \/ BatchRefused \/ ReadNext
  /\ UNCHANGED <<walk, storage, steady, changes>>

WalksNext == Walk \/ Change

WalksSpec == WalksInit /\ [][WalksNext]_walksVars

\* The walk goes on as long as the node answers.
FairWalksSpec == WalksSpec /\ WF_walksVars(Walk)

-----------------------------------------------------------------------------
\* The state is type correct.
WalksTypeOK ==
  /\ walk \in {"migrate", "read"}
  /\ storage \in [1 .. Items -> SUBSET Keys]
  /\ pc \in {"page", "values", "next", "batch", "last", "done", "failed"}
  /\ item \in 1 .. Items
  /\ keys \in SUBSET Keys /\ nextkeys \in SUBSET Keys
  /\ Cardinality(keys) <= PageSize
  /\ loop \in 0 .. FlushEvery - 1
  /\ allKeys \in [Keys -> 0 .. 1]
  /\ sent \in [1 .. Items -> [Keys -> 0 .. 1]]

\* Whatever keys come and go while migrate walks, it writes no key of an item
\* twice, and when it leaves an item it has written every key that the item had
\* all the time, be it in the first page, in the batch of an eighth page or in
\* the rest.
KeysMigratedOnce ==
  walk = "migrate" =>
    \A i \in 1 .. Items :
      /\ \A k \in Keys : sent[i][k] + (IF i = item /\ pc # "done"
                                       THEN allKeys[k] ELSE 0) <= 1
      /\ i < item \/ pc = "done" => \A k \in steady[i] : sent[i][k] = 1

-----------------------------------------------------------------------------
\* Why every key is written, and once.

\* read in this item, and in a batch or still to be sent
Read(k) == allKeys[k] = 1 \/ sent[item][k] = 1

\* behind the keys of a page
Past(k, page) == page # {} /\ \A l \in page : l < k

\* what the pages and the keys that stay there look like
Pages ==
  /\ Cardinality(nextkeys) <= PageSize
  /\ steady \in [1 .. Items -> SUBSET Keys]
  /\ \A i \in 1 .. Items : steady[i] \subseteq storage[i]

\* the walk that only reads has entries of one page at most
Reader ==
  walk = "read" =>
    /\ pc \notin {"batch", "last", "failed"}
    /\ sent = [i \in 1 .. Items |-> NoEntries]
    /\ pc \in {"page", "values"} => allKeys = NoEntries

\* an entry waits to be sent or has been sent, and an item starts without any
Fresh ==
  /\ \A k \in Keys : pc # "done" => ~ (allKeys[k] = 1 /\ sent[item][k] = 1)
  /\ \A i \in 1 .. Items : i > item => sent[i] = NoEntries
  /\ pc = "page" => allKeys = NoEntries /\ sent[item] = NoEntries

\* Where migrate is in the order of the storage: the keys it has read come
\* before the page that it reads next, and a key that was there all the time
\* is read, in that page, or behind it.
Position ==
  walk = "migrate" =>
    /\ pc = "values" =>
         /\ \A k \in Keys : Read(k) => keys # {} /\ \A l \in keys : k < l
         /\ \A k \in steady[item] : Read(k) \/ k \in keys \/ Past(k, keys)
    /\ pc \in {"next", "batch"} =>
         /\ \A k \in keys : Read(k)
         /\ \A k \in Keys : Read(k) => \E l \in keys : k <= l
         /\ \A k \in steady[item] : Read(k) \/ Past(k, keys)
    /\ pc = "batch" =>
         /\ \A l \in keys, n \in nextkeys : l < n
         /\ \A k \in steady[item] :
              Read(k) \/ k \in nextkeys \/ Past(k, nextkeys)
    /\ pc = "last" => \A k \in steady[item] : Read(k)

\* the items that migrate has left
Left ==
  walk = "migrate" =>
    \A i \in 1 .. Items :
      i < item \/ pc = "done" => \A k \in steady[i] : sent[i][k] = 1

SInv == WalksTypeOK /\ Pages /\ Reader /\ Fresh /\ Position /\ Left

-----------------------------------------------------------------------------
\* keys[99] of every last page is defined
FullPages == \A i \in 1 .. Items : Cardinality(storage[i]) % PageSize = 0

\* migrate ends.  getTokensAccountDataStorage on a chain that stands still ends
\* only if the last page of each item is full: keys[99] of a shorter page is
\* undefined, and the walk starts again with the first page, for ever.
WalksEnd ==
  /\ walk = "migrate" => <>(pc \in {"done", "failed"})
  /\ walk = "read" /\ FullPages /\ [](changes = 0) => <>(pc = "done")
  /\ walk = "read" /\ ~FullPages /\ [](changes = 0) => [](pc # "done")
=============================================================================
