------------------------------ MODULE FeishuSync ------------------------------
(***************************************************************************)
(* Syncs of one Feishu connector (FeishuSyncService in                     *)
(* local/feishu_sync.py) against a remote side and an administrator that   *)
(* change at any time.  A sync holds the connector's file lock from its    *)
(* claim to its end; it lists, then reads, fetches and publishes item by   *)
(* item, each publication a transaction behind a fence.                    *)
(***************************************************************************)
EXTENDS Naturals

CONSTANTS
    Process,     \* processes that may sync the connector
    Key,         \* idempotency keys, each with its row of knowledge_sync_runs
    Item,        \* external ids
    Config,      \* what the binding fingerprint covers: selection, credential, settings
    SelectionOf, \* the selection each of them has
    Bitable,     \* those that select tables; the others select documents
    MaxVersion,  \* bound: revisions of a remote item
    MaxLists,    \* bound: discoveries
    Null

ASSUME SyncAssumption ==
    /\ Null \notin Process \cup Key \cup Item \cup Config \cup Nat
    /\ Bitable \subseteq Config
    /\ \A c, d \in Config : SelectionOf[c] = SelectionOf[d] => (c \in Bitable <=> d \in Bitable)
    /\ MaxVersion \in Nat /\ MaxLists \in Nat

VARIABLES
    config, \* the connector's binding
    remote, \* the remote items: whether listed, and their revision
    runs,   \* knowledge_sync_runs; owner is the process of the lease
    items,  \* knowledge_source_items; listed and config are history
    sync,   \* the call of sync() in each process
    lists   \* how many discoveries there have been

syncVars == <<config, remote, runs, items, sync, lists>>

Mode == {"incremental", "full"}
Version == 0 .. MaxVersion
Working == {"discovering", "listed", "next", "fetching", "publishing", "schemas"}

NotFetched == [i \in Item |-> Null]

\* An asset is named after its item and the revision it was fetched at.
NoItem == [status |-> "none", asset |-> Null, seenBy |-> Null, config |-> Null, listed |-> 0]
NoRun == [status |-> "none", owner |-> Null, config |-> Null, mode |-> Null]
NoSync == [at |-> "idle", key |-> Null, mode |-> Null, config |-> Null, number |-> 0, listing |-> {},
           floor |-> NotFetched, todo |-> {}, item |-> Null, previous |-> Null, fast |-> FALSE, fetched |-> NotFetched]

SyncInit ==
    /\ config \in Config
    /\ remote \in [Item -> [listed : BOOLEAN, version : {0}]]
    /\ runs = [k \in Key |-> NoRun]
    /\ items = [i \in Item |-> NoItem]
    /\ sync = [p \in Process |-> NoSync]
    /\ lists = 0

----------------------------------------------------------------------------
(* The remote side and the administrator *)

Edit(i) ==
    /\ remote[i].version < MaxVersion
    /\ remote' = [remote EXCEPT ![i].version = @ + 1]
    /\ UNCHANGED <<config, runs, items, sync, lists>>

List(i) ==
    /\ remote' = [remote EXCEPT ![i].listed = ~@]
    /\ UNCHANGED <<config, runs, items, sync, lists>>

Configure(c) ==
    /\ config' = c
    /\ UNCHANGED <<remote, runs, items, sync, lists>>

----------------------------------------------------------------------------
(* sync() *)

SyncAt(p, stage) == sync' = [sync EXCEPT ![p].at = stage]

LockFree_PerRun(k) == \A q \in Process : sync[q].key # k

\* The locks of the run and of the connector, taken without waiting.
LockFree(k) == \A q \in Process : sync[q].at = "idle"

\* Items of another selection, deleted ones too, ask for a migration.
SelectionAgrees ==
    \A i \in Item : items[i].status # "none" => SelectionOf[items[i].config] = SelectionOf[config]

SameRequest_Mode(k, m) == runs[k].mode = m

SameRequest(k, m) == runs[k].mode = m /\ runs[k].config = config

\* A run of the same request is taken over, however it was left; one that has
\* succeeded is answered from its row.
Claim(p, k, m) ==
    /\ sync[p].at = "idle" /\ LockFree(k)
    /\ SelectionAgrees
    /\ runs[k].status = "none" \/ (runs[k].status \in {"running", "failed"} /\ SameRequest(k, m))
    /\ runs' = [runs EXCEPT ![k] = [status |-> "running", owner |-> p, config |-> config, mode |-> m]]
    /\ sync' = [sync EXCEPT ![p] = [NoSync EXCEPT !.at = "discovering", !.key = k, !.mode = m, !.config = config]]
    /\ UNCHANGED <<config, remote, items, lists>>

\* The listing is complete, and taken outside any transaction.
Discover(p) ==
    /\ sync[p].at = "discovering" /\ lists < MaxLists
    /\ lists' = lists + 1
    /\ sync' = [sync EXCEPT ![p] = [@ EXCEPT
                    !.at = "listed", !.number = lists + 1, !.listing = {i \in Item : remote[i].listed},
                    !.floor = [i \in Item |-> remote[i].version]]]
    /\ UNCHANGED <<config, remote, runs, items>>

\* _fence: the run is still this attempt's, the binding the one it was claimed under.
Fenced(p) ==
    /\ runs[sync[p].key].status = "running" /\ runs[sync[p].key].owner = p
    /\ config = sync[p].config

NoteDiscovery(p) ==
    /\ sync[p].at = "listed" /\ sync[p].config \notin Bitable
    /\ Fenced(p)
    /\ sync' = [sync EXCEPT ![p].at = "next", ![p].todo = sync[p].listing]
    /\ UNCHANGED <<config, remote, runs, items, lists>>

\* The old row is read in a session of its own; an incremental sync asks only for
\* what is newer than the revision of a ready item.
ReadItem(p, i) ==
    /\ sync[p].at = "next" /\ i \in sync[p].todo
    /\ sync' = [sync EXCEPT ![p].at = "fetching", ![p].item = i, ![p].previous = items[i].asset,
                            ![p].fast = (sync[p].mode = "incremental" /\ items[i].status = "ready")]
    /\ UNCHANGED <<config, remote, runs, items, lists>>

Unchanged(p) == sync[p].fast /\ remote[sync[p].item].version = sync[p].previous

Fetch(p) ==
    /\ sync[p].at = "fetching"
    /\ sync' = [sync EXCEPT ![p].at = "publishing",
                            ![p].fetched[sync[p].item] = IF Unchanged(p) THEN Null ELSE remote[sync[p].item].version]
    /\ UNCHANGED <<config, remote, runs, items, lists>>

Published(p, i, asset) ==
    [status |-> "ready", asset |-> asset, seenBy |-> sync[p].key, config |-> sync[p].config, listed |-> sync[p].number]

AssetKept(p) == items[sync[p].item].asset = sync[p].previous

\* A fetched entry is stored with its content; linked and unsupported entries, stored
\* without any (lines 222-227), are not in the model.
PublishItem(p) ==
    LET i == sync[p].item
        asset == IF sync[p].fetched[i] = Null THEN items[i].asset ELSE sync[p].fetched[i] IN
    /\ sync[p].at = "publishing"
    /\ Fenced(p) /\ AssetKept(p)
    /\ items' = [items EXCEPT ![i] = Published(p, i, asset)]
    /\ sync' = [sync EXCEPT ![p] = [@ EXCEPT !.at = "next", !.todo = sync[p].todo \ {i}, !.item = Null, !.previous = Null,
                                          !.fast = FALSE, !.fetched = NotFetched]]
    /\ UNCHANGED <<config, remote, runs, lists>>

Unlisted_NotSeen(p, i) == items[i].seenBy # sync[p].key

Unlisted(p, i) == i \notin sync[p].listing

\* Only a full sync deletes.
Deletable(p, i) == sync[p].mode = "full" /\ Unlisted(p, i) /\ items[i].status = "ready"

Deleted(p, i) == [items[i] EXCEPT !.status = "deleted", !.listed = sync[p].number]

Succeed(p) ==
    /\ runs' = [runs EXCEPT ![sync[p].key].status = "succeeded", ![sync[p].key].owner = Null]
    /\ sync' = [sync EXCEPT ![p] = NoSync]
    /\ UNCHANGED <<config, remote, lists>>

Reconcile(p) ==
    /\ sync[p].at = "next" /\ sync[p].todo = {}
    /\ Fenced(p)
    /\ items' = [i \in Item |-> IF Deletable(p, i) THEN Deleted(p, i) ELSE items[i]]
    /\ Succeed(p)

\* _sync_bitable: the schemas of all tables are fetched one after the other, then
\* published in one transaction.
NoteTables(p) ==
    /\ sync[p].at = "listed" /\ sync[p].config \in Bitable
    /\ sync' = [sync EXCEPT ![p].at = "schemas", ![p].todo = sync[p].listing]
    /\ UNCHANGED <<config, remote, runs, items, lists>>

FetchSchema(p, i) ==
    /\ sync[p].at = "schemas" /\ i \in sync[p].todo
    /\ sync' = [sync EXCEPT ![p].todo = @ \ {i}, ![p].fetched[i] = remote[i].version]
    /\ UNCHANGED <<config, remote, runs, items, lists>>

PublishSchemas(p) ==
    /\ sync[p].at = "schemas" /\ sync[p].todo = {}
    /\ Fenced(p)
    /\ items' = [i \in Item |-> IF i \in sync[p].listing THEN Published(p, i, sync[p].fetched[i])
                                ELSE IF Deletable(p, i) THEN Deleted(p, i) ELSE items[i]]
    /\ Succeed(p)

\* A fence that does not hold, a source that raises, a cancellation.
Raise(p) ==
    /\ sync[p].at \in Working
    /\ SyncAt(p, "failing")
    /\ UNCHANGED <<config, remote, runs, items, lists>>

\* The failure is written unless the run has another owner, or cannot be written.
Fail(p) ==
    /\ sync[p].at = "failing"
    /\ \/ /\ runs[sync[p].key].status = "running" /\ runs[sync[p].key].owner = p
          /\ runs' = [runs EXCEPT ![sync[p].key].status = "failed", ![sync[p].key].owner = Null]
       \/ UNCHANGED runs
    /\ sync' = [sync EXCEPT ![p] = NoSync]
    /\ UNCHANGED <<config, remote, items, lists>>

\* The process ends; the locks go with it, the row stays running.
Die(p) ==
    /\ sync[p].at # "idle"
    /\ sync' = [sync EXCEPT ![p] = NoSync]
    /\ UNCHANGED <<config, remote, runs, items, lists>>

----------------------------------------------------------------------------

Surroundings == (\E i \in Item : Edit(i) \/ List(i)) \/ (\E c \in Config : Configure(c))

Step(p) ==
    \/ \E k \in Key, m \in Mode : Claim(p, k, m)
    \/ \E i \in Item : ReadItem(p, i) \/ FetchSchema(p, i)
    \/ Discover(p) \/ NoteDiscovery(p) \/ Fetch(p) \/ PublishItem(p) \/ Reconcile(p)
    \/ NoteTables(p) \/ PublishSchemas(p)
    \/ Raise(p) \/ Fail(p) \/ Die(p)

SyncNext == Surroundings \/ \E p \in Process : Step(p)

SyncSpec == SyncInit /\ [][SyncNext]_syncVars

----------------------------------------------------------------------------

RunRow == [status : {"none", "running", "failed", "succeeded"}, owner : Process \cup {Null},
           config : Config \cup {Null}, mode : Mode \cup {Null}]

ItemRow == [status : {"none", "ready", "deleted"}, asset : Version \cup {Null}, seenBy : Key \cup {Null},
            config : Config \cup {Null}, listed : 0 .. MaxLists]

Call == [at : Working \cup {"idle", "failing"}, key : Key \cup {Null}, mode : Mode \cup {Null},
         config : Config \cup {Null}, number : 0 .. MaxLists, listing : SUBSET Item,
         floor : [Item -> Version \cup {Null}], todo : SUBSET Item, item : Item \cup {Null},
         previous : Version \cup {Null}, fast : BOOLEAN, fetched : [Item -> Version \cup {Null}]]

\* Every variable has its type.
SyncTypeOK ==
    /\ config \in Config
    /\ remote \in [Item -> [listed : BOOLEAN, version : Version]]
    /\ runs \in [Key -> RunRow]
    /\ items \in [Item -> ItemRow]
    /\ sync \in [Process -> Call]
    /\ lists \in 0 .. MaxLists

Newer(a, b) == b = Null \/ (a # Null /\ a >= b)

\* Whichever processes sync, die or take a run over: what a later listing has found is
\* not overwritten or deleted after an earlier one, and no content goes back to an
\* earlier revision (the connector lock, line 99).
NewestListingStands ==
    [][\A i \in Item : items'[i].listed >= items[i].listed /\ Newer(items'[i].asset, items[i].asset)]_items

Succeeds(k) == runs[k].status # "succeeded" /\ runs'[k].status = "succeeded"

\* A sync that reports success has brought everything it listed at least to the revision
\* it had then, whatever an earlier attempt of the run has published; a full one has
\* left nothing else (lines 232-242, 298-301).
SuccessIsTheListing ==
    [][\A k \in Key : Succeeds(k) =>
          LET s == sync[runs[k].owner] IN
          /\ \A i \in s.listing : items'[i].status = "ready" /\ items'[i].asset >= s.floor[i]
          /\ s.mode = "full" => \A i \in Item \ s.listing : items'[i].status # "ready"]_runs

\* What a succeeded run has published in any of its attempts, it has published under the
\* binding it was requested for (lines 111-115: a key is not taken over by a sync under
\* another configuration).
RunHasOneBinding ==
    \A i \in Item : items[i].status = "ready" /\ runs[items[i].seenBy].status = "succeeded" =>
        items[i].config = runs[items[i].seenBy].config

\* The call of p, without what it has read and fetched.
Attempt(p) ==
    [key |-> sync[p].key, full |-> sync[p].mode = "full", number |-> sync[p].number,
     listing |-> sync[p].listing, floor |-> sync[p].floor]

\* What the abstract specification sees of the state.
Revisions == [i \in Item |-> remote[i].version]

RunStates == [k \in Key |-> [status |-> runs[k].status, config |-> runs[k].config]]

Stored == [i \in Item |-> [status |-> items[i].status, asset |-> items[i].asset,
                          config |-> items[i].config, listed |-> items[i].listed]]

OpenAttempts == {Attempt(p) : p \in {q \in Process : sync[q].at # "idle"}}

Serial == INSTANCE SerialSync WITH
    binding <- config, remote <- Revisions, runs <- RunStates, store <- Stored, open <- OpenAttempts

\* Processes that sync, fail, die and take runs over do what one attempt after the other
\* could do, however what they read and fetch lies between the steps of the others (the
\* lock, line 99; the fence, lines 83-91).
IsSerial == Serial!SerialSpec

(* The strengthening *)

\* The lock of the connector, whatever the runs say.
OneSync == \A p, q \in Process : sync[p].at # "idle" /\ sync[q].at # "idle" => p = q

\* What is stored was published by a run, under its binding, from a listing, and at a
\* revision the remote item has had.
ItemsAreFromRuns ==
    \A i \in Item :
        /\ items[i].listed <= lists
        /\ items[i].status = "none" => items[i].asset = Null
        /\ items[i].status # "none" =>
              /\ items[i].asset \in 0 .. remote[i].version
              /\ items[i].seenBy \in Key /\ runs[items[i].seenBy].status # "none"
              /\ items[i].config = runs[items[i].seenBy].config

\* A call works on a run that was claimed under its binding.
HasItsRun(p) ==
    sync[p].at # "idle" =>
        /\ sync[p].key \in Key /\ sync[p].config \in Config /\ sync[p].mode \in Mode
        /\ runs[sync[p].key].status # "none" /\ runs[sync[p].key].config = sync[p].config

\* What it has listed is the last listing, and no newer than the remote side.
HasTheLastListing(p) ==
    sync[p].at \in {"listed", "next", "fetching", "publishing", "schemas"} =>
        /\ sync[p].number = lists
        /\ sync[p].number > 0
        /\ \A i \in Item : sync[p].floor[i] \in 0 .. remote[i].version

\* What it is done with is stored as it was listed, or newer.
DoneIsStored(p) ==
    sync[p].at \in {"next", "fetching", "publishing"} =>
        /\ sync[p].todo \subseteq sync[p].listing
        /\ \A i \in sync[p].listing \ sync[p].todo : items[i].status = "ready" /\ items[i].asset >= sync[p].floor[i]

\* What it holds of an item was there after the listing, and after what is stored.
Fresh(p, i, stored) ==
    /\ sync[p].fetched[i] \in sync[p].floor[i] .. remote[i].version
    /\ Newer(sync[p].fetched[i], stored)

HoldsItem(p) ==
    /\ sync[p].at = "discovering" => sync[p].number = 0
    /\ sync[p].at \in {"discovering", "listed"} => sync[p].fetched = NotFetched
    /\ sync[p].at \in {"fetching", "publishing"} =>
          /\ sync[p].item \in sync[p].todo
          /\ sync[p].previous # Null => sync[p].previous <= remote[sync[p].item].version
          /\ sync[p].fast => sync[p].previous # Null
    /\ sync[p].at = "publishing" =>
          IF sync[p].fetched[sync[p].item] = Null
          THEN sync[p].previous # Null /\ sync[p].previous >= sync[p].floor[sync[p].item]
          ELSE Fresh(p, sync[p].item, sync[p].previous)

HoldsSchemas(p) ==
    sync[p].at = "schemas" =>
        \A i \in Item : IF sync[p].fetched[i] = Null THEN i \notin sync[p].listing \ sync[p].todo
                        ELSE Fresh(p, i, items[i].asset)

CallFollows(p) == HasItsRun(p) /\ HasTheLastListing(p) /\ DoneIsStored(p) /\ HoldsItem(p) /\ HoldsSchemas(p)

CallsFollow == \A p \in Process : CallFollows(p)

SyncInv == SyncTypeOK /\ OneSync /\ ItemsAreFromRuns /\ CallsFollow
=============================================================================
