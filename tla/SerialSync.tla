------------------------------ MODULE SerialSync ------------------------------
(***************************************************************************)
(* What the syncs of a connector promise: they might as well be made one   *)
(* after the other.  There is at most one attempt, which lists once; what  *)
(* it brings is no older than its listing or than what is stored, and is   *)
(* brought under the binding the run was requested for while the connector *)
(* still has it; and it succeeds when all of its listing is there.  Nothing*)
(* is said of processes, owners, fences, or of what an attempt has read.   *)
(***************************************************************************)
EXTENDS Naturals

CONSTANTS Key, Item, Config, Null

VARIABLES
    binding, \* the connector's configuration
    remote,  \* the revision of each remote item
    runs,    \* each run: how it stands, and the binding it was requested for
    store,   \* each stored item: the revision, and the listing it was brought or dropped by
    lists,   \* listings so far
    open     \* the attempt under way, if any

serialVars == <<binding, remote, runs, store, lists, open>>

SerialInit ==
    /\ binding \in Config
    /\ remote \in [Item -> Nat]
    /\ runs = [k \in Key |-> [status |-> "none", config |-> Null]]
    /\ store = [i \in Item |-> [status |-> "none", asset |-> Null, config |-> Null, listed |-> 0]]
    /\ lists = 0 /\ open = {}

Change ==
    /\ binding' \in Config
    /\ remote' \in [Item -> Nat] /\ \A i \in Item : remote'[i] >= remote[i]
    /\ UNCHANGED <<runs, store, lists, open>>

\* A run is attempted again only under the same binding, and never once it has succeeded.
Begin(k, full) ==
    /\ open = {}
    /\ runs[k].status = "none" \/ (runs[k].status \in {"running", "failed"} /\ runs[k].config = binding)
    /\ runs' = [runs EXCEPT ![k] = [status |-> "running", config |-> binding]]
    /\ open' = {[key |-> k, full |-> full, number |-> 0, listing |-> {}, floor |-> [i \in Item |-> Null]]}
    /\ UNCHANGED <<binding, remote, store, lists>>

MakeListing(a, listing) ==
    /\ a.number = 0
    /\ lists' = lists + 1
    /\ open' = {[key |-> a.key, full |-> a.full, number |-> lists + 1, listing |-> listing, floor |-> remote]}
    /\ UNCHANGED <<binding, remote, runs, store>>

Brings(a, i) ==
    /\ i \in a.listing
    /\ \E v \in a.floor[i] .. remote[i] :
          /\ store[i].asset = Null \/ store[i].asset <= v
          /\ store'[i] = [status |-> "ready", asset |-> v, config |-> runs[a.key].config, listed |-> a.number]

Drops(a, i) ==
    /\ a.full /\ i \notin a.listing
    /\ store[i].status = "ready"
    /\ store'[i] = [status |-> "deleted", asset |-> store[i].asset, config |-> store[i].config, listed |-> a.number]

Writes(a) ==
    /\ a.number = lists /\ lists > 0
    /\ runs[a.key].status = "running" /\ runs[a.key].config = binding
    /\ DOMAIN store' = Item
    /\ \A i \in Item : store'[i] = store[i] \/ Brings(a, i) \/ Drops(a, i)

Bring(a) ==
    /\ Writes(a)
    /\ UNCHANGED <<binding, remote, runs, lists, open>>

Succeed(a) ==
    /\ Writes(a)
    /\ \A i \in a.listing : store'[i].status = "ready" /\ store'[i].asset >= a.floor[i]
    /\ a.full => \A i \in Item \ a.listing : store'[i].status # "ready"
    /\ runs' = [runs EXCEPT ![a.key].status = "succeeded"]
    /\ open' = {}
    /\ UNCHANGED <<binding, remote, lists>>

\* Whoever takes it over starts anew.
Abandon(a) ==
    /\ runs' \in {runs, [runs EXCEPT ![a.key].status = "failed"]}
    /\ open' = {}
    /\ UNCHANGED <<binding, remote, store, lists>>

SerialNext ==
    \/ Change
    \/ \E k \in Key, full \in BOOLEAN : Begin(k, full)
    \/ \E a \in open :
          \/ \E listing \in SUBSET Item : MakeListing(a, listing)
          \/ Bring(a) \/ Succeed(a) \/ Abandon(a)

SerialSpec == SerialInit /\ [][SerialNext]_serialVars
=============================================================================
