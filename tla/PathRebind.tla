----------------------------- MODULE PathRebind -----------------------------
(***************************************************************************)
(* Rebinding a moved document candidate to the place it lies at            *)
(* (distribution/installation_path_rebind.py).  The Catalog is rewritten   *)
(* on a copy, the copy replaces it while a hard link keeps the pinned      *)
(* bytes, and a receipt outside the candidate is linked into place.        *)
(* An attempt may be killed, and any of its calls may raise, between any   *)
(* two of these steps; the next attempt finds the files as they are.       *)
(* The bytes of a Catalog are what their paths are bound to: those of      *)
(* Origin are the pinned ones, and the rewrite is deterministic.           *)
(***************************************************************************)
EXTENDS Naturals

CONSTANTS
    Place,    \* directories the candidate may lie at
    Origin,   \* the one its manifest was written for
    None,     \* no such file
    Torn,     \* a file that is not written out
    Foreign,  \* a Catalog that no rewrite produced
    MaxMoves, MaxFaults

ASSUME RebindAssumption ==
    /\ Origin \in Place
    /\ None \notin Place \cup {Torn, Foreign}
    /\ Torn \notin Place \cup {Foreign}
    /\ Foreign \notin Place
    /\ {None, Torn} \cap [candidate : Place, after : Place \cup {Foreign}] = {}
    /\ MaxMoves \in Nat /\ MaxFaults \in Nat

VARIABLES
    place,        \* where the candidate lies
    catalog,      \* catalog.sqlite3
    part,         \* catalog.sqlite3.rebind-part
    sidecar,      \* whether a journal of SQLite's lies beside the part, or alone
    backup,       \* catalog.sqlite3.rebind-backup
    oneCatalog,   \* whether backup and catalog are links to one file
    receipt,      \* the receipt at the output path
    receiptPart,  \* the receipt's .part
    oneReceipt,   \* whether both are links to one file
    at,           \* where the attempt is
    after,        \* its variable of that name: the digest it will publish
    rewrote,      \* its variable of that name
    began,        \* history: the Catalog the attempt began with
    drifted,      \* history: somebody else has written to the Catalog
    unseen,       \* history: and did so between its replacement and its digest
    moves, faults

candidate == <<place, catalog, part, sidecar, backup, oneCatalog>>
evidence == <<receipt, receiptPart, oneReceipt>>
locals == <<after, rewrote, began>>
outside == <<drifted, unseen, moves, faults>>
vars == <<candidate, evidence, at, locals, outside>>

CatalogBytes == Place \cup {Foreign}
ReceiptBytes == [candidate : Place, after : CatalogBytes]

Publishing == {"verifying", "publishing", "leftover", "opening", "writing", "linking", "linked", "synced"}
Resting == {"idle", "returned"}
Stage == Resting \cup Publishing \cup
         {"locked", "discarding", "examining", "stale", "choosing", "copying", "rewriting", "copied",
          "backed", "replaced", "deriving", "reopened", "rederiving", "adopting", "cleaning",
          "restoring", "refusing"}

Init ==
    /\ place \in Place
    /\ catalog = Origin
    /\ part = None /\ sidecar = FALSE /\ backup = None /\ oneCatalog = FALSE
    /\ receipt = None /\ receiptPart = None /\ oneReceipt = FALSE
    /\ at = "idle" /\ after = None /\ rewrote = FALSE /\ began = Origin
    /\ drifted = FALSE /\ unseen = FALSE /\ moves = 0 /\ faults = 0

Goto(stage) == at' = stage

\* What the receipt of this attempt says.
Data == [candidate |-> place, after |-> after]

\* An error while the new Catalog is verified or the receipt is published
\* first restores the backup, if this attempt has replaced the Catalog.
Raised == IF at \in Publishing /\ rewrote THEN "restoring" ELSE "refusing"

----------------------------------------------------------------------------
(* Taking stock of the candidate *)

\* The lock of the candidate is held from here to the end of the attempt.
Begin ==
    /\ at \in Resting
    /\ Goto("locked")
    /\ began' = catalog /\ rewrote' = FALSE /\ after' = None
    /\ UNCHANGED <<candidate, evidence, outside>>

\* A leftover part goes before its journal, and a journal goes only with one.
DiscardLeftover ==
    /\ at = "locked"
    /\ Goto(IF part = None THEN "examining" ELSE "discarding")
    /\ part' = None
    /\ UNCHANGED <<place, catalog, sidecar, backup, oneCatalog, evidence, locals, outside>>

DiscardSidecar ==
    /\ at = "discarding"
    /\ sidecar' = FALSE
    /\ Goto("examining")
    /\ UNCHANGED <<place, catalog, part, backup, oneCatalog, evidence, locals, outside>>

\* A backup may have one link or, where its Catalog was not yet replaced, two.
BackupIsPinned_OneLink == backup = Origin /\ ~oneCatalog
BackupIsPinned == backup = Origin

Drifted == catalog # Origin /\ backup = None /\ receipt = None

\* A journal that lies alone is an unknown entry of the candidate.
Examine ==
    /\ at = "examining"
    /\ IF \/ backup # None /\ ~BackupIsPinned
          \/ sidecar
          \/ Drifted
       THEN Goto("refusing") /\ UNCHANGED after
       ELSE /\ Goto(CASE catalog = Origin -> IF backup # None THEN "stale" ELSE "choosing"
                      [] catalog # Origin /\ backup # None -> "deriving"
                      [] OTHER -> "verifying")
            /\ after' = catalog
    /\ UNCHANGED <<candidate, evidence, rewrote, began, outside>>

\* The backup was linked and the Catalog never replaced.
DropStaleBackup ==
    /\ at = "stale"
    /\ backup' = None /\ oneCatalog' = FALSE
    /\ Goto("choosing")
    /\ UNCHANGED <<place, catalog, part, sidecar, evidence, locals, outside>>

----------------------------------------------------------------------------
(* Replacing the Catalog by its rewrite *)

\* The copy is compared with the pinned digest, and rewritten in one
\* transaction, whose journal lies beside the part until it is committed. A
\* rewrite to the same place changes nothing and has none.
BeginRewrite(source, stage) ==
    IF source = Origin THEN Goto(stage) /\ sidecar' = (place # Origin)
                       ELSE Goto("refusing") /\ UNCHANGED sidecar

CommitRewrite(stage) == part' = place /\ sidecar' = FALSE /\ Goto(stage)

\* A candidate that was never moved keeps its Catalog.
Copy ==
    /\ at = "choosing"
    /\ IF place = Origin THEN Goto("verifying") /\ UNCHANGED part
                         ELSE Goto("copying") /\ part' = Torn
    /\ UNCHANGED <<place, catalog, sidecar, backup, oneCatalog, evidence, locals, outside>>

BeginCopy ==
    /\ at = "copying"
    /\ BeginRewrite(catalog, "rewriting")
    /\ UNCHANGED <<place, catalog, part, backup, oneCatalog, evidence, locals, outside>>

CommitCopy ==
    /\ at = "rewriting"
    /\ CommitRewrite("copied")
    /\ UNCHANGED <<place, catalog, backup, oneCatalog, evidence, locals, outside>>

LinkBackup_Never ==
    /\ at = "copied"
    /\ Goto("backed")
    /\ UNCHANGED <<candidate, evidence, locals, outside>>
LinkBackup ==
    /\ at = "copied"
    /\ backup' = catalog /\ oneCatalog' = TRUE
    /\ Goto("backed")
    /\ UNCHANGED <<place, catalog, part, sidecar, evidence, locals, outside>>

Replace ==
    /\ at = "backed"
    /\ catalog' = part /\ part' = None /\ oneCatalog' = FALSE
    /\ Goto("replaced")
    /\ UNCHANGED <<place, sidecar, backup, evidence, locals, outside>>

\* Only from here does an error restore the backup.
NoteReplacement ==
    /\ at = "replaced"
    /\ rewrote' = TRUE /\ after' = catalog
    /\ Goto("verifying")
    /\ UNCHANGED <<candidate, evidence, began, outside>>

----------------------------------------------------------------------------
(* Adopting a Catalog that an earlier attempt has replaced *)

OpenDerivation ==
    /\ at = "deriving"
    /\ part' = Torn
    /\ Goto("reopened")
    /\ UNCHANGED <<place, catalog, sidecar, backup, oneCatalog, evidence, locals, outside>>

BeginDerivation ==
    /\ at = "reopened"
    /\ BeginRewrite(backup, "rederiving")
    /\ UNCHANGED <<place, catalog, part, backup, oneCatalog, evidence, locals, outside>>

CommitDerivation ==
    /\ at = "rederiving"
    /\ CommitRewrite("adopting")
    /\ UNCHANGED <<place, catalog, backup, oneCatalog, evidence, locals, outside>>

DerivesCurrent_Assumed == TRUE
DerivesCurrent == part = after

Adopt ==
    /\ at = "adopting"
    /\ IF DerivesCurrent THEN part' = None /\ Goto("verifying")
                         ELSE UNCHANGED part /\ Goto("refusing")
    /\ UNCHANGED <<place, catalog, sidecar, backup, oneCatalog, evidence, locals, outside>>

----------------------------------------------------------------------------
(* Verification and receipt *)

\* Every path of the Catalog must lie below the place of the candidate (so
\* may those of a foreign one), and its digest must be the one noted.
Verified == catalog \in {place, Foreign} /\ catalog = after

Verify ==
    /\ at = "verifying"
    /\ Goto(IF Verified THEN "publishing" ELSE Raised)
    /\ UNCHANGED <<candidate, evidence, locals, outside>>

\* A leftover part must be a file of one link, whatever it holds.
ReadLeftover ==
    /\ at = "publishing"
    /\ Goto(CASE receiptPart = None -> "opening"
              [] receiptPart # None /\ ~oneReceipt -> "leftover"
              [] OTHER -> Raised)
    /\ UNCHANGED <<candidate, evidence, locals, outside>>

UnlinkLeftover == receiptPart' = None /\ oneReceipt' = FALSE /\ UNCHANGED receipt

RemoveLeftover ==
    /\ at = "leftover"
    /\ UnlinkLeftover
    /\ Goto("opening")
    /\ UNCHANGED <<candidate, locals, outside>>

ReceiptAgrees == receipt = Data /\ ~oneReceipt

OpenReceipt ==
    /\ at = "opening"
    /\ IF receipt # None
       THEN Goto(IF ReceiptAgrees THEN "cleaning" ELSE Raised) /\ UNCHANGED receiptPart
       ELSE Goto("writing") /\ receiptPart' = Torn
    /\ UNCHANGED <<candidate, receipt, oneReceipt, locals, outside>>

WriteReceipt ==
    /\ at = "writing"
    /\ receiptPart' = Data
    /\ Goto("linking")
    /\ UNCHANGED <<candidate, receipt, oneReceipt, locals, outside>>

LinkReceipt ==
    /\ at = "linking"
    /\ receipt' = receiptPart /\ oneReceipt' = TRUE
    /\ Goto("linked")
    /\ UNCHANGED <<candidate, receiptPart, locals, outside>>

UnlinkReceiptPart ==
    /\ at = "linked"
    /\ receiptPart' = None /\ oneReceipt' = FALSE
    /\ Goto("synced")
    /\ UNCHANGED <<candidate, receipt, locals, outside>>

SyncReceipt ==
    /\ at = "synced"
    /\ Goto("cleaning")
    /\ UNCHANGED <<candidate, evidence, locals, outside>>

\* The backup outlives the receipt; one that a killed attempt left goes too.
DropBackup_Own == IF rewrote THEN None ELSE backup
DropBackup == None

Return ==
    /\ at = "cleaning"
    /\ backup' = DropBackup /\ oneCatalog' = (oneCatalog /\ backup' # None)
    /\ Goto("returned")
    /\ UNCHANGED <<place, catalog, part, sidecar, evidence, locals, outside>>

----------------------------------------------------------------------------
(* Refusal *)

Restore ==
    /\ at = "restoring"
    /\ catalog' = backup /\ backup' = None /\ oneCatalog' = FALSE
    /\ Goto("refusing")
    /\ UNCHANGED <<place, part, sidecar, evidence, locals, outside>>

\* Only the part itself is removed.
Refuse ==
    /\ at = "refusing"
    /\ part' = None
    /\ Goto("idle")
    /\ UNCHANGED <<place, catalog, sidecar, backup, oneCatalog, evidence, locals, outside>>

----------------------------------------------------------------------------
(* What goes wrong, and what the operator does *)

Fault == faults < MaxFaults /\ faults' = faults + 1

\* A call of the attempt raises, which rolls an open transaction back; one
\* that raises while it refuses ends it.
Fails ==
    /\ at \notin Resting
    /\ Fault
    /\ Goto(IF at = "refusing" THEN "idle" ELSE Raised)
    /\ sidecar' = (sidecar /\ at \notin {"rewriting", "rederiving"})
    /\ UNCHANGED <<place, catalog, part, backup, oneCatalog, evidence, locals, drifted, unseen, moves>>

Killed ==
    /\ at \notin Resting
    /\ Fault
    /\ Goto("idle")
    /\ UNCHANGED <<candidate, evidence, locals, drifted, unseen, moves>>

Move ==
    /\ at \in Resting
    /\ moves < MaxMoves
    /\ moves' = moves + 1
    /\ place' \in Place \ {place}
    /\ Goto("idle")
    /\ UNCHANGED <<catalog, part, sidecar, backup, oneCatalog, evidence, locals, drifted, unseen, faults>>

\* Another program writes to the Catalog in place, at any time.
Drift ==
    /\ Fault
    /\ drifted' = TRUE /\ unseen' = (unseen \/ at = "replaced")
    /\ catalog' = Foreign
    /\ backup' = IF oneCatalog THEN Foreign ELSE backup
    /\ UNCHANGED <<place, part, sidecar, oneCatalog, evidence, at, locals, moves>>

Examining == Begin \/ DiscardLeftover \/ DiscardSidecar \/ Examine \/ DropStaleBackup
Replacing == Copy \/ BeginCopy \/ CommitCopy \/ LinkBackup \/ Replace \/ NoteReplacement
Adopting == OpenDerivation \/ BeginDerivation \/ CommitDerivation \/ Adopt
Certifying ==
    \/ Verify \/ ReadLeftover \/ RemoveLeftover \/ OpenReceipt \/ WriteReceipt
    \/ LinkReceipt \/ UnlinkReceiptPart \/ SyncReceipt \/ Return
Refusing == Restore \/ Refuse
Advance == Examining \/ Replacing \/ Adopting \/ Certifying \/ Refusing

Next == Advance \/ Fails \/ Killed \/ Move \/ Drift

Spec == Init /\ [][Next]_vars

\* The operator retries, and an attempt that is not killed runs to its end.
FairSpec == Spec /\ WF_vars(Advance)

----------------------------------------------------------------------------
(* Properties *)

TypeOK ==
    /\ place \in Place
    /\ catalog \in CatalogBytes
    /\ part \in Place \cup {None, Torn}
    /\ sidecar \in BOOLEAN
    /\ backup \in CatalogBytes \cup {None}
    /\ oneCatalog \in BOOLEAN
    /\ receipt \in ReceiptBytes \cup {None}
    /\ receiptPart \in ReceiptBytes \cup {None, Torn}
    /\ oneReceipt \in BOOLEAN
    /\ at \in Stage
    /\ after \in CatalogBytes \cup {None}
    /\ rewrote \in BOOLEAN
    /\ began \in CatalogBytes
    /\ drifted \in BOOLEAN /\ unseen \in BOOLEAN /\ moves \in Nat /\ faults \in Nat

\* Whatever was killed or raised, a Catalog nobody else has written to has
\* one of the proofs the next attempt asks for: it is pinned, the pinned
\* bytes are kept beside it, or the published receipt names it
\* (lines 405-437 and the cleaning of 477-479).
EveryCatalogHasItsProof ==
    drifted \/ catalog = Origin \/ backup = Origin
            \/ (receipt # None /\ receipt.after = catalog)

\* An attempt that returns has a receipt for the Catalog as it lies and for
\* the place it lies at, and has left no file of its own behind: neither one
\* that it made nor one that it found.
ReturnIsComplete ==
    at = "returned" =>
        /\ receipt = Data
        /\ drifted \/ catalog = after
        /\ unseen \/ after = place
        /\ part = None /\ ~sidecar /\ backup = None /\ receiptPart = None

\* Over a Catalog that somebody else has written to no attempt returns, and
\* no receipt ever names such bytes: they are neither derived from the backup
\* nor named by a receipt that agrees (lines 425-437, 325-328).  A write
\* between the replacement and the digest that follows it is not seen: that
\* digest is not compared with the one of the rewrite.
DriftIsNeverCertified ==
    unseen \/
    /\ at = "returned" => began # Foreign
    /\ receipt # None => receipt.after # Foreign

\* Where every retry refuses: the receipt has been linked and its part not
\* yet unlinked, so that the part has two links; or the part of a rewrite that
\* was killed in its transaction has been unlinked and its journal not, which
\* no later attempt looks for (lines 383 and 483).
StuckReceipt == at \in Resting /\ oneReceipt
StuckSidecar == at \in Resting /\ sidecar /\ part = None

\* A candidate that stays where it is and is not written to is rebound by
\* one of the retries, wherever the earlier ones have been killed or have
\* raised, save in those two windows.
RetryRebinds == []<>(at = "returned" \/ StuckReceipt \/ StuckSidecar \/ drifted \/ moves > 0)

\* What docs/distribution/installation-path-rebind.md says of the windows:
\* "Interruptions are recoverable: a leftover rewrite part file is rebuilt
\* deterministically; ... a leftover receipt part is republished."  The code
\* does neither always.
LeftoverPartIsRebuilt == []<>(at = "returned" \/ StuckReceipt \/ drifted \/ moves > 0)
LeftoverReceiptIsRepublished == []<>(at = "returned" \/ StuckSidecar \/ drifted \/ moves > 0)

----------------------------------------------------------------------------
(* The inductive invariant *)

\* Which of the candidate's files a stage has before it.
FilesOfStage ==
    /\ oneCatalog => backup # None
    /\ at \in {"backed", "replaced", "restoring"} => backup # None
    /\ at \in Publishing /\ rewrote => backup # None
    /\ at \in {"copied", "backed"} => part = place
    /\ at = "adopting" => part = place
    /\ at \in {"discarding", "examining", "stale", "choosing", "replaced", "cleaning", "returned"} \cup Publishing
          => part = None
    /\ sidecar => at \in {"idle", "locked", "discarding", "examining", "rewriting", "rederiving", "refusing"}
    /\ at = "returned" => backup = None
    /\ at \notin Resting \cup Publishing \cup {"cleaning", "restoring", "refusing"} => ~rewrote

\* What the Catalog and its backup hold, when nobody else has written.
PinOfStage ==
    \/ drifted
    \/ /\ EveryCatalogHasItsProof
       /\ backup \in {None, Origin}
       /\ at \in {"stale", "choosing", "copying", "rewriting", "copied", "backed"} => catalog = Origin
       /\ at \in {"publishing", "leftover", "opening", "writing", "linking", "linked",
                  "synced", "cleaning"} => catalog = after
       /\ at = "returned" => catalog = after

\* How far the receipt of the attempt has got.
ReceiptOfStage ==
    /\ at \in {"writing", "linking"} => receipt = None
    /\ at \in {"linking", "linked"} => receiptPart = Data
    /\ at \in {"linked", "synced", "cleaning", "returned"} => receipt = Data
    /\ at \in {"opening", "synced", "cleaning", "returned"} => receiptPart = None
    /\ at \notin {"idle", "locked", "discarding", "examining", "refusing", "restoring"} => after # None

\* What it certifies, when no write was unseen.
DigestOfStage ==
    \/ unseen
    \/ /\ receipt # None => receipt.after # Foreign
       /\ at \in {"stale", "choosing"} => after = Origin
       /\ at = "replaced" => catalog = place
       /\ at \in {"verifying", "publishing", "leftover", "opening"} /\ after = Foreign => receipt # None
       /\ at \in {"writing", "linking", "linked", "synced", "cleaning", "returned"} => after # Foreign
       /\ at \in {"publishing", "leftover", "opening", "writing", "linking", "linked",
                  "synced", "cleaning", "returned"} => after \in {place, Foreign}
       /\ began = Foreign =>
            /\ at \in {"locked", "discarding", "examining"} => catalog = Foreign
            /\ at \notin {"stale", "choosing", "copying", "rewriting", "copied", "backed", "replaced"}
            /\ at \in {"deriving", "reopened", "rederiving", "adopting", "cleaning", "returned"} \cup Publishing
                  => after = Foreign

IInv == TypeOK /\ FilesOfStage /\ PinOfStage /\ ReceiptOfStage /\ DigestOfStage
=============================================================================
