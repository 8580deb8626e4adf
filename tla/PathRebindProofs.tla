--------------------------- MODULE PathRebindProofs ---------------------------
(***************************************************************************)
(* Theorems about PathRebind for any places and any number of moves and    *)
(* faults.  The argument follows the stages of an attempt: what files it   *)
(* has before it (FilesOfStage), what the Catalog and its backup hold      *)
(* (PinOfStage), how far the receipt has got (ReceiptOfStage), and that    *)
(* the digest it will publish is no foreign one (DigestOfStage).           *)
(***************************************************************************)
EXTENDS PathRebind, TLAPS

LEMMA InitInvariant == Init => IInv
<1> SUFFICES ASSUME Init PROVE IInv
  OBVIOUS
<1> USE RebindAssumption DEF Init
<1>1. TypeOK
  BY DEF TypeOK, CatalogBytes, ReceiptBytes, Stage, Resting
<1>2. FilesOfStage /\ ReceiptOfStage
  BY DEF FilesOfStage, ReceiptOfStage, Publishing
<1>3. PinOfStage /\ DigestOfStage
  BY DEF PinOfStage, EveryCatalogHasItsProof, DigestOfStage, Publishing
<1> QED
  BY <1>1, <1>2, <1>3 DEF IInv

(* The files of the candidate keep their types: the Catalog is replaced by *)
(* a part that is written out, and restored from a backup that exists.     *)
LEMMA CandidateTypeStep == TypeOK /\ FilesOfStage /\ [Next]_vars => (place \in Place /\ catalog \in CatalogBytes /\ part \in Place \cup {None, Torn} /\ backup \in CatalogBytes \cup {None} /\ oneCatalog \in BOOLEAN /\ sidecar \in BOOLEAN)'
<1> SUFFICES ASSUME TypeOK /\ FilesOfStage, [Next]_vars PROVE (place \in Place /\ catalog \in CatalogBytes /\ part \in Place \cup {None, Torn} /\ backup \in CatalogBytes \cup {None} /\ oneCatalog \in BOOLEAN /\ sidecar \in BOOLEAN)'
  OBVIOUS
<1>0. /\ place \in Place /\ catalog \in CatalogBytes /\ part \in Place \cup {None, Torn}
      /\ backup \in CatalogBytes \cup {None} /\ oneCatalog \in BOOLEAN /\ sidecar \in BOOLEAN
      /\ at \in {"backed", "restoring"} => backup # None
      /\ at = "backed" => part = place
      /\ Origin \in Place
  BY RebindAssumption DEF TypeOK, FilesOfStage
<1>1. CASE Begin
  BY <1>0, <1>1 DEF Begin, Goto, candidate, evidence, outside, Resting, CatalogBytes
<1>2. CASE DiscardLeftover
  BY <1>0, <1>2 DEF DiscardLeftover, Goto, evidence, locals, outside, CatalogBytes
<1>3. CASE DiscardSidecar
  BY <1>0, <1>3 DEF DiscardSidecar, Goto, evidence, locals, outside, CatalogBytes
<1>4. CASE Examine
  BY <1>0, <1>4 DEF Examine, Goto, BackupIsPinned, Drifted, candidate, evidence, outside, CatalogBytes
<1>5. CASE DropStaleBackup
  BY <1>0, <1>5 DEF DropStaleBackup, Goto, evidence, locals, outside, CatalogBytes
<1>6. CASE Copy
  BY <1>0, <1>6 DEF Copy, Goto, evidence, locals, outside, CatalogBytes
<1>7. CASE BeginCopy
  BY <1>0, <1>7 DEF BeginCopy, BeginRewrite, evidence, locals, outside, Goto, CatalogBytes
<1>8. CASE CommitCopy
  BY <1>0, <1>8 DEF CommitCopy, CommitRewrite, evidence, locals, outside, Goto, CatalogBytes
<1>9. CASE LinkBackup
  BY <1>0, <1>9 DEF LinkBackup, Goto, evidence, locals, outside, CatalogBytes
<1>10. CASE Replace
  BY <1>0, <1>10 DEF Replace, Goto, evidence, locals, outside, CatalogBytes
<1>11. CASE NoteReplacement
  BY <1>0, <1>11 DEF NoteReplacement, Goto, candidate, evidence, outside, CatalogBytes
<1>12. CASE OpenDerivation
  BY <1>0, <1>12 DEF OpenDerivation, Goto, evidence, locals, outside, CatalogBytes
<1>13. CASE BeginDerivation
  BY <1>0, <1>13 DEF BeginDerivation, BeginRewrite, evidence, locals, outside, Goto, CatalogBytes
<1>14. CASE CommitDerivation
  BY <1>0, <1>14 DEF CommitDerivation, CommitRewrite, evidence, locals, outside, Goto, CatalogBytes
<1>15. CASE Adopt
  BY <1>0, <1>15 DEF Adopt, Goto, DerivesCurrent, evidence, locals, outside, CatalogBytes
<1>16. CASE Verify
  BY <1>0, <1>16 DEF Verify, Goto, Raised, Verified, candidate, evidence, locals, outside, Publishing, CatalogBytes
<1>17. CASE ReadLeftover
  BY <1>0, <1>17 DEF ReadLeftover, Goto, Raised, candidate, evidence, locals, outside, Publishing, CatalogBytes
<1>18. CASE RemoveLeftover
  BY <1>0, <1>18 DEF RemoveLeftover, Goto, UnlinkLeftover, candidate, locals, outside, CatalogBytes
<1>19. CASE OpenReceipt
  BY <1>0, <1>19 DEF OpenReceipt, Goto, Raised, ReceiptAgrees, candidate, locals, outside, Publishing, Data, CatalogBytes
<1>20. CASE WriteReceipt
  BY <1>0, <1>20 DEF WriteReceipt, Goto, Data, candidate, locals, outside, CatalogBytes
<1>21. CASE LinkReceipt
  BY <1>0, <1>21 DEF LinkReceipt, Goto, candidate, locals, outside, CatalogBytes
<1>22. CASE UnlinkReceiptPart
  BY <1>0, <1>22 DEF UnlinkReceiptPart, Goto, candidate, locals, outside, CatalogBytes
<1>23. CASE SyncReceipt
  BY <1>0, <1>23 DEF SyncReceipt, Goto, candidate, evidence, locals, outside, CatalogBytes
<1>24. CASE Return
  BY <1>0, <1>24 DEF Return, Goto, DropBackup, evidence, locals, outside, CatalogBytes
<1>25. CASE Restore
  BY <1>0, <1>25 DEF Restore, Goto, evidence, locals, outside, CatalogBytes
<1>26. CASE Refuse
  BY <1>0, <1>26 DEF Refuse, Goto, evidence, locals, outside, CatalogBytes
<1>27. CASE Fails
  BY <1>0, <1>27 DEF Fails, Goto, Raised, Fault, evidence, locals, Resting, Publishing, CatalogBytes
<1>28. CASE Killed
  BY <1>0, <1>28 DEF Killed, Goto, Fault, candidate, evidence, locals, Resting, CatalogBytes
<1>29. CASE Move
  BY <1>0, <1>29 DEF Move, Goto, evidence, locals, Resting, CatalogBytes
<1>30. CASE Drift
  BY <1>0, <1>30 DEF Drift, Fault, evidence, locals, CatalogBytes
<1>31. CASE UNCHANGED vars
  BY <1>0, <1>31 DEF vars, candidate, evidence, locals, outside, CatalogBytes
<1> QED
  BY <1>1, <1>2, <1>3, <1>4, <1>5, <1>6, <1>7, <1>8, <1>9, <1>10, <1>11, <1>12,
     <1>13, <1>14, <1>15, <1>16, <1>17, <1>18, <1>19, <1>20, <1>21, <1>22, <1>23, <1>24,
     <1>25, <1>26, <1>27, <1>28, <1>29, <1>30, <1>31
  DEF Next, Advance, Examining, Replacing, Adopting, Certifying, Refusing

(* So do the receipt and its part.                                         *)
LEMMA ReceiptTypeStep == TypeOK /\ ReceiptOfStage /\ [Next]_vars => (receipt \in ReceiptBytes \cup {None} /\ receiptPart \in ReceiptBytes \cup {None, Torn} /\ oneReceipt \in BOOLEAN)'
<1> SUFFICES ASSUME TypeOK /\ ReceiptOfStage, [Next]_vars PROVE (receipt \in ReceiptBytes \cup {None} /\ receiptPart \in ReceiptBytes \cup {None, Torn} /\ oneReceipt \in BOOLEAN)'
  OBVIOUS
<1>0. /\ receipt \in ReceiptBytes \cup {None} /\ receiptPart \in ReceiptBytes \cup {None, Torn}
      /\ oneReceipt \in BOOLEAN
      /\ at = "writing" => Data \in ReceiptBytes
      /\ at = "linking" => receiptPart \in ReceiptBytes
  BY DEF TypeOK, ReceiptOfStage, Data, ReceiptBytes
<1>1. CASE Begin
  BY <1>0, <1>1 DEF Begin, Goto, candidate, evidence, outside, Resting
<1>2. CASE DiscardLeftover
  BY <1>0, <1>2 DEF DiscardLeftover, Goto, evidence, locals, outside
<1>3. CASE DiscardSidecar
  BY <1>0, <1>3 DEF DiscardSidecar, Goto, evidence, locals, outside
<1>4. CASE Examine
  BY <1>0, <1>4 DEF Examine, Goto, BackupIsPinned, Drifted, candidate, evidence, outside
<1>5. CASE DropStaleBackup
  BY <1>0, <1>5 DEF DropStaleBackup, Goto, evidence, locals, outside
<1>6. CASE Copy
  BY <1>0, <1>6 DEF Copy, Goto, evidence, locals, outside
<1>7. CASE BeginCopy
  BY <1>0, <1>7 DEF BeginCopy, BeginRewrite, evidence, locals, outside, Goto
<1>8. CASE CommitCopy
  BY <1>0, <1>8 DEF CommitCopy, CommitRewrite, evidence, locals, outside, Goto
<1>9. CASE LinkBackup
  BY <1>0, <1>9 DEF LinkBackup, Goto, evidence, locals, outside
<1>10. CASE Replace
  BY <1>0, <1>10 DEF Replace, Goto, evidence, locals, outside
<1>11. CASE NoteReplacement
  BY <1>0, <1>11 DEF NoteReplacement, Goto, candidate, evidence, outside
<1>12. CASE OpenDerivation
  BY <1>0, <1>12 DEF OpenDerivation, Goto, evidence, locals, outside
<1>13. CASE BeginDerivation
  BY <1>0, <1>13 DEF BeginDerivation, BeginRewrite, evidence, locals, outside, Goto
<1>14. CASE CommitDerivation
  BY <1>0, <1>14 DEF CommitDerivation, CommitRewrite, evidence, locals, outside, Goto
<1>15. CASE Adopt
  BY <1>0, <1>15 DEF Adopt, Goto, DerivesCurrent, evidence, locals, outside
<1>16. CASE Verify
  BY <1>0, <1>16 DEF Verify, Goto, Raised, Verified, candidate, evidence, locals, outside, Publishing
<1>17. CASE ReadLeftover
  BY <1>0, <1>17 DEF ReadLeftover, Goto, Raised, candidate, evidence, locals, outside, Publishing
<1>18. CASE RemoveLeftover
  BY <1>0, <1>18 DEF RemoveLeftover, Goto, UnlinkLeftover, candidate, locals, outside
<1>19. CASE OpenReceipt
  BY <1>0, <1>19 DEF OpenReceipt, Goto, Raised, ReceiptAgrees, candidate, locals, outside, Publishing, Data
<1>20. CASE WriteReceipt
  BY <1>0, <1>20 DEF WriteReceipt, Goto, Data, candidate, locals, outside
<1>21. CASE LinkReceipt
  BY <1>0, <1>21 DEF LinkReceipt, Goto, candidate, locals, outside
<1>22. CASE UnlinkReceiptPart
  BY <1>0, <1>22 DEF UnlinkReceiptPart, Goto, candidate, locals, outside
<1>23. CASE SyncReceipt
  BY <1>0, <1>23 DEF SyncReceipt, Goto, candidate, evidence, locals, outside
<1>24. CASE Return
  BY <1>0, <1>24 DEF Return, Goto, DropBackup, evidence, locals, outside
<1>25. CASE Restore
  BY <1>0, <1>25 DEF Restore, Goto, evidence, locals, outside
<1>26. CASE Refuse
  BY <1>0, <1>26 DEF Refuse, Goto, evidence, locals, outside
<1>27. CASE Fails
  BY <1>0, <1>27 DEF Fails, Goto, Raised, Fault, evidence, locals, Resting, Publishing
<1>28. CASE Killed
  BY <1>0, <1>28 DEF Killed, Goto, Fault, candidate, evidence, locals, Resting
<1>29. CASE Move
  BY <1>0, <1>29 DEF Move, Goto, evidence, locals, Resting
<1>30. CASE Drift
  BY <1>0, <1>30 DEF Drift, Fault, evidence, locals
<1>31. CASE UNCHANGED vars
  BY <1>0, <1>31 DEF vars, candidate, evidence, locals, outside
<1> QED
  BY <1>1, <1>2, <1>3, <1>4, <1>5, <1>6, <1>7, <1>8, <1>9, <1>10, <1>11, <1>12,
     <1>13, <1>14, <1>15, <1>16, <1>17, <1>18, <1>19, <1>20, <1>21, <1>22, <1>23, <1>24,
     <1>25, <1>26, <1>27, <1>28, <1>29, <1>30, <1>31
  DEF Next, Advance, Examining, Replacing, Adopting, Certifying, Refusing

(* The stage and the variables of the attempt keep their types.            *)
LEMMA AttemptTypeStep == TypeOK /\ [Next]_vars => (at \in Stage /\ after \in CatalogBytes \cup {None} /\ rewrote \in BOOLEAN /\ began \in CatalogBytes)'
<1> SUFFICES ASSUME TypeOK, [Next]_vars PROVE (at \in Stage /\ after \in CatalogBytes \cup {None} /\ rewrote \in BOOLEAN /\ began \in CatalogBytes)'
  OBVIOUS
<1>0. /\ at \in Stage /\ after \in CatalogBytes \cup {None}
      /\ rewrote \in BOOLEAN /\ began \in CatalogBytes /\ catalog \in CatalogBytes
  BY DEF TypeOK
<1>1. CASE Begin
  BY <1>0, <1>1 DEF Begin, Goto, candidate, evidence, outside, Resting, Stage, Publishing
<1>2. CASE DiscardLeftover
  BY <1>0, <1>2 DEF DiscardLeftover, Goto, evidence, locals, outside, Stage, Resting, Publishing
<1>3. CASE DiscardSidecar
  BY <1>0, <1>3 DEF DiscardSidecar, Goto, evidence, locals, outside, Stage, Resting, Publishing
<1>4. CASE Examine
  BY <1>0, <1>4 DEF Examine, Goto, BackupIsPinned, Drifted, candidate, evidence, outside, Stage, Resting, Publishing
<1>5. CASE DropStaleBackup
  BY <1>0, <1>5 DEF DropStaleBackup, Goto, evidence, locals, outside, Stage, Resting, Publishing
<1>6. CASE Copy
  BY <1>0, <1>6 DEF Copy, Goto, evidence, locals, outside, Stage, Resting, Publishing
<1>7. CASE BeginCopy
  BY <1>0, <1>7 DEF BeginCopy, BeginRewrite, evidence, locals, outside, Goto, Stage, Resting, Publishing
<1>8. CASE CommitCopy
  BY <1>0, <1>8 DEF CommitCopy, CommitRewrite, evidence, locals, outside, Goto, Stage, Resting, Publishing
<1>9. CASE LinkBackup
  BY <1>0, <1>9 DEF LinkBackup, Goto, evidence, locals, outside, Stage, Resting, Publishing
<1>10. CASE Replace
  BY <1>0, <1>10 DEF Replace, Goto, evidence, locals, outside, Stage, Resting, Publishing
<1>11. CASE NoteReplacement
  BY <1>0, <1>11 DEF NoteReplacement, Goto, candidate, evidence, outside, Stage, Resting, Publishing
<1>12. CASE OpenDerivation
  BY <1>0, <1>12 DEF OpenDerivation, Goto, evidence, locals, outside, Stage, Resting, Publishing
<1>13. CASE BeginDerivation
  BY <1>0, <1>13 DEF BeginDerivation, BeginRewrite, evidence, locals, outside, Goto, Stage, Resting, Publishing
<1>14. CASE CommitDerivation
  BY <1>0, <1>14 DEF CommitDerivation, CommitRewrite, evidence, locals, outside, Goto, Stage, Resting, Publishing
<1>15. CASE Adopt
  BY <1>0, <1>15 DEF Adopt, Goto, DerivesCurrent, evidence, locals, outside, Stage, Resting, Publishing
<1>16. CASE Verify
  BY <1>0, <1>16 DEF Verify, Goto, Raised, Verified, candidate, evidence, locals, outside, Publishing, Stage, Resting
<1>17. CASE ReadLeftover
  BY <1>0, <1>17 DEF ReadLeftover, Goto, Raised, candidate, evidence, locals, outside, Publishing, Stage, Resting
<1>18. CASE RemoveLeftover
  BY <1>0, <1>18 DEF RemoveLeftover, Goto, UnlinkLeftover, candidate, locals, outside, Stage, Resting, Publishing
<1>19. CASE OpenReceipt
  BY <1>0, <1>19 DEF OpenReceipt, Goto, Raised, ReceiptAgrees, candidate, locals, outside, Publishing, Data, Stage, Resting
<1>20. CASE WriteReceipt
  BY <1>0, <1>20 DEF WriteReceipt, Goto, Data, candidate, locals, outside, Stage, Resting, Publishing
<1>21. CASE LinkReceipt
  BY <1>0, <1>21 DEF LinkReceipt, Goto, candidate, locals, outside, Stage, Resting, Publishing
<1>22. CASE UnlinkReceiptPart
  BY <1>0, <1>22 DEF UnlinkReceiptPart, Goto, candidate, locals, outside, Stage, Resting, Publishing
<1>23. CASE SyncReceipt
  BY <1>0, <1>23 DEF SyncReceipt, Goto, candidate, evidence, locals, outside, Stage, Resting, Publishing
<1>24. CASE Return
  BY <1>0, <1>24 DEF Return, Goto, DropBackup, evidence, locals, outside, Stage, Resting, Publishing
<1>25. CASE Restore
  BY <1>0, <1>25 DEF Restore, Goto, evidence, locals, outside, Stage, Resting, Publishing
<1>26. CASE Refuse
  BY <1>0, <1>26 DEF Refuse, Goto, evidence, locals, outside, Stage, Resting, Publishing
<1>27. CASE Fails
  BY <1>0, <1>27 DEF Fails, Goto, Raised, Fault, evidence, locals, Resting, Publishing, Stage
<1>28. CASE Killed
  BY <1>0, <1>28 DEF Killed, Goto, Fault, candidate, evidence, locals, Resting, Stage, Publishing
<1>29. CASE Move
  BY <1>0, <1>29 DEF Move, Goto, evidence, locals, Resting, Stage, Publishing
<1>30. CASE Drift
  BY <1>0, <1>30 DEF Drift, Fault, evidence, locals, Stage, Resting, Publishing
<1>31. CASE UNCHANGED vars
  BY <1>0, <1>31 DEF vars, candidate, evidence, locals, outside, Stage, Resting, Publishing
<1> QED
  BY <1>1, <1>2, <1>3, <1>4, <1>5, <1>6, <1>7, <1>8, <1>9, <1>10, <1>11, <1>12,
     <1>13, <1>14, <1>15, <1>16, <1>17, <1>18, <1>19, <1>20, <1>21, <1>22, <1>23, <1>24,
     <1>25, <1>26, <1>27, <1>28, <1>29, <1>30, <1>31
  DEF Next, Advance, Examining, Replacing, Adopting, Certifying, Refusing

(* And so do the histories and the counters.                               *)
LEMMA HistoryTypeStep == TypeOK /\ [Next]_vars => (drifted \in BOOLEAN /\ unseen \in BOOLEAN /\ moves \in Nat /\ faults \in Nat)'
<1> SUFFICES ASSUME TypeOK, [Next]_vars PROVE (drifted \in BOOLEAN /\ unseen \in BOOLEAN /\ moves \in Nat /\ faults \in Nat)'
  OBVIOUS
<1>0. drifted \in BOOLEAN /\ unseen \in BOOLEAN /\ moves \in Nat /\ faults \in Nat
  BY DEF TypeOK
<1>1. CASE Begin
  BY <1>0, <1>1 DEF Begin, Goto, candidate, evidence, outside, Resting
<1>2. CASE DiscardLeftover
  BY <1>0, <1>2 DEF DiscardLeftover, Goto, evidence, locals, outside
<1>3. CASE DiscardSidecar
  BY <1>0, <1>3 DEF DiscardSidecar, Goto, evidence, locals, outside
<1>4. CASE Examine
  BY <1>0, <1>4 DEF Examine, Goto, BackupIsPinned, Drifted, candidate, evidence, outside
<1>5. CASE DropStaleBackup
  BY <1>0, <1>5 DEF DropStaleBackup, Goto, evidence, locals, outside
<1>6. CASE Copy
  BY <1>0, <1>6 DEF Copy, Goto, evidence, locals, outside
<1>7. CASE BeginCopy
  BY <1>0, <1>7 DEF BeginCopy, BeginRewrite, evidence, locals, outside, Goto
<1>8. CASE CommitCopy
  BY <1>0, <1>8 DEF CommitCopy, CommitRewrite, evidence, locals, outside, Goto
<1>9. CASE LinkBackup
  BY <1>0, <1>9 DEF LinkBackup, Goto, evidence, locals, outside
<1>10. CASE Replace
  BY <1>0, <1>10 DEF Replace, Goto, evidence, locals, outside
<1>11. CASE NoteReplacement
  BY <1>0, <1>11 DEF NoteReplacement, Goto, candidate, evidence, outside
<1>12. CASE OpenDerivation
  BY <1>0, <1>12 DEF OpenDerivation, Goto, evidence, locals, outside
<1>13. CASE BeginDerivation
  BY <1>0, <1>13 DEF BeginDerivation, BeginRewrite, evidence, locals, outside, Goto
<1>14. CASE CommitDerivation
  BY <1>0, <1>14 DEF CommitDerivation, CommitRewrite, evidence, locals, outside, Goto
<1>15. CASE Adopt
  BY <1>0, <1>15 DEF Adopt, Goto, DerivesCurrent, evidence, locals, outside
<1>16. CASE Verify
  BY <1>0, <1>16 DEF Verify, Goto, Raised, Verified, candidate, evidence, locals, outside, Publishing
<1>17. CASE ReadLeftover
  BY <1>0, <1>17 DEF ReadLeftover, Goto, Raised, candidate, evidence, locals, outside, Publishing
<1>18. CASE RemoveLeftover
  BY <1>0, <1>18 DEF RemoveLeftover, Goto, UnlinkLeftover, candidate, locals, outside
<1>19. CASE OpenReceipt
  BY <1>0, <1>19 DEF OpenReceipt, Goto, Raised, ReceiptAgrees, candidate, locals, outside, Publishing, Data
<1>20. CASE WriteReceipt
  BY <1>0, <1>20 DEF WriteReceipt, Goto, Data, candidate, locals, outside
<1>21. CASE LinkReceipt
  BY <1>0, <1>21 DEF LinkReceipt, Goto, candidate, locals, outside
<1>22. CASE UnlinkReceiptPart
  BY <1>0, <1>22 DEF UnlinkReceiptPart, Goto, candidate, locals, outside
<1>23. CASE SyncReceipt
  BY <1>0, <1>23 DEF SyncReceipt, Goto, candidate, evidence, locals, outside
<1>24. CASE Return
  BY <1>0, <1>24 DEF Return, Goto, DropBackup, evidence, locals, outside
<1>25. CASE Restore
  BY <1>0, <1>25 DEF Restore, Goto, evidence, locals, outside
<1>26. CASE Refuse
  BY <1>0, <1>26 DEF Refuse, Goto, evidence, locals, outside
<1>27. CASE Fails
  BY <1>0, <1>27 DEF Fails, Goto, Raised, Fault, evidence, locals, Resting, Publishing
<1>28. CASE Killed
  BY <1>0, <1>28 DEF Killed, Goto, Fault, candidate, evidence, locals, Resting
<1>29. CASE Move
  BY <1>0, <1>29 DEF Move, Goto, evidence, locals, Resting
<1>30. CASE Drift
  BY <1>0, <1>30 DEF Drift, Fault, evidence, locals
<1>31. CASE UNCHANGED vars
  BY <1>0, <1>31 DEF vars, candidate, evidence, locals, outside
<1> QED
  BY <1>1, <1>2, <1>3, <1>4, <1>5, <1>6, <1>7, <1>8, <1>9, <1>10, <1>11, <1>12,
     <1>13, <1>14, <1>15, <1>16, <1>17, <1>18, <1>19, <1>20, <1>21, <1>22, <1>23, <1>24,
     <1>25, <1>26, <1>27, <1>28, <1>29, <1>30, <1>31
  DEF Next, Advance, Examining, Replacing, Adopting, Certifying, Refusing

(* What files the next stage has before it.                                *)
LEMMA FilesStep == TypeOK /\ FilesOfStage /\ [Next]_vars => FilesOfStage'
<1> SUFFICES ASSUME TypeOK /\ FilesOfStage, [Next]_vars PROVE FilesOfStage'
  OBVIOUS
<1>0. FilesOfStage /\ catalog # None /\ Foreign # None /\ at \in Stage
  BY RebindAssumption DEF TypeOK, CatalogBytes
<1>1. CASE Begin
  BY <1>0, <1>1 DEF Begin, Goto, candidate, evidence, outside, Resting, FilesOfStage, Publishing, Stage
<1>2. CASE DiscardLeftover
  BY <1>0, <1>2 DEF DiscardLeftover, Goto, evidence, locals, outside, FilesOfStage, Publishing, Stage, Resting
<1>3. CASE DiscardSidecar
  BY <1>0, <1>3 DEF DiscardSidecar, Goto, evidence, locals, outside, FilesOfStage, Publishing, Stage, Resting
<1>4. CASE Examine
  BY <1>0, <1>4 DEF Examine, Goto, BackupIsPinned, Drifted, candidate, evidence, outside, FilesOfStage, Publishing, Stage, Resting
<1>5. CASE DropStaleBackup
  BY <1>0, <1>5 DEF DropStaleBackup, Goto, evidence, locals, outside, FilesOfStage, Publishing, Stage, Resting
<1>6. CASE Copy
  BY <1>0, <1>6 DEF Copy, Goto, evidence, locals, outside, FilesOfStage, Publishing, Stage, Resting
<1>7. CASE BeginCopy
  BY <1>0, <1>7 DEF BeginCopy, BeginRewrite, evidence, locals, outside, Goto, FilesOfStage, Publishing, Stage, Resting
<1>8. CASE CommitCopy
  BY <1>0, <1>8 DEF CommitCopy, CommitRewrite, evidence, locals, outside, Goto, FilesOfStage, Publishing, Stage, Resting
<1>9. CASE LinkBackup
  BY <1>0, <1>9 DEF LinkBackup, Goto, evidence, locals, outside, FilesOfStage, Publishing, Stage, Resting
<1>10. CASE Replace
  BY <1>0, <1>10 DEF Replace, Goto, evidence, locals, outside, FilesOfStage, Publishing, Stage, Resting
<1>11. CASE NoteReplacement
  BY <1>0, <1>11 DEF NoteReplacement, Goto, candidate, evidence, outside, FilesOfStage, Publishing, Stage, Resting
<1>12. CASE OpenDerivation
  BY <1>0, <1>12 DEF OpenDerivation, Goto, evidence, locals, outside, FilesOfStage, Publishing, Stage, Resting
<1>13. CASE BeginDerivation
  BY <1>0, <1>13 DEF BeginDerivation, BeginRewrite, evidence, locals, outside, Goto, FilesOfStage, Publishing, Stage, Resting
<1>14. CASE CommitDerivation
  BY <1>0, <1>14 DEF CommitDerivation, CommitRewrite, evidence, locals, outside, Goto, FilesOfStage, Publishing, Stage, Resting
<1>15. CASE Adopt
  BY <1>0, <1>15 DEF Adopt, Goto, DerivesCurrent, evidence, locals, outside, FilesOfStage, Publishing, Stage, Resting
<1>16. CASE Verify
  BY <1>0, <1>16 DEF Verify, Goto, Raised, Verified, candidate, evidence, locals, outside, Publishing, FilesOfStage, Stage, Resting
<1>17. CASE ReadLeftover
  BY <1>0, <1>17 DEF ReadLeftover, Goto, Raised, candidate, evidence, locals, outside, Publishing, FilesOfStage, Stage, Resting
<1>18. CASE RemoveLeftover
  BY <1>0, <1>18 DEF RemoveLeftover, Goto, UnlinkLeftover, candidate, locals, outside, FilesOfStage, Publishing, Stage, Resting
<1>19. CASE OpenReceipt
  BY <1>0, <1>19 DEF OpenReceipt, Goto, Raised, ReceiptAgrees, candidate, locals, outside, Publishing, Data, FilesOfStage, Stage, Resting
<1>20. CASE WriteReceipt
  BY <1>0, <1>20 DEF WriteReceipt, Goto, Data, candidate, locals, outside, FilesOfStage, Publishing, Stage, Resting
<1>21. CASE LinkReceipt
  BY <1>0, <1>21 DEF LinkReceipt, Goto, candidate, locals, outside, FilesOfStage, Publishing, Stage, Resting
<1>22. CASE UnlinkReceiptPart
  BY <1>0, <1>22 DEF UnlinkReceiptPart, Goto, candidate, locals, outside, FilesOfStage, Publishing, Stage, Resting
<1>23. CASE SyncReceipt
  BY <1>0, <1>23 DEF SyncReceipt, Goto, candidate, evidence, locals, outside, FilesOfStage, Publishing, Stage, Resting
<1>24. CASE Return
  BY <1>0, <1>24 DEF Return, Goto, DropBackup, evidence, locals, outside, FilesOfStage, Publishing, Stage, Resting
<1>25. CASE Restore
  BY <1>0, <1>25 DEF Restore, Goto, evidence, locals, outside, FilesOfStage, Publishing, Stage, Resting
<1>26. CASE Refuse
  BY <1>0, <1>26 DEF Refuse, Goto, evidence, locals, outside, FilesOfStage, Publishing, Stage, Resting
<1>27. CASE Fails
  BY <1>0, <1>27 DEF Fails, Goto, Raised, Fault, evidence, locals, Resting, Publishing, FilesOfStage, Stage
<1>28. CASE Killed
  BY <1>0, <1>28 DEF Killed, Goto, Fault, candidate, evidence, locals, Resting, FilesOfStage, Publishing, Stage
<1>29. CASE Move
  BY <1>0, <1>29 DEF Move, Goto, evidence, locals, Resting, FilesOfStage, Publishing, Stage
<1>30. CASE Drift
  BY <1>0, <1>30 DEF Drift, Fault, evidence, locals, FilesOfStage, Publishing, Stage, Resting
<1>31. CASE UNCHANGED vars
  BY <1>0, <1>31 DEF vars, candidate, evidence, locals, outside, FilesOfStage, Publishing, Stage, Resting
<1> QED
  BY <1>1, <1>2, <1>3, <1>4, <1>5, <1>6, <1>7, <1>8, <1>9, <1>10, <1>11, <1>12,
     <1>13, <1>14, <1>15, <1>16, <1>17, <1>18, <1>19, <1>20, <1>21, <1>22, <1>23, <1>24,
     <1>25, <1>26, <1>27, <1>28, <1>29, <1>30, <1>31
  DEF Next, Advance, Examining, Replacing, Adopting, Certifying, Refusing

(* How far the receipt has got.                                            *)
LEMMA ReceiptStep == TypeOK /\ ReceiptOfStage /\ [Next]_vars => ReceiptOfStage'
<1> SUFFICES ASSUME TypeOK /\ ReceiptOfStage, [Next]_vars PROVE ReceiptOfStage'
  OBVIOUS
<1>0. ReceiptOfStage /\ catalog # None /\ at \in Stage
  BY RebindAssumption DEF TypeOK, CatalogBytes
<1>1. CASE Begin
  BY <1>0, <1>1 DEF Begin, Goto, candidate, evidence, outside, Resting, ReceiptOfStage, Data, Publishing, Stage
<1>2. CASE DiscardLeftover
  BY <1>0, <1>2 DEF DiscardLeftover, Goto, evidence, locals, outside, ReceiptOfStage, Data, Publishing, Stage, Resting
<1>3. CASE DiscardSidecar
  BY <1>0, <1>3 DEF DiscardSidecar, Goto, evidence, locals, outside, ReceiptOfStage, Data, Publishing, Stage, Resting
<1>4. CASE Examine
  BY <1>0, <1>4 DEF Examine, Goto, BackupIsPinned, Drifted, candidate, evidence, outside, ReceiptOfStage, Data, Publishing, Stage, Resting
<1>5. CASE DropStaleBackup
  BY <1>0, <1>5 DEF DropStaleBackup, Goto, evidence, locals, outside, ReceiptOfStage, Data, Publishing, Stage, Resting
<1>6. CASE Copy
  BY <1>0, <1>6 DEF Copy, Goto, evidence, locals, outside, ReceiptOfStage, Data, Publishing, Stage, Resting
<1>7. CASE BeginCopy
  BY <1>0, <1>7 DEF BeginCopy, BeginRewrite, evidence, locals, outside, Goto, ReceiptOfStage, Data, Publishing, Stage, Resting
<1>8. CASE CommitCopy
  BY <1>0, <1>8 DEF CommitCopy, CommitRewrite, evidence, locals, outside, Goto, ReceiptOfStage, Data, Publishing, Stage, Resting
<1>9. CASE LinkBackup
  BY <1>0, <1>9 DEF LinkBackup, Goto, evidence, locals, outside, ReceiptOfStage, Data, Publishing, Stage, Resting
<1>10. CASE Replace
  BY <1>0, <1>10 DEF Replace, Goto, evidence, locals, outside, ReceiptOfStage, Data, Publishing, Stage, Resting
<1>11. CASE NoteReplacement
  BY <1>0, <1>11 DEF NoteReplacement, Goto, candidate, evidence, outside, ReceiptOfStage, Data, Publishing, Stage, Resting
<1>12. CASE OpenDerivation
  BY <1>0, <1>12 DEF OpenDerivation, Goto, evidence, locals, outside, ReceiptOfStage, Data, Publishing, Stage, Resting
<1>13. CASE BeginDerivation
  BY <1>0, <1>13 DEF BeginDerivation, BeginRewrite, evidence, locals, outside, Goto, ReceiptOfStage, Data, Publishing, Stage, Resting
<1>14. CASE CommitDerivation
  BY <1>0, <1>14 DEF CommitDerivation, CommitRewrite, evidence, locals, outside, Goto, ReceiptOfStage, Data, Publishing, Stage, Resting
<1>15. CASE Adopt
  BY <1>0, <1>15 DEF Adopt, Goto, DerivesCurrent, evidence, locals, outside, ReceiptOfStage, Data, Publishing, Stage, Resting
<1>16. CASE Verify
  BY <1>0, <1>16 DEF Verify, Goto, Raised, Verified, candidate, evidence, locals, outside, Publishing, ReceiptOfStage, Data, Stage, Resting
<1>17. CASE ReadLeftover
  BY <1>0, <1>17 DEF ReadLeftover, Goto, Raised, candidate, evidence, locals, outside, Publishing, ReceiptOfStage, Data, Stage, Resting
<1>18. CASE RemoveLeftover
  BY <1>0, <1>18 DEF RemoveLeftover, Goto, UnlinkLeftover, candidate, locals, outside, ReceiptOfStage, Data, Publishing, Stage, Resting
<1>19. CASE OpenReceipt
  BY <1>0, <1>19 DEF OpenReceipt, Goto, Raised, ReceiptAgrees, candidate, locals, outside, Publishing, Data, ReceiptOfStage, Stage, Resting
<1>20. CASE WriteReceipt
  BY <1>0, <1>20 DEF WriteReceipt, Goto, Data, candidate, locals, outside, ReceiptOfStage, Publishing, Stage, Resting
<1>21. CASE LinkReceipt
  BY <1>0, <1>21 DEF LinkReceipt, Goto, candidate, locals, outside, ReceiptOfStage, Data, Publishing, Stage, Resting
<1>22. CASE UnlinkReceiptPart
  BY <1>0, <1>22 DEF UnlinkReceiptPart, Goto, candidate, locals, outside, ReceiptOfStage, Data, Publishing, Stage, Resting
<1>23. CASE SyncReceipt
  BY <1>0, <1>23 DEF SyncReceipt, Goto, candidate, evidence, locals, outside, ReceiptOfStage, Data, Publishing, Stage, Resting
<1>24. CASE Return
  BY <1>0, <1>24 DEF Return, Goto, DropBackup, evidence, locals, outside, ReceiptOfStage, Data, Publishing, Stage, Resting
<1>25. CASE Restore
  BY <1>0, <1>25 DEF Restore, Goto, evidence, locals, outside, ReceiptOfStage, Data, Publishing, Stage, Resting
<1>26. CASE Refuse
  BY <1>0, <1>26 DEF Refuse, Goto, evidence, locals, outside, ReceiptOfStage, Data, Publishing, Stage, Resting
<1>27. CASE Fails
  BY <1>0, <1>27 DEF Fails, Goto, Raised, Fault, evidence, locals, Resting, Publishing, ReceiptOfStage, Data, Stage
<1>28. CASE Killed
  BY <1>0, <1>28 DEF Killed, Goto, Fault, candidate, evidence, locals, Resting, ReceiptOfStage, Data, Publishing, Stage
<1>29. CASE Move
  BY <1>0, <1>29 DEF Move, Goto, evidence, locals, Resting, ReceiptOfStage, Data, Publishing, Stage
<1>30. CASE Drift
  BY <1>0, <1>30 DEF Drift, Fault, evidence, locals, ReceiptOfStage, Data, Publishing, Stage, Resting
<1>31. CASE UNCHANGED vars
  BY <1>0, <1>31 DEF vars, candidate, evidence, locals, outside, ReceiptOfStage, Data, Publishing, Stage, Resting
<1> QED
  BY <1>1, <1>2, <1>3, <1>4, <1>5, <1>6, <1>7, <1>8, <1>9, <1>10, <1>11, <1>12,
     <1>13, <1>14, <1>15, <1>16, <1>17, <1>18, <1>19, <1>20, <1>21, <1>22, <1>23, <1>24,
     <1>25, <1>26, <1>27, <1>28, <1>29, <1>30, <1>31
  DEF Next, Advance, Examining, Replacing, Adopting, Certifying, Refusing

(* The backup is linked to pinned bytes, and it is dropped only for pinned *)
(* bytes or for a receipt that names what lies there.                      *)
LEMMA PinStep == IInv /\ [Next]_vars => PinOfStage'
<1> SUFFICES ASSUME IInv, [Next]_vars PROVE PinOfStage'
  OBVIOUS
<1>0. /\ PinOfStage /\ at \in Stage
      /\ at = "backed" => part = place
      /\ at \in {"backed", "replaced", "restoring"} => backup # None
      /\ oneCatalog => backup # None
      /\ at \in {"linking", "linked"} => receiptPart = Data
      /\ at \in {"writing", "linking"} => receipt = None
      /\ at \in {"linked", "synced", "cleaning"} => receipt = Data
      /\ Origin # None
      /\ at \in {"linking", "linked", "synced", "cleaning"} => Data # None
  BY RebindAssumption DEF IInv, TypeOK, FilesOfStage, ReceiptOfStage, Data, CatalogBytes
<1>1. CASE Begin
  BY <1>0, <1>1 DEF Begin, Goto, candidate, evidence, outside, Resting, PinOfStage, EveryCatalogHasItsProof, Data, Publishing, Stage
<1>2. CASE DiscardLeftover
  BY <1>0, <1>2 DEF DiscardLeftover, Goto, evidence, locals, outside, PinOfStage, EveryCatalogHasItsProof, Data, Publishing, Stage, Resting
<1>3. CASE DiscardSidecar
  BY <1>0, <1>3 DEF DiscardSidecar, Goto, evidence, locals, outside, PinOfStage, EveryCatalogHasItsProof, Data, Publishing, Stage, Resting
<1>4. CASE Examine
  BY <1>0, <1>4 DEF Examine, Goto, BackupIsPinned, Drifted, candidate, evidence, outside, PinOfStage, EveryCatalogHasItsProof, Data, Publishing, Stage, Resting
<1>5. CASE DropStaleBackup
  BY <1>0, <1>5 DEF DropStaleBackup, Goto, evidence, locals, outside, PinOfStage, EveryCatalogHasItsProof, Data, Publishing, Stage, Resting
<1>6. CASE Copy
  BY <1>0, <1>6 DEF Copy, Goto, evidence, locals, outside, PinOfStage, EveryCatalogHasItsProof, Data, Publishing, Stage, Resting
<1>7. CASE BeginCopy
  BY <1>0, <1>7 DEF BeginCopy, BeginRewrite, evidence, locals, outside, Goto, PinOfStage, EveryCatalogHasItsProof, Data, Publishing, Stage, Resting
<1>8. CASE CommitCopy
  BY <1>0, <1>8 DEF CommitCopy, CommitRewrite, evidence, locals, outside, Goto, PinOfStage, EveryCatalogHasItsProof, Data, Publishing, Stage, Resting
<1>9. CASE LinkBackup
  BY <1>0, <1>9 DEF LinkBackup, Goto, evidence, locals, outside, PinOfStage, EveryCatalogHasItsProof, Data, Publishing, Stage, Resting
<1>10. CASE Replace
  BY <1>0, <1>10 DEF Replace, Goto, evidence, locals, outside, PinOfStage, EveryCatalogHasItsProof, Data, Publishing, Stage, Resting
<1>11. CASE NoteReplacement
  BY <1>0, <1>11 DEF NoteReplacement, Goto, candidate, evidence, outside, PinOfStage, EveryCatalogHasItsProof, Data, Publishing, Stage, Resting
<1>12. CASE OpenDerivation
  BY <1>0, <1>12 DEF OpenDerivation, Goto, evidence, locals, outside, PinOfStage, EveryCatalogHasItsProof, Data, Publishing, Stage, Resting
<1>13. CASE BeginDerivation
  BY <1>0, <1>13 DEF BeginDerivation, BeginRewrite, evidence, locals, outside, Goto, PinOfStage, EveryCatalogHasItsProof, Data, Publishing, Stage, Resting
<1>14. CASE CommitDerivation
  BY <1>0, <1>14 DEF CommitDerivation, CommitRewrite, evidence, locals, outside, Goto, PinOfStage, EveryCatalogHasItsProof, Data, Publishing, Stage, Resting
<1>15. CASE Adopt
  BY <1>0, <1>15 DEF Adopt, Goto, DerivesCurrent, evidence, locals, outside, PinOfStage, EveryCatalogHasItsProof, Data, Publishing, Stage, Resting
<1>16. CASE Verify
  BY <1>0, <1>16 DEF Verify, Goto, Raised, Verified, candidate, evidence, locals, outside, Publishing, PinOfStage, EveryCatalogHasItsProof, Data, Stage, Resting
<1>17. CASE ReadLeftover
  BY <1>0, <1>17 DEF ReadLeftover, Goto, Raised, candidate, evidence, locals, outside, Publishing, PinOfStage, EveryCatalogHasItsProof, Data, Stage, Resting
<1>18. CASE RemoveLeftover
  BY <1>0, <1>18 DEF RemoveLeftover, Goto, UnlinkLeftover, candidate, locals, outside, PinOfStage, EveryCatalogHasItsProof, Data, Publishing, Stage, Resting
<1>19. CASE OpenReceipt
  BY <1>0, <1>19 DEF OpenReceipt, Goto, Raised, ReceiptAgrees, candidate, locals, outside, Publishing, Data, PinOfStage, EveryCatalogHasItsProof, Stage, Resting
<1>20. CASE WriteReceipt
  BY <1>0, <1>20 DEF WriteReceipt, Goto, Data, candidate, locals, outside, PinOfStage, EveryCatalogHasItsProof, Publishing, Stage, Resting
<1>21. CASE LinkReceipt
  BY <1>0, <1>21 DEF LinkReceipt, Goto, candidate, locals, outside, PinOfStage, EveryCatalogHasItsProof, Data, Publishing, Stage, Resting
<1>22. CASE UnlinkReceiptPart
  BY <1>0, <1>22 DEF UnlinkReceiptPart, Goto, candidate, locals, outside, PinOfStage, EveryCatalogHasItsProof, Data, Publishing, Stage, Resting
<1>23. CASE SyncReceipt
  BY <1>0, <1>23 DEF SyncReceipt, Goto, candidate, evidence, locals, outside, PinOfStage, EveryCatalogHasItsProof, Data, Publishing, Stage, Resting
<1>24. CASE Return
  BY <1>0, <1>24 DEF Return, Goto, DropBackup, evidence, locals, outside, PinOfStage, EveryCatalogHasItsProof, Data, Publishing, Stage, Resting
<1>25. CASE Restore
  BY <1>0, <1>25 DEF Restore, Goto, evidence, locals, outside, PinOfStage, EveryCatalogHasItsProof, Data, Publishing, Stage, Resting
<1>26. CASE Refuse
  BY <1>0, <1>26 DEF Refuse, Goto, evidence, locals, outside, PinOfStage, EveryCatalogHasItsProof, Data, Publishing, Stage, Resting
<1>27. CASE Fails
  BY <1>0, <1>27 DEF Fails, Goto, Raised, Fault, evidence, locals, Resting, Publishing, PinOfStage, EveryCatalogHasItsProof, Data, Stage
<1>28. CASE Killed
  BY <1>0, <1>28 DEF Killed, Goto, Fault, candidate, evidence, locals, Resting, PinOfStage, EveryCatalogHasItsProof, Data, Publishing, Stage
<1>29. CASE Move
  BY <1>0, <1>29 DEF Move, Goto, evidence, locals, Resting, PinOfStage, EveryCatalogHasItsProof, Data, Publishing, Stage
<1>30. CASE Drift
  BY <1>0, <1>30 DEF Drift, Fault, evidence, locals, PinOfStage, EveryCatalogHasItsProof, Data, Publishing, Stage, Resting
<1>31. CASE UNCHANGED vars
  BY <1>0, <1>31 DEF vars, candidate, evidence, locals, outside, PinOfStage, EveryCatalogHasItsProof, Data, Publishing, Stage, Resting
<1> QED
  BY <1>1, <1>2, <1>3, <1>4, <1>5, <1>6, <1>7, <1>8, <1>9, <1>10, <1>11, <1>12,
     <1>13, <1>14, <1>15, <1>16, <1>17, <1>18, <1>19, <1>20, <1>21, <1>22, <1>23, <1>24,
     <1>25, <1>26, <1>27, <1>28, <1>29, <1>30, <1>31
  DEF Next, Advance, Examining, Replacing, Adopting, Certifying, Refusing

(* The digest to be published is no foreign one, unless a receipt is there *)
(* to disagree with it.                                                    *)
LEMMA DigestStep == IInv /\ [Next]_vars => DigestOfStage'
<1> SUFFICES ASSUME IInv, [Next]_vars PROVE DigestOfStage'
  OBVIOUS
<1>0. /\ DigestOfStage /\ at \in Stage
      /\ at \in {"adopting", "backed"} => part = place
      /\ at \in {"writing", "linking"} => receipt = None
      /\ at = "linking" => receiptPart = Data
      /\ Foreign # place /\ Foreign # Origin /\ Foreign # None
  BY RebindAssumption DEF IInv, TypeOK, FilesOfStage, ReceiptOfStage
<1>1. CASE Begin
  BY <1>0, <1>1 DEF Begin, Goto, candidate, evidence, outside, Resting, DigestOfStage, Data, Publishing, Stage
<1>2. CASE DiscardLeftover
  BY <1>0, <1>2 DEF DiscardLeftover, Goto, evidence, locals, outside, DigestOfStage, Data, Publishing, Stage, Resting
<1>3. CASE DiscardSidecar
  BY <1>0, <1>3 DEF DiscardSidecar, Goto, evidence, locals, outside, DigestOfStage, Data, Publishing, Stage, Resting
<1>4. CASE Examine
  BY <1>0, <1>4 DEF Examine, Goto, BackupIsPinned, Drifted, candidate, evidence, outside, DigestOfStage, Data, Publishing, Stage, Resting
<1>5. CASE DropStaleBackup
  BY <1>0, <1>5 DEF DropStaleBackup, Goto, evidence, locals, outside, DigestOfStage, Data, Publishing, Stage, Resting
<1>6. CASE Copy
  BY <1>0, <1>6 DEF Copy, Goto, evidence, locals, outside, DigestOfStage, Data, Publishing, Stage, Resting
<1>7. CASE BeginCopy
  BY <1>0, <1>7 DEF BeginCopy, BeginRewrite, evidence, locals, outside, Goto, DigestOfStage, Data, Publishing, Stage, Resting
<1>8. CASE CommitCopy
  BY <1>0, <1>8 DEF CommitCopy, CommitRewrite, evidence, locals, outside, Goto, DigestOfStage, Data, Publishing, Stage, Resting
<1>9. CASE LinkBackup
  BY <1>0, <1>9 DEF LinkBackup, Goto, evidence, locals, outside, DigestOfStage, Data, Publishing, Stage, Resting
<1>10. CASE Replace
  BY <1>0, <1>10 DEF Replace, Goto, evidence, locals, outside, DigestOfStage, Data, Publishing, Stage, Resting
<1>11. CASE NoteReplacement
  BY <1>0, <1>11 DEF NoteReplacement, Goto, candidate, evidence, outside, DigestOfStage, Data, Publishing, Stage, Resting
<1>12. CASE OpenDerivation
  BY <1>0, <1>12 DEF OpenDerivation, Goto, evidence, locals, outside, DigestOfStage, Data, Publishing, Stage, Resting
<1>13. CASE BeginDerivation
  BY <1>0, <1>13 DEF BeginDerivation, BeginRewrite, evidence, locals, outside, Goto, DigestOfStage, Data, Publishing, Stage, Resting
<1>14. CASE CommitDerivation
  BY <1>0, <1>14 DEF CommitDerivation, CommitRewrite, evidence, locals, outside, Goto, DigestOfStage, Data, Publishing, Stage, Resting
<1>15. CASE Adopt
  BY <1>0, <1>15 DEF Adopt, Goto, DerivesCurrent, evidence, locals, outside, DigestOfStage, Data, Publishing, Stage, Resting
<1>16. CASE Verify
  BY <1>0, <1>16 DEF Verify, Goto, Raised, Verified, candidate, evidence, locals, outside, Publishing, DigestOfStage, Data, Stage, Resting
<1>17. CASE ReadLeftover
  BY <1>0, <1>17 DEF ReadLeftover, Goto, Raised, candidate, evidence, locals, outside, Publishing, DigestOfStage, Data, Stage, Resting
<1>18. CASE RemoveLeftover
  BY <1>0, <1>18 DEF RemoveLeftover, Goto, UnlinkLeftover, candidate, locals, outside, DigestOfStage, Data, Publishing, Stage, Resting
<1>19. CASE OpenReceipt
  BY <1>0, <1>19 DEF OpenReceipt, Goto, Raised, ReceiptAgrees, candidate, locals, outside, Publishing, Data, DigestOfStage, Stage, Resting
<1>20. CASE WriteReceipt
  BY <1>0, <1>20 DEF WriteReceipt, Goto, Data, candidate, locals, outside, DigestOfStage, Publishing, Stage, Resting
<1>21. CASE LinkReceipt
  BY <1>0, <1>21 DEF LinkReceipt, Goto, candidate, locals, outside, DigestOfStage, Data, Publishing, Stage, Resting
<1>22. CASE UnlinkReceiptPart
  BY <1>0, <1>22 DEF UnlinkReceiptPart, Goto, candidate, locals, outside, DigestOfStage, Data, Publishing, Stage, Resting
<1>23. CASE SyncReceipt
  BY <1>0, <1>23 DEF SyncReceipt, Goto, candidate, evidence, locals, outside, DigestOfStage, Data, Publishing, Stage, Resting
<1>24. CASE Return
  BY <1>0, <1>24 DEF Return, Goto, DropBackup, evidence, locals, outside, DigestOfStage, Data, Publishing, Stage, Resting
<1>25. CASE Restore
  BY <1>0, <1>25 DEF Restore, Goto, evidence, locals, outside, DigestOfStage, Data, Publishing, Stage, Resting
<1>26. CASE Refuse
  BY <1>0, <1>26 DEF Refuse, Goto, evidence, locals, outside, DigestOfStage, Data, Publishing, Stage, Resting
<1>27. CASE Fails
  BY <1>0, <1>27 DEF Fails, Goto, Raised, Fault, evidence, locals, Resting, Publishing, DigestOfStage, Data, Stage
<1>28. CASE Killed
  BY <1>0, <1>28 DEF Killed, Goto, Fault, candidate, evidence, locals, Resting, DigestOfStage, Data, Publishing, Stage
<1>29. CASE Move
  BY <1>0, <1>29 DEF Move, Goto, evidence, locals, Resting, DigestOfStage, Data, Publishing, Stage
<1>30. CASE Drift
  BY <1>0, <1>30 DEF Drift, Fault, evidence, locals, DigestOfStage, Data, Publishing, Stage, Resting
<1>31. CASE UNCHANGED vars
  BY <1>0, <1>31 DEF vars, candidate, evidence, locals, outside, DigestOfStage, Data, Publishing, Stage, Resting
<1> QED
  BY <1>1, <1>2, <1>3, <1>4, <1>5, <1>6, <1>7, <1>8, <1>9, <1>10, <1>11, <1>12,
     <1>13, <1>14, <1>15, <1>16, <1>17, <1>18, <1>19, <1>20, <1>21, <1>22, <1>23, <1>24,
     <1>25, <1>26, <1>27, <1>28, <1>29, <1>30, <1>31
  DEF Next, Advance, Examining, Replacing, Adopting, Certifying, Refusing

LEMMA TypeStep == IInv /\ [Next]_vars => TypeOK'
BY CandidateTypeStep, ReceiptTypeStep, AttemptTypeStep, HistoryTypeStep DEF IInv, TypeOK

LEMMA InvariantStep == IInv /\ [Next]_vars => IInv'
BY TypeStep, FilesStep, ReceiptStep, PinStep, DigestStep DEF IInv

THEOREM Inductive == Spec => []IInv
BY InitInvariant, InvariantStep, PTL DEF Spec

(* Files, stages and histories have their types in every behaviour.        *)
THEOREM TypeCorrect == Spec => []TypeOK
<1>1. IInv => TypeOK
  BY DEF IInv
<1> QED
  BY <1>1, Inductive, PTL

(* Whatever is killed or raises, wherever the candidate is moved: the next *)
(* attempt has a proof of what the Catalog holds (lines 405-440).          *)
THEOREM ProofIsKept == Spec => []EveryCatalogHasItsProof
<1>1. IInv => EveryCatalogHasItsProof
  BY DEF IInv, PinOfStage, EveryCatalogHasItsProof
<1> QED
  BY <1>1, Inductive, PTL

(* An attempt that returns has certified the Catalog at the place it lies  *)
(* at, and left nothing else (lines 473-489).                              *)
THEOREM Complete == Spec => []ReturnIsComplete
<1>1. ASSUME IInv PROVE ReturnIsComplete
  <2>1. /\ at = "returned" => part = None /\ ~sidecar /\ backup = None
        /\ at = "returned" => receipt = Data /\ receiptPart = None
    BY <1>1 DEF IInv, FilesOfStage, ReceiptOfStage
  <2>2. at = "returned" => drifted \/ catalog = after
    BY <1>1 DEF IInv, PinOfStage
  <2>3. at = "returned" => unseen \/ after = place
    BY <1>1 DEF IInv, DigestOfStage
  <2> QED
    BY <2>1, <2>2, <2>3 DEF ReturnIsComplete
<1> QED
  BY <1>1, Inductive, PTL

(* Bytes that somebody else has written are never certified, unless they   *)
(* were written between the replacement and its digest (lines 423-440).    *)
THEOREM NoForeignCertificate == Spec => []DriftIsNeverCertified
<1>1. ASSUME IInv PROVE DriftIsNeverCertified
  <2>1. DigestOfStage
    BY <1>1 DEF IInv
  <2> QED
    BY <2>1 DEF DigestOfStage, DriftIsNeverCertified
<1> QED
  BY <1>1, Inductive, PTL
===============================================================================
