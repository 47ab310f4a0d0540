------------------------- MODULE SecretStoreProofs -------------------------
(***************************************************************************)
(* Theorems about SecretStore, for every number of processes, salts and    *)
(* secrets.                                                                *)
(***************************************************************************)
EXTENDS SecretStore, TLAPS

-----------------------------------------------------------------------------
(***************************************************************************)
(* The records of which the state is made.                                 *)
(***************************************************************************)
Pairs(S) == [row : S \cup {None}, file : S \cup {None}]

KeyManagers == [pc : Pcs, salt : AnySalt \cup {None},
                offer : AnySalt \cup {None}, cipher : Ciphers \cup {None}]

LEMMA NoneIsNoSalt == None \notin AnySalt
  BY StoreAssumption DEF AnySalt

LEMMA OffType == Off \in KeyManagers
  BY DEF Off, At, KeyManagers, Pcs

LEMMA EncryptedType ==
    ASSUME NEW s \in AnySalt, NEW t \in Texts \cup {OldText}
    PROVE  Encrypted(s, t) \in Ciphers /\ Encrypted(s, t).salt = s
  BY DEF Encrypted, Ciphers, AnySalt

-----------------------------------------------------------------------------
LEMMA InitInvariant == Init => InductiveInvariant
<1> SUFFICES ASSUME Init PROVE InductiveInvariant
  OBVIOUS
<1>1. proc = [p \in Procs |-> Off] /\ Off \in KeyManagers /\ lock = None
  BY OffType DEF Init
<1>2. Encrypted(OldSalt, OldText) \in Ciphers
      /\ Encrypted(OldSalt, OldText).salt = OldSalt
  BY EncryptedType DEF AnySalt
<1>3. TypeOK
  BY <1>1, <1>2 DEF Init, TypeOK, Nowhere, AnySalt, KeyManagers
<1>4. \A p \in Procs : proc[p].pc = "off" /\ proc[p].salt = None
  BY <1>1 DEF Off, At
<1>5. LockHeld
  BY <1>4 DEF LockHeld
<1>6. /\ salt.row = None /\ secret.row = None
      /\ salt.file = None => secret.file = None
      /\ secret.file # None => secret.file.salt = salt.file
  <2>1. CASE salt = Nowhere /\ secret = Nowhere
    BY <2>1 DEF Nowhere
  <2>2. CASE /\ salt = [row |-> None, file |-> OldSalt]
             /\ secret = [row |-> None, file |-> Encrypted(OldSalt, OldText)]
    BY <2>2, <1>2, StoreAssumption, NoneIsNoSalt DEF AnySalt
  <2> QED
    BY <2>1, <2>2 DEF Init
<1>7. OldSaltKept
  BY <1>4, <1>6 DEF OldSaltKept
<1>8. SaltsAgree
  BY <1>4, <1>6 DEF SaltsAgree, SaltIsShared
<1> QED
  BY <1>3, <1>5, <1>7, <1>8 DEF InductiveInvariant

-----------------------------------------------------------------------------
(***************************************************************************)
(* One lemma per action.  An action changes one process, so that what the  *)
(* invariant says of the others carries over as long as neither a salt nor *)
(* the lock changes under them.                                            *)
(***************************************************************************)
LEMMA OfferSaltPreserves ==
    ASSUME InductiveInvariant, NEW p \in Procs, NEW s \in Salts, OfferSalt(p, s)
    PROVE  InductiveInvariant'
<1> USE DEF InductiveInvariant
<1>1. Offer(s) \in AnySalt /\ (salt.file # None => Offer(s) = salt.file)
  BY DEF Offer, AnySalt, TypeOK
<1>2. At("insert", None, Offer(s)) =
          [pc |-> "insert", salt |-> None, offer |-> Offer(s), cipher |-> None]
  BY DEF At
<1> USE <1>1, <1>2 DEF OfferSalt
<1>3. TypeOK'
  BY DEF TypeOK, Pcs
<1>4. LockHeld'
  BY DEF LockHeld, TypeOK
<1>5. OldSaltKept'
  BY NoneIsNoSalt DEF OldSaltKept, TypeOK
<1>6. SaltsAgree'
  BY DEF SaltsAgree, SaltIsShared, StoredSalt, TypeOK
<1> QED
  BY <1>3, <1>4, <1>5, <1>6

LEMMA InsertSaltPreserves ==
    ASSUME InductiveInvariant, NEW p \in Procs, InsertSalt(p)
    PROVE  InductiveInvariant'
<1> USE DEF InductiveInvariant
<1>1. /\ backend = "db" /\ proc[p].offer \in AnySalt
      /\ salt.file # None => proc[p].offer = salt.file
  BY DEF InsertSalt, OldSaltKept, TypeOK
<1>2. /\ salt' = [row |-> Inserted(proc[p].offer), file |-> salt.file]
      /\ Inserted(proc[p].offer) \in AnySalt
      /\ salt.row # None => Inserted(proc[p].offer) = salt.row
      /\ salt.file # None => Inserted(proc[p].offer) = salt.file
  BY <1>1 DEF InsertSalt, Inserted, OldSaltKept, TypeOK
<1>3. proc' = [proc EXCEPT ![p].pc = "reread"]
  BY DEF InsertSalt
<1>4. TypeOK'
  BY <1>2, <1>3 DEF InsertSalt, TypeOK, Pcs
<1>5. LockHeld'
  BY <1>2, <1>3 DEF InsertSalt, LockHeld, TypeOK
<1>6. OldSaltKept'
  BY <1>1, <1>2, <1>3, NoneIsNoSalt DEF InsertSalt, OldSaltKept, TypeOK
<1>7. salt.row # None => StoredSalt' = StoredSalt
  BY <1>1, <1>2 DEF InsertSalt, StoredSalt
<1>8. SaltsAgree'
  BY <1>1, <1>2, <1>3, <1>7, NoneIsNoSalt
     DEF InsertSalt, SaltsAgree, SaltIsShared, StoredSalt, TypeOK
<1> QED
  BY <1>4, <1>5, <1>6, <1>8
LEMMA RereadSaltPreserves ==
    ASSUME InductiveInvariant, NEW p \in Procs, RereadSalt(p)
    PROVE  InductiveInvariant'
<1> USE DEF InductiveInvariant
<1>1. salt.row \in AnySalt /\ backend = "db"
  BY DEF RereadSalt, OldSaltKept, TypeOK
<1> USE <1>1 DEF RereadSalt, At
<1>2. TypeOK'
  BY DEF TypeOK, Pcs
<1>3. LockHeld'
  BY DEF LockHeld, TypeOK
<1>4. OldSaltKept'
  BY NoneIsNoSalt DEF OldSaltKept, TypeOK
<1>5. SaltsAgree'
  BY NoneIsNoSalt DEF SaltsAgree, SaltIsShared, StoredSalt, TypeOK
<1> QED
  BY <1>2, <1>3, <1>4, <1>5

LEMMA LockSaltPreserves ==
    ASSUME InductiveInvariant, NEW p \in Procs, LockSalt(p)
    PROVE  InductiveInvariant'
<1> USE DEF InductiveInvariant, LockSalt, At, Unlocked
<1>1. TypeOK'
  BY DEF TypeOK, Pcs
<1>2. LockHeld'
  BY StoreAssumption DEF LockHeld, TypeOK
<1>3. OldSaltKept'
  BY NoneIsNoSalt DEF OldSaltKept, TypeOK
<1>4. SaltsAgree'
  BY NoneIsNoSalt DEF SaltsAgree, SaltIsShared, StoredSalt, TypeOK
<1> QED
  BY <1>1, <1>2, <1>3, <1>4

LEMMA FoundSaltPreserves ==
    ASSUME InductiveInvariant, NEW p \in Procs, FoundSalt(p)
    PROVE  InductiveInvariant'
<1> USE DEF InductiveInvariant
<1>1. backend = "files" /\ lock = p
  BY DEF FoundSalt, LockHeld
<1> USE <1>1 DEF FoundSalt, At
<1>2. TypeOK'
  BY DEF TypeOK, Pcs
<1>3. LockHeld'
  BY DEF LockHeld, TypeOK
<1>4. OldSaltKept'
  BY NoneIsNoSalt DEF OldSaltKept, TypeOK
<1>5. SaltsAgree'
  BY NoneIsNoSalt DEF SaltsAgree, SaltIsShared, StoredSalt, TypeOK
<1> QED
  BY <1>2, <1>3, <1>4, <1>5

LEMMA NoSaltPreserves ==
    ASSUME InductiveInvariant, NEW p \in Procs, NEW s \in Salts, NoSalt(p, s)
    PROVE  InductiveInvariant'
<1> USE DEF InductiveInvariant
<1>1. backend = "files" /\ lock = p
  BY DEF NoSalt, LockHeld
<1>2. s \in AnySalt
  BY DEF AnySalt
<1> USE <1>1, <1>2 DEF NoSalt, At
<1>3. TypeOK'
  BY DEF TypeOK, Pcs
<1>4. LockHeld'
  BY NoneIsNoSalt DEF LockHeld, TypeOK
<1>5. OldSaltKept'
  BY NoneIsNoSalt DEF OldSaltKept, TypeOK
<1>6. SaltsAgree'
  BY NoneIsNoSalt DEF SaltsAgree, SaltIsShared, StoredSalt, TypeOK
<1> QED
  BY <1>3, <1>4, <1>5, <1>6

LEMMA WriteSaltPreserves ==
    ASSUME InductiveInvariant, NEW p \in Procs, WriteSalt(p)
    PROVE  InductiveInvariant'
<1> USE DEF InductiveInvariant
<1>1. /\ backend = "files" /\ lock = p
      /\ salt.file = None /\ proc[p].offer \in AnySalt
  BY DEF WriteSalt, LockHeld, TypeOK
<1> USE <1>1 DEF WriteSalt, At
<1>2. TypeOK'
  BY DEF TypeOK, Pcs
<1>3. LockHeld'
  BY DEF LockHeld, TypeOK
<1>4. OldSaltKept'
  BY NoneIsNoSalt DEF OldSaltKept, TypeOK
<1>5. SaltsAgree'
  BY NoneIsNoSalt DEF SaltsAgree, SaltIsShared, StoredSalt, TypeOK
<1> QED
  BY <1>2, <1>3, <1>4, <1>5

LEMMA LoadMissesPreserves ==
    ASSUME InductiveInvariant, NEW p \in Procs, LoadMisses(p)
    PROVE  InductiveInvariant'
<1> USE DEF InductiveInvariant, LoadMisses
<1>1. TypeOK'
  BY DEF TypeOK, Pcs
<1>2. LockHeld'
  BY DEF LockHeld, TypeOK
<1>3. OldSaltKept'
  BY NoneIsNoSalt DEF OldSaltKept, TypeOK
<1>4. SaltsAgree'
  BY NoneIsNoSalt DEF SaltsAgree, SaltIsShared, StoredSalt, TypeOK
<1> QED
  BY <1>1, <1>2, <1>3, <1>4

LEMMA ReadLegacyPreserves ==
    ASSUME InductiveInvariant, NEW p \in Procs, ReadLegacy(p)
    PROVE  InductiveInvariant'
<1> USE DEF InductiveInvariant
<1>1. secret.file # None => secret.file \in Ciphers /\ secret.file.salt = StoredSalt
  BY DEF ReadLegacy, OldSaltKept, SaltsAgree, SaltIsShared, StoredSalt, TypeOK
<1> USE <1>1 DEF ReadLegacy
<1>2. TypeOK'
  BY DEF TypeOK, Pcs
<1>3. LockHeld'
  BY DEF LockHeld, TypeOK
<1>4. OldSaltKept'
  BY NoneIsNoSalt DEF OldSaltKept, TypeOK
<1>5. SaltsAgree'
  BY NoneIsNoSalt DEF SaltsAgree, SaltIsShared, StoredSalt, TypeOK
<1> QED
  BY <1>2, <1>3, <1>4, <1>5

LEMMA SavePreserves ==
    ASSUME InductiveInvariant, NEW p \in Procs, NEW t \in Texts, Save(p, t)
    PROVE  InductiveInvariant'
<1> USE DEF InductiveInvariant
<1>1. /\ proc[p].salt \in AnySalt /\ proc[p].salt = StoredSalt
  BY DEF Save, SaltsAgree, SaltIsShared, TypeOK
<1>2. /\ Encrypted(proc[p].salt, t) \in Ciphers
      /\ Encrypted(proc[p].salt, t).salt = proc[p].salt
  BY <1>1, EncryptedType
<1> USE <1>1, <1>2 DEF Save
<1>3. TypeOK'
  BY DEF TypeOK, Pcs
<1>4. LockHeld'
  BY DEF LockHeld, TypeOK
<1>5. OldSaltKept'
  BY NoneIsNoSalt DEF OldSaltKept, TypeOK
<1>6. SaltsAgree'
  BY NoneIsNoSalt DEF SaltsAgree, SaltIsShared, StoredSalt, TypeOK
<1> QED
  BY <1>3, <1>4, <1>5, <1>6

LEMMA SaveFilePreserves ==
    ASSUME InductiveInvariant, NEW p \in Procs, NEW t \in Texts, SaveFile(p, t)
    PROVE  InductiveInvariant'
<1> USE DEF InductiveInvariant
<1>1. /\ proc[p].salt \in AnySalt /\ proc[p].salt = StoredSalt
  BY DEF SaveFile, SaltsAgree, SaltIsShared, TypeOK
<1>2. /\ Encrypted(proc[p].salt, t) \in Ciphers
      /\ Encrypted(proc[p].salt, t).salt = proc[p].salt
  BY <1>1, EncryptedType
<1>3. salt.file = proc[p].salt
  BY <1>1 DEF SaveFile, StoredSalt
<1> USE <1>1, <1>2, <1>3 DEF SaveFile
<1>4. TypeOK'
  BY DEF TypeOK, Pcs
<1>5. LockHeld'
  BY DEF LockHeld, TypeOK
<1>6. OldSaltKept'
  BY NoneIsNoSalt DEF OldSaltKept, TypeOK
<1>7. SaltsAgree'
  BY NoneIsNoSalt DEF SaltsAgree, SaltIsShared, StoredSalt, TypeOK
<1> QED
  BY <1>4, <1>5, <1>6, <1>7

LEMMA PutReadsPreserves ==
    ASSUME InductiveInvariant, NEW p \in Procs, PutReads(p)
    PROVE  InductiveInvariant'
<1> USE DEF InductiveInvariant, PutReads
<1>1. TypeOK'
  BY DEF TypeOK, Pcs
<1>2. LockHeld'
  BY DEF LockHeld, TypeOK
<1>3. OldSaltKept'
  BY NoneIsNoSalt DEF OldSaltKept, TypeOK
<1>4. SaltsAgree'
  BY NoneIsNoSalt DEF SaltsAgree, SaltIsShared, StoredSalt, TypeOK
<1> QED
  BY <1>1, <1>2, <1>3, <1>4

LEMMA PutWritesPreserves ==
    ASSUME InductiveInvariant, NEW p \in Procs, PutWrites(p)
    PROVE  InductiveInvariant'
<1> USE DEF InductiveInvariant
<1>1. backend = "db" /\ proc[p].cipher.salt = salt.row /\ salt.row # None
  BY DEF PutWrites, SaltsAgree, SaltIsShared, StoredSalt
<1> USE <1>1 DEF PutWrites, Rested
<1>2. TypeOK'
  BY DEF TypeOK, Pcs
<1>3. LockHeld'
  BY DEF LockHeld, TypeOK
<1>4. OldSaltKept'
  BY NoneIsNoSalt DEF OldSaltKept, TypeOK
<1>5. SaltsAgree'
  BY NoneIsNoSalt DEF SaltsAgree, SaltIsShared, StoredSalt, TypeOK
<1> QED
  BY <1>2, <1>3, <1>4, <1>5

LEMMA PutConflictsPreserves ==
    ASSUME InductiveInvariant, NEW p \in Procs, PutConflicts(p)
    PROVE  InductiveInvariant'
<1> USE DEF InductiveInvariant, PutConflicts, Rested
<1>1. TypeOK'
  BY DEF TypeOK, Pcs
<1>2. LockHeld'
  BY DEF LockHeld, TypeOK
<1>3. OldSaltKept'
  BY NoneIsNoSalt DEF OldSaltKept, TypeOK
<1>4. SaltsAgree'
  BY NoneIsNoSalt DEF SaltsAgree, SaltIsShared, StoredSalt, TypeOK
<1> QED
  BY <1>1, <1>2, <1>3, <1>4

LEMMA StoreRaisesPreserves ==
    ASSUME InductiveInvariant, NEW p \in Procs, StoreRaises(p)
    PROVE  InductiveInvariant'
<1> USE DEF InductiveInvariant, StoreRaises, Rested
<1>1. TypeOK'
  BY DEF TypeOK, Pcs
<1>2. LockHeld'
  BY DEF LockHeld, TypeOK
<1>3. OldSaltKept'
  BY NoneIsNoSalt DEF OldSaltKept, TypeOK
<1>4. SaltsAgree'
  BY NoneIsNoSalt DEF SaltsAgree, SaltIsShared, StoredSalt, TypeOK
<1> QED
  BY <1>1, <1>2, <1>3, <1>4

LEMMA DiesPreserves ==
    ASSUME InductiveInvariant, NEW p \in Procs, Dies(p)
    PROVE  InductiveInvariant'
<1> USE DEF InductiveInvariant, Dies, Off, At
<1>1. TypeOK'
  BY DEF TypeOK, Pcs
<1>2. LockHeld'
  BY DEF LockHeld, TypeOK
<1>3. OldSaltKept'
  BY NoneIsNoSalt DEF OldSaltKept, TypeOK
<1>4. SaltsAgree'
  BY NoneIsNoSalt DEF SaltsAgree, SaltIsShared, StoredSalt, TypeOK
<1> QED
  BY <1>1, <1>2, <1>3, <1>4

-----------------------------------------------------------------------------
LEMMA StepPreserves == InductiveInvariant /\ [Next]_vars => InductiveInvariant'
<1> SUFFICES ASSUME InductiveInvariant, [Next]_vars PROVE InductiveInvariant'
  OBVIOUS
<1>1. CASE Next
  <2> PICK p \in Procs :
        \/ \E s \in Salts : OfferSalt(p, s) \/ NoSalt(p, s)
        \/ InsertSalt(p) \/ RereadSalt(p)
        \/ LockSalt(p) \/ FoundSalt(p) \/ WriteSalt(p)
        \/ LoadMisses(p) \/ ReadLegacy(p)
        \/ \E t \in Texts : Save(p, t) \/ SaveFile(p, t)
        \/ PutReads(p) \/ PutWrites(p) \/ PutConflicts(p)
        \/ StoreRaises(p) \/ Dies(p)
    BY <1>1 DEF Next
  <2> QED
    BY OfferSaltPreserves, NoSaltPreserves, InsertSaltPreserves,
       RereadSaltPreserves, LockSaltPreserves, FoundSaltPreserves,
       WriteSaltPreserves, LoadMissesPreserves, ReadLegacyPreserves,
       SavePreserves, SaveFilePreserves, PutReadsPreserves, PutWritesPreserves,
       PutConflictsPreserves, StoreRaisesPreserves, DiesPreserves
<1>2. CASE UNCHANGED vars
  BY <1>2 DEF vars, InductiveInvariant, TypeOK, LockHeld, OldSaltKept, SaltsAgree,
              SaltIsShared, StoredSalt
<1> QED
  BY <1>1, <1>2

\* Whatever the processes do together, the lock, the stored salts and the secrets
\* stay consistent (secret_store.py:65-138).
THEOREM InvariantHolds == Spec => []InductiveInvariant
  BY InitInvariant, StepPreserves, PTL DEF Spec

\* All processes of an installation derive their key from the stored salt, however
\* many of them start together (key_manager.py:40-56).
THEOREM SaltShared == Spec => []SaltIsShared
<1>1. InductiveInvariant => SaltIsShared
  BY DEF InductiveInvariant, SaltsAgree
<1> QED
  BY <1>1, InvariantHolds, PTL

\* No stored secret, imported or saved, is lost to a change of the salt
\* (secret_store.py:127 "Preserve the legacy salt").
THEOREM SecretsReadable == Spec => []SecretsAreReadable
<1>1. InductiveInvariant => SecretsAreReadable
  <2> SUFFICES ASSUME InductiveInvariant, StoredSalt # None,
                      NEW c \in {secret.row, secret.file} \ {None}
               PROVE  c.salt = StoredSalt
    BY DEF SecretsAreReadable
  <2> USE DEF InductiveInvariant, OldSaltKept, SaltsAgree, StoredSalt, TypeOK
  <2>1. CASE c = secret.row
    BY <2>1
  <2>2. CASE c = secret.file
    BY <2>2
  <2> QED
    BY <2>1, <2>2
<1> QED
  BY <1>1, InvariantHolds, PTL
=============================================================================
