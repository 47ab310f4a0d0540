----------------------------- MODULE SecretStore -----------------------------
(***************************************************************************)
(* Where DevInbox keeps its encrypted secrets: FileSecretStore, or         *)
(* DbSecretStore with the files of an older installation to import from,   *)
(* as the KeyManagers of several processes (web workers, dispatchers, work *)
(* horses) use them at the same time.  All processes share one directory.  *)
(*                                                                         *)
(* One secret stands for all names.  A stored secret is what was saved and *)
(* the salt of the key that it was encrypted under; a process whose salt   *)
(* is another one cannot read it.                                          *)
(***************************************************************************)
EXTENDS Naturals

CONSTANTS
    Procs,          \* processes with a KeyManager
    Salts,          \* values of os.urandom
    Texts,          \* what administrators save
    OldSalt,        \* the salt and the secret of the older installation
    OldText,
    None

ASSUME StoreAssumption ==
    None \notin Salts \cup {OldSalt} \cup Procs /\ OldText \notin Texts

VARIABLES
    backend,        \* "db" or "files", the same in all processes
    salt,           \* ".salt": its row and its file
    secret,         \* the secret: its row and its file
    lock,           \* who holds the flock on ".init.lock"
    proc            \* the KeyManager of each process

vars == <<backend, salt, secret, lock, proc>>

-----------------------------------------------------------------------------
Encrypted(s, t) == [salt |-> s, text |-> t]

Ciphers == [salt : Salts \cup {OldSalt}, text : Texts \cup {OldText}]

Nowhere == [row |-> None, file |-> None]

\* The KeyManager at a statement of its constructor, and the salts it has.
At(pc, s, offer) == [pc |-> pc, salt |-> s, offer |-> offer, cipher |-> None]

Off == At("off", None, None)

Init ==
    /\ backend \in {"db", "files"}
    /\ \/ salt = Nowhere /\ secret = Nowhere
       \/ /\ salt = [row |-> None, file |-> OldSalt]
          /\ secret = [row |-> None, file |-> Encrypted(OldSalt, OldText)]
    /\ lock = None
    /\ proc = [p \in Procs |-> Off]

-----------------------------------------------------------------------------
(***************************************************************************)
(* Slips that a change of the code could make, each a variant of the       *)
(* definition it is named after.                                           *)
(***************************************************************************)
UnlockedAnyway(p) == TRUE

OfferFresh(s) == s

-----------------------------------------------------------------------------
(***************************************************************************)
(* A KeyManager is constructed: get_or_create of the salt.                 *)
(***************************************************************************)
\* DbSecretStore: the salt of the older installation is preferred ...
Offer(s) == IF salt.file # None THEN salt.file ELSE s

OfferSalt(p, s) ==
    /\ backend = "db" /\ proc[p].pc = "off"
    /\ proc' = [proc EXCEPT ![p] = At("insert", None, Offer(s))]
    /\ UNCHANGED <<backend, salt, secret, lock>>

\* ... and inserted unless there is one; the one that is there is read back.
Inserted(offer) == IF salt.row = None THEN offer ELSE salt.row

InsertSalt(p) ==
    /\ proc[p].pc = "insert"
    /\ salt' = [salt EXCEPT !.row = Inserted(proc[p].offer)]
    /\ proc' = [proc EXCEPT ![p].pc = "reread"]
    /\ UNCHANGED <<backend, secret, lock>>

RereadSalt(p) ==
    /\ proc[p].pc = "reread"
    /\ proc' = [proc EXCEPT ![p] = At("ready", salt.row, None)]
    /\ UNCHANGED <<backend, salt, secret, lock>>

\* FileSecretStore: under the lock the file is read, and written if missing.
Unlocked(p) == lock = None

LockSalt(p) ==
    /\ backend = "files" /\ proc[p].pc = "off"
    /\ Unlocked(p)
    /\ lock' = p
    /\ proc' = [proc EXCEPT ![p] = At("locked", None, None)]
    /\ UNCHANGED <<backend, salt, secret>>

FoundSalt(p) ==
    /\ proc[p].pc = "locked" /\ salt.file # None
    /\ proc' = [proc EXCEPT ![p] = At("ready", salt.file, None)]
    /\ lock' = None
    /\ UNCHANGED <<backend, salt, secret>>

NoSalt(p, s) ==
    /\ proc[p].pc = "locked" /\ salt.file = None
    /\ proc' = [proc EXCEPT ![p] = At("write", None, s)]
    /\ UNCHANGED <<backend, salt, secret, lock>>

WriteSalt(p) ==
    /\ proc[p].pc = "write"
    /\ salt' = [salt EXCEPT !.file = proc[p].offer]
    /\ proc' = [proc EXCEPT ![p] = At("ready", proc[p].offer, None)]
    /\ lock' = None
    /\ UNCHANGED <<backend, secret>>

-----------------------------------------------------------------------------
(***************************************************************************)
(* load_keys and save_keys.  A load that finds its row or its file changes *)
(* nothing; one that does not find its row imports the file.               *)
(***************************************************************************)
LoadMisses(p) ==
    /\ backend = "db" /\ proc[p].pc = "ready"
    /\ secret.row = None
    /\ proc' = [proc EXCEPT ![p].pc = "legacy"]
    /\ UNCHANGED <<backend, salt, secret, lock>>

ReadLegacy(p) ==
    /\ proc[p].pc = "legacy"
    /\ proc' = [proc EXCEPT ![p] =
                  IF secret.file = None THEN [@ EXCEPT !.pc = "ready"]
                  ELSE [@ EXCEPT !.pc = "put", !.cipher = secret.file]]
    /\ UNCHANGED <<backend, salt, secret, lock>>

Save(p, t) ==
    /\ backend = "db" /\ proc[p].pc = "ready"
    /\ proc' = [proc EXCEPT ![p] = [@ EXCEPT !.pc = "put",
                                             !.cipher = Encrypted(proc[p].salt, t)]]
    /\ UNCHANGED <<backend, salt, secret, lock>>

\* os.replace: the file is the old one or the new one.
SaveFile(p, t) ==
    /\ backend = "files" /\ proc[p].pc = "ready"
    /\ secret' = [secret EXCEPT !.file = Encrypted(proc[p].salt, t)]
    /\ UNCHANGED <<backend, salt, lock, proc>>

\* DbSecretStore.put looks for the row ...
PutReads(p) ==
    /\ proc[p].pc = "put"
    /\ proc' = [proc EXCEPT ![p].pc = IF secret.row = None THEN "add" ELSE "update"]
    /\ UNCHANGED <<backend, salt, secret, lock>>

Rested(p) == proc' = [proc EXCEPT ![p] = [@ EXCEPT !.pc = "ready", !.cipher = None]]

\* ... and adds it, which fails when somebody else has, or updates it.
PutWrites(p) ==
    /\ \/ proc[p].pc = "add" /\ secret.row = None
       \/ proc[p].pc = "update"
    /\ secret' = [secret EXCEPT !.row = proc[p].cipher]
    /\ Rested(p)
    /\ UNCHANGED <<backend, salt, lock>>

PutConflicts(p) ==
    /\ proc[p].pc = "add" /\ secret.row # None
    /\ Rested(p)
    /\ UNCHANGED <<backend, salt, secret, lock>>

\* The database or the disk fails a call outside the constructor, and the
\* exception leaves the KeyManager as it was.
StoreRaises(p) ==
    /\ proc[p].pc \in {"ready", "legacy", "put", "add", "update"}
    /\ Rested(p)
    /\ UNCHANGED <<backend, salt, secret, lock>>

\* The process ends; the flock goes with it.
Dies(p) ==
    /\ proc[p].pc # "off"
    /\ proc' = [proc EXCEPT ![p] = Off]
    /\ lock' = IF lock = p THEN None ELSE lock
    /\ UNCHANGED <<backend, salt, secret>>

-----------------------------------------------------------------------------
Next ==
    \E p \in Procs :
        \/ \E s \in Salts : OfferSalt(p, s) \/ NoSalt(p, s)
        \/ InsertSalt(p)
        \/ RereadSalt(p)
        \/ LockSalt(p)
        \/ FoundSalt(p)
        \/ WriteSalt(p)
        \/ LoadMisses(p)
        \/ ReadLegacy(p)
        \/ \E t \in Texts : Save(p, t) \/ SaveFile(p, t)
        \/ PutReads(p)
        \/ PutWrites(p)
        \/ PutConflicts(p)
        \/ StoreRaises(p)
        \/ Dies(p)

Spec == Init /\ [][Next]_vars

-----------------------------------------------------------------------------
(***************************************************************************)
(* Safety.                                                                 *)
(***************************************************************************)
Pcs == {"off", "insert", "reread", "locked", "write", "ready", "legacy", "put",
        "add", "update"}

AnySalt == Salts \cup {OldSalt}

\* The state has the shape of the stores and of the KeyManagers' locals.
TypeOK ==
    /\ backend \in {"db", "files"}
    /\ salt \in [row : AnySalt \cup {None}, file : AnySalt \cup {None}]
    /\ secret \in [row : Ciphers \cup {None}, file : Ciphers \cup {None}]
    /\ lock \in Procs \cup {None}
    /\ proc \in [Procs -> [pc : Pcs, salt : AnySalt \cup {None},
                           offer : AnySalt \cup {None}, cipher : Ciphers \cup {None}]]

StoredSalt == IF backend = "db" THEN salt.row ELSE salt.file

\* However many processes start for the first time together, and die while they
\* do, all of them derive their key from the one salt that is stored.
SaltIsShared == \A p \in Procs : proc[p].salt # None => proc[p].salt = StoredSalt

\* No secret is stored that the installation cannot decrypt, the imported ones
\* included: every key is derived from the salt it was encrypted under.
SecretsAreReadable ==
    \A c \in {secret.row, secret.file} \ {None} :
        StoredSalt # None => c.salt = StoredSalt

\* The legacy file is imported once; "DB is the source of truth afterwards"
\* (secret_store.py:103): it never replaces a secret saved since.
ImportReplacesNothing ==
    [][secret.row # None /\ secret.row.text # OldText =>
          secret'.row.text # OldText]_vars

-----------------------------------------------------------------------------
(***************************************************************************)
(* What makes these inductive: only the holder of the lock is in its       *)
(* critical section, the file does not appear under it, and the salt that  *)
(* is offered to the database is the old one if there is an old one.       *)
(***************************************************************************)
LockHeld ==
    \A p \in Procs :
        /\ proc[p].pc \in {"locked", "write"} => lock = p /\ backend = "files"
        /\ proc[p].pc = "write" => salt.file = None /\ proc[p].offer # None

OldSaltKept ==
    /\ salt.row # None /\ salt.file # None => salt.row = salt.file
    /\ backend = "files" => salt.row = None /\ secret.row = None
    /\ salt.file = None => secret.file = None
    /\ secret.file # None => secret.file.salt = salt.file
    /\ \A p \in Procs :
          /\ proc[p].pc = "insert" =>
                backend = "db" /\ proc[p].offer # None
                /\ (salt.file # None => proc[p].offer = salt.file)
          /\ proc[p].pc = "reread" => backend = "db" /\ salt.row # None

SaltsAgree ==
    /\ SaltIsShared
    /\ \A p \in Procs :
          /\ proc[p].pc \in {"ready", "legacy", "put", "add", "update"} =>
                proc[p].salt # None
          /\ proc[p].pc \in {"legacy", "put", "add", "update"} => backend = "db"
          /\ proc[p].pc \in {"put", "add", "update"} =>
                proc[p].cipher.salt = StoredSalt
    /\ secret.row # None => salt.row # None /\ secret.row.salt = salt.row

InductiveInvariant == TypeOK /\ LockHeld /\ OldSaltKept /\ SaltsAgree
=============================================================================
