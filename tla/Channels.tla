------------------------------ MODULE Channels ------------------------------
(***************************************************************************)
(* The LINE channels an owner administers (backend/linechannels): rows with *)
(* a pair of encrypted credentials, registered, edited, activated, checked  *)
(* and deleted by requests that the backend's processes handle, each with   *)
(* the keys it was started with.  An edit carries the revision the owner    *)
(* saw; other parts of the backend refer to a channel under its row lock.   *)
(*                                                                         *)
(* A pair of credentials is known by the number of the edit that supplied   *)
(* it, and a ciphertext by that number and its key.  What else a row holds  *)
(* (label, bot, provider, active or not) is only told apart by the row's    *)
(* revision, which every change of it moves.                                *)
(***************************************************************************)
EXTENDS Naturals, FiniteSets

CONSTANTS
  Ids,       \* public ids of channels
  Processes, \* processes of the backend, one request each
  Rotations, \* rotation commands (module KeyRotation)
  None,      \* nobody
  MaxEdits,  \* bound on the credentials the owner enters
  MaxRev,    \* bound on the changes of a row
  MaxKey     \* bound on the keys made

ASSUME ChannelsAssumption ==
  /\ None \notin Ids \cup Processes \cup Rotations
  /\ Processes \cap Rotations = {}
  /\ MaxEdits \in Nat \ {0}
  /\ MaxRev \in Nat \ {0}
  /\ MaxKey \in Nat \ {0}

VARIABLES
  rows,   \* tables LineChannel and LineChannelCredential
  lock,   \* who holds the lock of a channel's row
  refs,   \* channels that a row of another part refers to
  ring,   \* the keys a process was started with
  job,    \* the request a process handles
  edits,  \* credentials and bots entered so far
  given   \* the credentials of a channel that were last accepted

channelVars == <<rows, lock, refs, job, edits, given>>

----------------------------------------------------------------------------
(* Types *)

Keys == 1..MaxKey
Edits == 1..MaxEdits
Holders == Processes \cup Rotations

(* A keyring: the key it encrypts with, and whether the key before it is    *)
(* still there to decrypt.                                                  *)
Keyring == [primary : Keys, old : BOOLEAN]
Cipher == [key : Keys, value : Edits]
NoCipher == [key |-> 1, value |-> 1]
Row == [exists : BOOLEAN, rev : 0..MaxRev, token : Cipher, secret : Cipher]
NoRow == [exists |-> FALSE, rev |-> 0, token |-> NoCipher, secret |-> NoCipher]

Kinds == {"update", "delete", "refer", "check"}
Job == [pc : {"idle", "asked", "locked", "checking"}, kind : Kinds \cup {"none"},
        id : Ids \cup {None}, rev : 0..MaxRev, token : Edits \cup {0}]
NoWork == [pc |-> "idle", kind |-> "none", id |-> None, rev |-> 0, token |-> 0]

ChannelsTypeOK ==
  /\ rows \in [Ids -> Row]
  /\ lock \in [Ids -> Holders \cup {None}]
  /\ refs \subseteq Ids
  /\ ring \in [Processes -> Keyring]
  /\ job \in [Processes -> Job]
  /\ edits \in 0..MaxEdits
  /\ given \in [Ids -> Edits]

ChannelsInit ==
  /\ rows = [c \in Ids |-> NoRow]
  /\ lock = [c \in Ids |-> None]
  /\ refs = {}
  /\ ring = [p \in Processes |-> [primary |-> 1, old |-> FALSE]]
  /\ job = [p \in Processes |-> NoWork]
  /\ edits = 0
  /\ given = [c \in Ids |-> 1]

----------------------------------------------------------------------------
(* FernetCredentialCipher *)

KeysOf(k) == IF k.old THEN {k.primary, k.primary - 1} ELSE {k.primary}

Opens(keys, cipher) == cipher.key \in keys

Encrypted(k, v) == [key |-> k.primary, value |-> v]

(* A pair is readable if both of its parts are.                             *)
Readable(row, keys) == Opens(keys, row.token) /\ Opens(keys, row.secret)

----------------------------------------------------------------------------
(* Rows and their locks *)

Free(c) == lock[c] = None
Existing == {c \in Ids : rows[c].exists}
Finish(p) == job' = [job EXCEPT ![p] = NoWork]
Unlock(h) == lock' = [c \in Ids |-> IF lock[c] = h THEN None ELSE lock[c]]

(* The owner enters credentials, and is told that they are stored.          *)
Supply(c) ==
  /\ edits < MaxEdits
  /\ edits' = edits + 1
  /\ given' = [given EXCEPT ![c] = edits + 1]

WithPair(row, k, value) ==
  [row EXCEPT !.token = Encrypted(k, value), !.secret = Encrypted(k, value)]

(* create_with_credentials: the rows of the channel and of its pair.        *)
Created(k, value) == WithPair([NoRow EXCEPT !.exists = TRUE, !.rev = 1], k, value)

(* update_locked with credentials: the pair is replaced as a whole, and the *)
(* channel gets a new revision.                                             *)
Replaced(row, k, value) == WithPair([row EXCEPT !.rev = @ + 1], k, value)

----------------------------------------------------------------------------
(* Registration *)

Register(p, c) ==
  /\ job[p] = NoWork /\ rows[c] = NoRow
  /\ Supply(c)
  /\ rows' = [rows EXCEPT ![c] = Created(ring[p], edits + 1)]
  /\ UNCHANGED <<lock, refs, ring, job>>

----------------------------------------------------------------------------
(* Requests on a registered channel *)

(* A request of the owner arrives with the revision the page showed.        *)
Ask(p, c) ==
  /\ job[p] = NoWork /\ rows[c].exists
  /\ \E kind \in {"update", "delete"} :
       job' = [job EXCEPT ![p] = [NoWork EXCEPT !.pc = "asked", !.kind = kind,
                                    !.id = c, !.rev = rows[c].rev]]
  /\ UNCHANGED <<rows, lock, refs, ring, edits, given>>

Locked(p, c, kind) ==
  /\ lock' = [lock EXCEPT ![c] = p]
  /\ job' = [job EXCEPT ![p] = [NoWork EXCEPT !.pc = "locked", !.kind = kind, !.id = c]]

Shown(j) == rows[j.id].exists /\ rows[j.id].rev = j.rev

(* ChannelReferenceDirectory.is_referenced, asked under the row lock.       *)
Referenced(c) == c \in refs

(* Mutant: nobody looks for references to a channel that is to be deleted.  *)
Deletable_Unfenced(j) == Shown(j)

Deletable(j) == Shown(j) /\ ~Referenced(j.id)

LockForUpdate(p) ==
  LET j == job[p] IN
  /\ j.pc = "asked" /\ j.kind = "update" /\ Free(j.id)
  /\ IF Shown(j) THEN Locked(p, j.id, "update") ELSE Finish(p) /\ UNCHANGED lock
  /\ UNCHANGED <<rows, refs, ring, edits, given>>

LockForDelete(p) ==
  LET j == job[p] IN
  /\ j.pc = "asked" /\ j.kind = "delete" /\ Free(j.id)
  /\ IF Deletable(j) THEN Locked(p, j.id, "delete") ELSE Finish(p) /\ UNCHANGED lock
  /\ UNCHANGED <<rows, refs, ring, edits, given>>

(* The operator's command knows no revision.                                *)
Command(p, c) ==
  /\ job[p] = NoWork /\ rows[c].exists /\ Free(c)
  /\ Locked(p, c, "update")
  /\ UNCHANGED <<rows, refs, ring, edits, given>>

(* lock_existing, by whoever inserts a row that refers to the channel.      *)
LockExisting(p, c) ==
  /\ job[p] = NoWork /\ rows[c].exists /\ Free(c)
  /\ Locked(p, c, "refer")
  /\ UNCHANGED <<rows, refs, ring, edits, given>>

CommitCredentials(p) ==
  LET c == job[p].id IN
  /\ job[p].pc = "locked" /\ job[p].kind = "update" /\ rows[c].rev < MaxRev
  /\ Supply(c)
  /\ rows' = [rows EXCEPT ![c] = Replaced(@, ring[p], edits + 1)]
  /\ Unlock(p) /\ Finish(p)
  /\ UNCHANGED <<refs, ring>>

(* Label, bot, provider, or active and not; a channel is activated only if  *)
(* the process can read its pair.                                           *)
CommitChange(p) ==
  LET c == job[p].id IN
  /\ job[p].pc = "locked" /\ job[p].kind = "update" /\ rows[c].rev < MaxRev
  /\ rows' = [rows EXCEPT ![c].rev = @ + 1]
  /\ Unlock(p) /\ Finish(p)
  /\ UNCHANGED <<refs, ring, edits, given>>

(* An id is never given out again.                                          *)
CommitDelete(p) ==
  LET c == job[p].id IN
  /\ job[p].pc = "locked" /\ job[p].kind = "delete"
  /\ rows' = [rows EXCEPT ![c] = [NoRow EXCEPT !.rev = 1]]
  /\ Unlock(p) /\ Finish(p)
  /\ UNCHANGED <<refs, ring, edits, given>>

(* The insert of a delivery, a recipient, a receipt or an audit row.        *)
CommitReference(p) ==
  /\ job[p].pc = "locked" /\ job[p].kind = "refer"
  /\ refs' = refs \cup {job[p].id}
  /\ Unlock(p) /\ Finish(p)
  /\ UNCHANGED <<rows, ring, edits, given>>

(* A refusal for a pending deactivation, a history that cannot be purged, a *)
(* pair that cannot be read, a duplicate or a storage failure: the          *)
(* transaction is undone.                                                   *)
Rollback(p) ==
  /\ job[p].pc = "locked"
  /\ Unlock(p) /\ Finish(p)
  /\ UNCHANGED <<rows, refs, ring, edits, given>>

----------------------------------------------------------------------------
(* check_connection *)

(* The first transaction reads the row without a lock; LINE is then asked   *)
(* which bot the token belongs to.                                          *)
Snapshot(p, c) ==
  LET row == rows[c] IN
  /\ job[p] = NoWork /\ row.exists /\ Opens(KeysOf(ring[p]), row.token)
  /\ job' = [job EXCEPT ![p] =
       [pc |-> "checking", kind |-> "check", id |-> c, rev |-> row.rev,
        token |-> row.token.value]]
  /\ UNCHANGED <<rows, lock, refs, ring, edits, given>>

(* The second transaction looks whether the row is as it was read, and the  *)
(* answer changes nothing here.                                             *)
Conclude(p) ==
  /\ job[p].pc = "checking" /\ Free(job[p].id)
  /\ Finish(p)
  /\ UNCHANGED <<rows, lock, refs, ring, edits, given>>

Administer(p) ==
  \/ \E c \in Ids :
       Register(p, c) \/ Ask(p, c) \/ Command(p, c) \/ LockExisting(p, c)
         \/ Snapshot(p, c)
  \/ LockForUpdate(p) \/ LockForDelete(p)
  \/ CommitCredentials(p) \/ CommitChange(p) \/ CommitDelete(p)
  \/ CommitReference(p) \/ Rollback(p) \/ Conclude(p)

----------------------------------------------------------------------------
(* Properties *)

StoredIsGiven ==
  \A c \in Existing :
    rows[c].token.value = given[c] /\ rows[c].secret.value = given[c]

CheckIsCurrent ==
  \A p \in Processes :
    LET row == rows[job[p].id] IN
    job[p].pc = "checking" /\ row.exists /\ row.rev = job[p].rev =>
      row.token.value = job[p].token

(* The stored pair is the one the owner entered last and was told of, both  *)
(* parts of it: a rotation that read a pair before an edit never writes it  *)
(* back, and no request leaves the parts of two edits side by side          *)
(* (rotation_repository.py, replace_credentials_locked).  A connection      *)
(* check that finds the revision it began with has asked LINE with that     *)
(* token: "connected" is never said of credentials that were replaced       *)
(* meanwhile, and a rotation in between does not spoil the check            *)
(* (admin_services.py, check_connection).                                   *)
GivenKept == StoredIsGiven /\ CheckIsCurrent

(* No row refers to a deleted channel, although a reference is inserted and *)
(* the channel deleted by transactions that each look first                 *)
(* (reference_fence.py, lock_existing).                                     *)
NoOrphans == refs \subseteq Existing
=============================================================================
