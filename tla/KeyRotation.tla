---------------------------- MODULE KeyRotation ----------------------------
(***************************************************************************)
(* The exchange of the key that encrypts the channels' credentials          *)
(* (backend/linechannels, rotation*.py, and the procedure of README.md).    *)
(* The operator puts a new key in front of the old one, restarts every      *)
(* process, runs the rotation command until it reports that the old key may *)
(* be removed, removes it and restarts every process again.  A command may  *)
(* fail on a row, lose its connection and with it the lock, or be           *)
(* interrupted anywhere; requests go on meanwhile.                          *)
(***************************************************************************)
EXTENDS Channels

VARIABLES
  env,       \* LINE_CHANNEL_CREDENTIAL_KEYS, read when a process starts
  removable, \* whether a command started with env reported the old key removable
  holder,    \* the command that has MySQL's named lock
  rot        \* the rotation commands

rotationVars == <<rows, lock, refs, ring, job, edits, given, env, removable, holder, rot>>

Rotation == [pc : {"idle", "rows", "write", "verify"}, ring : Keyring,
            todo : SUBSET Ids, failed : BOOLEAN, id : Ids \cup {None},
            token : Cipher, secret : Cipher]
NoRotation == [pc |-> "idle", ring |-> [primary |-> 1, old |-> FALSE],
              todo |-> {}, failed |-> FALSE, id |-> None, token |-> NoCipher,
              secret |-> NoCipher]

RotationTypeOK ==
  /\ ChannelsTypeOK
  /\ env \in Keyring
  /\ removable \in BOOLEAN
  /\ holder \in Rotations \cup {None}
  /\ rot \in [Rotations -> Rotation]

RotationInit ==
  /\ ChannelsInit
  /\ env = [primary |-> 1, old |-> FALSE]
  /\ removable = FALSE
  /\ holder = None
  /\ rot = [r \in Rotations |-> NoRotation]

----------------------------------------------------------------------------
(* The operator *)

Restarted == \A p \in Processes : ring[p] = env

AddKey ==
  /\ Restarted /\ ~env.old /\ env.primary < MaxKey
  /\ env' = [primary |-> env.primary + 1, old |-> TRUE]
  /\ removable' = FALSE
  /\ UNCHANGED <<channelVars, ring, holder, rot>>

(* Only after the report: the old key is taken out of the setting.          *)
RemoveOld ==
  /\ removable /\ env.old
  /\ env' = [env EXCEPT !.old = FALSE]
  /\ UNCHANGED <<channelVars, ring, removable, holder, rot>>

(* A process ends, by a crash or for a restart, with the request it handles *)
(* and starts with the present setting (runtime.py).                        *)
Restart(p) ==
  /\ ring' = [ring EXCEPT ![p] = env]
  /\ Unlock(p) /\ Finish(p)
  /\ UNCHANGED <<rows, refs, edits, given, env, removable, holder, rot>>

----------------------------------------------------------------------------
(* rotate_all *)

Fails(r, c) == rot' = [rot EXCEPT ![r].todo = @ \ {c}, ![r].failed = TRUE]
Passes(r, c) == rot' = [rot EXCEPT ![r].todo = @ \ {c}]
End(r) ==
  /\ rot' = [rot EXCEPT ![r] = NoRotation]
  /\ Unlock(r)
  /\ holder' = IF holder = r THEN None ELSE holder

(* The command is run once every process was restarted.  It needs an old    *)
(* key and the named lock, which it does not wait for; then it lists the    *)
(* channels that have credentials.                                          *)
Start(r) ==
  /\ rot[r].pc = "idle" /\ Restarted /\ env.old /\ holder = None
  /\ holder' = r
  /\ rot' = [rot EXCEPT ![r] =
       [NoRotation EXCEPT !.pc = "rows", !.ring = env, !.todo = Existing]]
  /\ UNCHANGED <<channelVars, ring, env, removable>>

(* process: a pair the primary key reads is left alone; one that no key     *)
(* reads fails; any other is encrypted anew and checked before it is        *)
(* written.                                                                 *)
Processed(row, k) ==
  IF ~row.exists \/ ~Readable(row, KeysOf(k)) THEN "failed"
  ELSE IF Readable(row, {k.primary}) THEN "verified" ELSE "rotated"

(* Mutant: the row is read and written back without a lock.                 *)
Holds_Nothing(r, c) == UNCHANGED lock

Holds(r, c) == lock' = [lock EXCEPT ![c] = r]

ReadRow(r, c) ==
  LET item == Processed(rows[c], rot[r].ring) IN
  /\ rot[r].pc = "rows" /\ c \in rot[r].todo /\ Free(c)
  /\ \/ item = "failed" /\ Fails(r, c) /\ UNCHANGED lock
     \/ item = "verified" /\ Passes(r, c) /\ UNCHANGED lock
     \/ /\ item = "rotated"
        /\ rot' = [rot EXCEPT ![r].pc = "write", ![r].id = c,
                     ![r].token = rows[c].token, ![r].secret = rows[c].secret]
        /\ Holds(r, c)
  /\ UNCHANGED <<rows, refs, ring, job, edits, given, env, removable, holder>>

RowDone(r, failed) ==
  rot' = [rot EXCEPT ![r].pc = "rows", ![r].todo = @ \ {rot[r].id},
                     ![r].failed = @ \/ failed, ![r].id = None,
                     ![r].token = NoCipher, ![r].secret = NoCipher]

(* replace_credentials_locked; the revision of the channel stays.           *)
Rewritten(row, t) ==
  [row EXCEPT !.token = Encrypted(t.ring, t.token.value),
              !.secret = Encrypted(t.ring, t.secret.value)]

WriteRow(r) ==
  /\ rot[r].pc = "write"
  /\ rows' = [rows EXCEPT ![rot[r].id] = Rewritten(@, rot[r])]
  /\ Unlock(r) /\ RowDone(r, FALSE)
  /\ UNCHANGED <<refs, ring, job, edits, given, env, removable, holder>>

(* The verification or the database fails: the row keeps what it had.       *)
FailRow(r) ==
  /\ rot[r].pc = "write"
  /\ Unlock(r) /\ RowDone(r, TRUE)
  /\ UNCHANGED <<rows, refs, ring, job, edits, given, env, removable, holder>>

(* The channels are listed once more, with those registered since.          *)
ListAgain(r) ==
  /\ rot[r].pc = "rows" /\ rot[r].todo = {}
  /\ rot' = [rot EXCEPT ![r].pc = "verify", ![r].todo = Existing]
  /\ UNCHANGED <<channelVars, ring, env, removable, holder>>

(* verify_with_primary *)
Verified(row, k) == row.exists /\ Readable(row, {k.primary})

VerifyRow(r, c) ==
  /\ rot[r].pc = "verify" /\ c \in rot[r].todo /\ Free(c)
  /\ IF Verified(rows[c], rot[r].ring) THEN Passes(r, c) ELSE Fails(r, c)
  /\ UNCHANGED <<channelVars, ring, env, removable, holder>>

(* A transaction of the command fails before it has read the row.           *)
StorageFails(r, c) ==
  /\ rot[r].pc \in {"rows", "verify"} /\ c \in rot[r].todo
  /\ Fails(r, c)
  /\ UNCHANGED <<channelVars, ring, env, removable, holder>>

(* Mutant: rows that failed are reported, and the old key called removable. *)
Complete_Anyway(t) == TRUE

(* Complete if no row failed in either pass.                                *)
Complete(t) == ~t.failed

(* RELEASE_LOCK must answer that the lock was still ours: otherwise the     *)
(* command ends with an error and its summary is never shown.               *)
Report(r) ==
  LET t == rot[r] IN
  /\ t.pc = "verify" /\ t.todo = {}
  /\ removable' = (removable \/ (holder = r /\ Complete(t) /\ t.ring = env))
  /\ End(r)
  /\ UNCHANGED <<rows, refs, ring, job, edits, given, env>>

(* The named lock belongs to the connection, and the command works on over  *)
(* a new one.                                                               *)
LoseConnection(r) ==
  /\ holder = r
  /\ holder' = None
  /\ IF rot[r].pc = "write"
     THEN Unlock(r) /\ RowDone(r, TRUE)
     ELSE UNCHANGED <<lock, rot>>
  /\ UNCHANGED <<rows, refs, ring, job, edits, given, env, removable>>

Interrupt(r) ==
  /\ rot[r].pc # "idle"
  /\ End(r)
  /\ UNCHANGED <<rows, refs, ring, job, edits, given, env, removable>>

Rotate(r) ==
  \/ Start(r) \/ WriteRow(r) \/ FailRow(r) \/ ListAgain(r) \/ Report(r)
  \/ LoseConnection(r) \/ Interrupt(r)
  \/ \E c \in Ids : ReadRow(r, c) \/ VerifyRow(r, c) \/ StorageFails(r, c)

RotationNext ==
  \/ AddKey \/ RemoveOld
  \/ \E p \in Processes : Restart(p)
  \/ \E p \in Processes : Administer(p) /\ UNCHANGED <<env, removable, holder, rot>>
  \/ \E r \in Rotations : Rotate(r)

RotationSpec == RotationInit /\ [][RotationNext]_rotationVars

----------------------------------------------------------------------------
(* Properties *)

(* Every stored credential can be decrypted with the configured keys, so by *)
(* each process that was restarted with them, however often a rotation was  *)
(* interrupted, and once a rotation has reported the old key removable the  *)
(* new key alone is enough: no request and no other command writes with a   *)
(* former key after the verification (requirements 6.4 to 6.7).             *)
KeysSuffice ==
  \A c \in Existing :
    /\ Readable(rows[c], KeysOf(env))
    /\ removable => Readable(rows[c], {env.primary})
=============================================================================
