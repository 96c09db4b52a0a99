--------------------------- MODULE RotationProofs ---------------------------
(***************************************************************************)
(* The exchange of the key for any number of channels, processes, commands  *)
(* and keys (modules Channels, KeyRotation).  Two facts carry the argument. *)
(* Whoever is about to write a row holds its lock, so the row is as it was  *)
(* read.  And a command only writes a row that still needs its old key: by  *)
(* the time the keys have moved on there is no such row, so whatever an old *)
(* command writes, it writes with the present key.                          *)
(***************************************************************************)
EXTENDS KeyRotation, TLAPS

(* What a request of the process knows of its channel.                      *)
JobOK(p) ==
  LET j == job[p] IN
  /\ j.pc # "idle" => j.id \in Ids /\ rows[j.id].rev > 0
  /\ j.pc = "locked" =>
       /\ lock[j.id] = p /\ rows[j.id].exists
       /\ j.kind = "delete" => j.id \notin refs
  /\ j.pc = "checking" /\ rows[j.id].exists =>
       /\ j.rev <= rows[j.id].rev
       /\ j.rev = rows[j.id].rev => j.token = rows[j.id].token.value

(* What a command knows of the keys, of the row it is about to write, and   *)
(* of those it has verified.                                                *)
RotOK(r) ==
  LET t == rot[r] IN
  /\ t.pc # "idle" =>
       /\ t.ring.old /\ t.ring.primary <= env.primary
       /\ t.ring = env => \A p \in Processes : ring[p].primary = env.primary
  /\ t.pc = "write" =>
       /\ t.id \in Ids /\ lock[t.id] = r /\ rows[t.id].exists
       /\ t.token = rows[t.id].token /\ t.secret = rows[t.id].secret
       /\ t.ring.primary - 1 \in {t.token.key, t.secret.key}
  /\ t.pc = "verify" /\ t.ring = env /\ ~t.failed =>
       \A c \in Existing \ t.todo : Readable(rows[c], {env.primary})

(* The processes' keys and those of the rows are configured; once the old   *)
(* key may go, or has gone, nobody needs it.                                *)
KeysInv ==
  /\ \A p \in Processes : ring[p].primary \in KeysOf(env)
  /\ \A c \in Existing : Readable(rows[c], KeysOf(env))
  /\ removable \/ ~env.old =>
       /\ \A c \in Existing : Readable(rows[c], {env.primary})
       /\ \A p \in Processes : ring[p].primary = env.primary

(* A channel that exists has a revision, and only such a one is locked.     *)
ChannelsInv ==
  \A c \in Ids :
    /\ rows[c].exists => rows[c].rev > 0
    /\ lock[c] # None => rows[c].exists

RotationInv ==
  /\ RotationTypeOK
  /\ \A p \in Processes : JobOK(p)
  /\ \A r \in Rotations : RotOK(r)
  /\ KeysInv /\ ChannelsInv
  /\ NoOrphans /\ StoredIsGiven

----------------------------------------------------------------------------
(* What a step leaves alone *)

LocksStand(h) == \A c \in Ids : lock[c] = h => lock'[c] = h

(* Rows with a lock stay, and those that change get a new revision.         *)
RowsStand(h) == \A c \in Ids : lock[c] = h => rows'[c] = rows[c]

RowsGoOn ==
  \A c \in Ids : rows[c].rev > 0 =>
    /\ rows'[c].rev > 0
    /\ rows'[c].exists =>
         /\ rows[c].exists /\ rows[c].rev <= rows'[c].rev
         /\ rows[c].rev = rows'[c].rev => rows'[c].token.value = rows[c].token.value

(* A row is written with the key of a process or with the configured one.   *)
Primaries == {env.primary} \cup {ring[p].primary : p \in Processes}

KeysGoOn ==
  \A c \in Ids : rows'[c].exists =>
    \/ /\ rows[c].exists
       /\ rows'[c].token.key = rows[c].token.key /\ rows'[c].secret.key = rows[c].secret.key
    \/ rows'[c].token.key \in Primaries /\ rows'[c].secret.key = rows'[c].token.key

LEMMA JobKept ==
  ASSUME RotationTypeOK, RotationTypeOK', NEW q \in Processes, JobOK(q), job'[q] = job[q],
         LocksStand(q), RowsStand(q), RowsGoOn,
         \A c \in Ids : lock[c] = q /\ c \in refs' => c \in refs
  PROVE  JobOK(q)'
<1>1. job[q].rev \in Nat /\ \A c \in Ids : rows[c].rev \in Nat /\ rows'[c].rev \in Nat
  BY ChannelsAssumption DEF RotationTypeOK, ChannelsTypeOK, Job, Row
<1>2. CASE job[q].pc = "idle"
  BY <1>2 DEF JobOK
<1>3. CASE job[q].pc # "idle"
  <2>1. job[q].id \in Ids /\ rows[job[q].id].rev > 0 /\ rows'[job[q].id].rev > 0
    BY <1>3 DEF JobOK, RowsGoOn
  <2>2. job[q].pc = "locked" =>
          /\ lock'[job[q].id] = q /\ rows'[job[q].id].exists
          /\ job[q].kind = "delete" => job[q].id \notin refs'
    BY <2>1 DEF JobOK, LocksStand, RowsStand
  <2>3. job[q].pc = "checking" /\ rows'[job[q].id].exists =>
          /\ job[q].rev <= rows'[job[q].id].rev
          /\ job[q].rev = rows'[job[q].id].rev => job[q].token = rows'[job[q].id].token.value
    <3> SUFFICES ASSUME job[q].pc = "checking", rows'[job[q].id].exists
                 PROVE  /\ job[q].rev <= rows'[job[q].id].rev
                        /\ job[q].rev = rows'[job[q].id].rev
                             => job[q].token = rows'[job[q].id].token.value
      OBVIOUS
    <3> DEFINE c == job[q].id
    <3>1. /\ rows[c].exists /\ rows[c].rev <= rows'[c].rev
          /\ rows[c].rev = rows'[c].rev => rows'[c].token.value = rows[c].token.value
      BY <2>1 DEF RowsGoOn
    <3>2. job[q].rev <= rows[c].rev /\ (job[q].rev = rows[c].rev => job[q].token = rows[c].token.value)
      BY <3>1 DEF JobOK
    <3> HIDE DEF c
    <3>3. c \in Ids
      BY <2>1 DEF c
    <3>4. job[q].rev <= rows'[c].rev
      BY <1>1, <3>1, <3>2, <3>3
    <3>5. job[q].rev = rows'[c].rev => job[q].token = rows'[c].token.value
      BY <1>1, <3>1, <3>2, <3>3
    <3> QED
      BY <3>4, <3>5 DEF c
  <2> QED
    BY <2>1, <2>2, <2>3 DEF JobOK
<1> QED
  BY <1>2, <1>3

(* The key of a row that goes on is configured if the keys are.             *)
LEMMA PrimariesAre ==
  ASSUME RotationTypeOK, KeysInv, RotationTypeOK'
  PROVE  /\ Primaries \subseteq KeysOf(env)
         /\ removable \/ ~env.old => Primaries = {env.primary}
BY DEF KeysInv, Primaries, KeysOf, RotationTypeOK, Keyring

LEMMA RotKept ==
  ASSUME RotationTypeOK, NEW q \in Rotations, RotOK(q), rot'[q] = rot[q],
         LocksStand(q), RowsStand(q), KeysGoOn, env' = env,
         \A p \in Processes : ring'[p].primary \in {ring[p].primary, env.primary}
  PROVE  RotOK(q)'
<1> DEFINE t == rot[q]
<1>1. t.pc # "idle" =>
        /\ t.ring.old /\ t.ring.primary <= env'.primary
        /\ t.ring = env' => \A p \in Processes : ring'[p].primary = env'.primary
  BY DEF RotOK
<1>2. t.pc = "write" =>
        /\ t.id \in Ids /\ lock'[t.id] = q /\ rows'[t.id].exists
        /\ t.token = rows'[t.id].token /\ t.secret = rows'[t.id].secret
        /\ t.ring.primary - 1 \in {t.token.key, t.secret.key}
  BY DEF RotOK, LocksStand, RowsStand
<1>3. ASSUME t.pc = "verify", t.ring = env, ~t.failed, NEW c \in Existing', c \notin t.todo
      PROVE  Readable(rows'[c], {env.primary})
  <2>1. Primaries = {env.primary}
    BY <1>3 DEF RotOK, Primaries
  <2>2. c \in Ids /\ rows'[c].exists
    BY <1>3 DEF Existing
  <2>3. rows[c].exists => Readable(rows[c], {env.primary})
    BY <1>3, <2>2 DEF RotOK, Existing
  <2> QED
    BY <2>1, <2>2, <2>3 DEF KeysGoOn, Readable, Opens
<1> HIDE DEF t
<1>4. t.pc = "verify" /\ t.ring = env' /\ ~t.failed =>
        \A c \in Existing' \ t.todo : Readable(rows'[c], {env'.primary})
  BY <1>3
<1>5. rot'[q] = t
  BY DEF t
<1> QED
  BY <1>1, <1>2, <1>4, <1>5 DEF RotOK

LEMMA KeysKept ==
  ASSUME RotationTypeOK, RotationTypeOK', KeysInv, KeysGoOn, env' = env, removable' = removable,
         \A p \in Processes : ring'[p].primary \in {ring[p].primary, env.primary}
  PROVE  KeysInv'
<1>1. \A p \in Processes : ring'[p].primary \in KeysOf(env')
  BY DEF KeysInv, KeysOf
<1>2. ASSUME NEW c \in Existing'
      PROVE  /\ Readable(rows'[c], KeysOf(env'))
             /\ removable' \/ ~env'.old => Readable(rows'[c], {env'.primary})
  <2>1. /\ c \in Ids /\ rows'[c].exists
        /\ rows[c].exists => c \in Existing
    BY <1>2 DEF Existing
  <2> QED
    BY <2>1, PrimariesAre DEF KeysGoOn, KeysInv, Readable, Opens
<1>3. removable' \/ ~env'.old => \A p \in Processes : ring'[p].primary = env'.primary
  BY DEF KeysInv
<1> QED
  BY <1>1, <1>2, <1>3 DEF KeysInv

----------------------------------------------------------------------------
(* Types *)

LEMMA Constants ==
  /\ MaxEdits \in Nat /\ MaxRev \in Nat /\ MaxKey \in Nat
  /\ 1 \in Keys /\ 1 \in Edits /\ 0 \in 0..MaxRev /\ 1 \in 0..MaxRev
BY ChannelsAssumption DEF Keys, Edits

LEMMA Records ==
  /\ NoCipher \in Cipher /\ NoRow \in Row /\ NoWork \in Job /\ NoRotation \in Rotation
BY Constants DEF NoCipher, Cipher, NoRow, Row, NoWork, Job, Kinds, NoRotation, Rotation, Keyring

LEMMA UnlockIs ==
  ASSUME ChannelsTypeOK, NEW h \in Holders, Unlock(h)
  PROVE  /\ lock' \in [Ids -> Holders \cup {None}]
         /\ \A c \in Ids : lock'[c] = IF lock[c] = h THEN None ELSE lock[c]
         /\ \A g \in Holders \ {h} : LocksStand(g)
BY DEF ChannelsTypeOK, Unlock, LocksStand

LEMMA FinishIs ==
  ASSUME ChannelsTypeOK, NEW p \in Processes, Finish(p)
  PROVE  /\ job' \in [Processes -> Job]
         /\ job'[p] = NoWork /\ \A q \in Processes \ {p} : job'[q] = job[q]
BY Records DEF ChannelsTypeOK, Finish

LEMMA SupplyIs ==
  ASSUME ChannelsTypeOK, NEW c \in Ids, Supply(c)
  PROVE  /\ edits' \in 0..MaxEdits /\ edits' = edits + 1 /\ edits + 1 \in Edits
         /\ given' \in [Ids -> Edits] /\ given'[c] = edits + 1
         /\ \A d \in Ids \ {c} : given'[d] = given[d]
<1>1. edits + 1 \in Edits /\ edits + 1 \in 0..MaxEdits
  BY Constants DEF Supply, Edits, ChannelsTypeOK
<1> QED
  BY <1>1 DEF Supply, ChannelsTypeOK

(* The rows that are written.                                               *)
LEMMA PairIs ==
  ASSUME NEW row \in Row, NEW k \in Keyring, NEW v \in Edits
  PROVE  LET new == WithPair(row, k, v) IN
         /\ new \in Row /\ new.exists = row.exists /\ new.rev = row.rev
         /\ new.token = [key |-> k.primary, value |-> v]
         /\ new.secret = [key |-> k.primary, value |-> v]
<1>1. Encrypted(k, v) \in Cipher /\ Encrypted(k, v) = [key |-> k.primary, value |-> v]
  BY DEF Encrypted, Cipher, Keyring
<1> QED
  BY <1>1 DEF WithPair, Row

LEMMA CreatedIs ==
  ASSUME NEW k \in Keyring, NEW v \in Edits
  PROVE  LET new == Created(k, v) IN
         /\ new \in Row /\ new.exists /\ new.rev = 1
         /\ new.token = [key |-> k.primary, value |-> v]
         /\ new.secret = [key |-> k.primary, value |-> v]
<1> DEFINE blank == [NoRow EXCEPT !.exists = TRUE, !.rev = 1]
<1>1. blank \in Row /\ blank.exists /\ blank.rev = 1
  BY Constants, Records DEF NoRow, Row
<1> HIDE DEF blank
<1>2. Created(k, v) = WithPair(blank, k, v)
  BY DEF Created, blank
<1> QED
  BY <1>1, <1>2, PairIs

LEMMA ReplacedIs ==
  ASSUME NEW row \in Row, row.rev < MaxRev, NEW k \in Keyring, NEW v \in Edits
  PROVE  LET new == Replaced(row, k, v) IN
         /\ new \in Row /\ new.exists = row.exists /\ new.rev = row.rev + 1
         /\ new.token = [key |-> k.primary, value |-> v]
         /\ new.secret = [key |-> k.primary, value |-> v]
<1> DEFINE next == [row EXCEPT !.rev = row.rev + 1]
<1>1. row.rev + 1 \in 0..MaxRev
  BY Constants DEF Row
<1>2. next \in Row /\ next.exists = row.exists /\ next.rev = row.rev + 1
  BY <1>1 DEF Row
<1> HIDE DEF next
<1>3. Replaced(row, k, v) = WithPair(next, k, v)
  BY DEF Replaced, next
<1> QED
  BY <1>2, <1>3, PairIs

LEMMA RewrittenIs ==
  ASSUME NEW row \in Row, NEW t \in Rotation
  PROVE  LET new == Rewritten(row, t) IN
         /\ new \in Row /\ new.exists = row.exists /\ new.rev = row.rev
         /\ new.token = [key |-> t.ring.primary, value |-> t.token.value]
         /\ new.secret = [key |-> t.ring.primary, value |-> t.secret.value]
<1>1. t.ring.primary \in Keys /\ t.token.value \in Edits /\ t.secret.value \in Edits
  BY DEF Rotation, Keyring, Cipher
<1> QED
  BY <1>1 DEF Rewritten, Encrypted, Row, Cipher

(* A request of a process, and what it does to the lock of its channel.     *)
LEMMA LockedIs ==
  ASSUME ChannelsTypeOK, NEW p \in Processes, NEW c \in Ids, NEW kind \in Kinds,
         Locked(p, c, kind), Free(c)
  PROVE  /\ lock' \in [Ids -> Holders \cup {None}] /\ job' \in [Processes -> Job]
         /\ job'[p] = [NoWork EXCEPT !.pc = "locked", !.kind = kind, !.id = c]
         /\ lock'[c] = p /\ \A d \in Ids \ {c} : lock'[d] = lock[d]
         /\ \A q \in Processes \ {p} : job'[q] = job[q]
         /\ \A h \in Holders : LocksStand(h)
<1>1. [NoWork EXCEPT !.pc = "locked", !.kind = kind, !.id = c] \in Job
  BY Constants DEF NoWork, Job
<1>2. p \in Holders /\ None \notin Holders
  BY ChannelsAssumption DEF Holders
<1> QED
  BY <1>1, <1>2 DEF Locked, ChannelsTypeOK, Free, LocksStand

----------------------------------------------------------------------------
(* The invariant after a step *)

LEMMA RowsSame ==
  ASSUME RotationInv, rows' = rows
  PROVE  /\ \A h \in Holders : RowsStand(h)
         /\ RowsGoOn /\ KeysGoOn
         /\ (\A c \in Ids : lock'[c] \in {None, lock[c]} \/ rows[c].exists) => ChannelsInv'
         /\ refs' = refs => NoOrphans'
         /\ given' = given => StoredIsGiven'
<1>1. Existing' = Existing
  BY DEF Existing
<1>2. \A c \in Ids : rows[c].rev \in Nat
  BY ChannelsAssumption DEF RotationInv, RotationTypeOK, ChannelsTypeOK, Row
<1>3. RowsGoOn
  BY <1>2 DEF RowsGoOn
<1> QED
  BY <1>1, <1>3 DEF RotationInv, RowsStand, KeysGoOn, ChannelsInv, NoOrphans, StoredIsGiven

(* A step of a process keeps what concerns the others.                      *)
LEMMA ProcessStep ==
  ASSUME RotationInv, RotationTypeOK', NEW p \in Processes, JobOK(p)',
         \A q \in Processes \ {p} : job'[q] = job[q],
         \A h \in Holders \ {p} : LocksStand(h),
         \A h \in Holders \ {p} : RowsStand(h),
         RowsGoOn, KeysGoOn, ChannelsInv', NoOrphans', StoredIsGiven',
         \A c \in refs' : c \in refs \/ lock[c] = p,
         \A q \in Processes : ring'[q].primary \in {ring[q].primary, env.primary},
         UNCHANGED <<env, removable, rot>>
  PROVE  RotationInv'
<1>1. Processes \subseteq Holders /\ Rotations \subseteq Holders \ {p}
  BY ChannelsAssumption DEF Holders
<1>2. ASSUME NEW q \in Processes \ {p}
      PROVE  JobOK(q)'
  BY <1>1, <1>2, JobKept DEF RotationInv
<1>3. ASSUME NEW r \in Rotations
      PROVE  RotOK(r)'
  BY <1>1, <1>3, RotKept DEF RotationInv
<1>4. KeysInv'
  BY KeysKept DEF RotationInv
<1> QED
  BY <1>2, <1>3, <1>4 DEF RotationInv

(* A step of a command likewise.                                            *)
LEMMA CommandStep ==
  ASSUME RotationInv, RotationTypeOK', NEW r \in Rotations, RotOK(r)', KeysInv',
         \A q \in Rotations \ {r} : rot'[q] = rot[q],
         \A h \in Holders \ {r} : LocksStand(h),
         \A h \in Holders \ {r} : RowsStand(h),
         RowsGoOn, KeysGoOn, ChannelsInv', NoOrphans', StoredIsGiven',
         UNCHANGED <<refs, ring, env, job>>
  PROVE  RotationInv'
<1>1. Rotations \subseteq Holders /\ Processes \subseteq Holders \ {r}
  BY ChannelsAssumption DEF Holders
<1>2. ASSUME NEW q \in Processes
      PROVE  JobOK(q)'
  BY <1>1, <1>2, JobKept DEF RotationInv
<1>3. ASSUME NEW q \in Rotations \ {r}
      PROVE  RotOK(q)'
  BY <1>1, <1>3, RotKept DEF RotationInv
<1> QED
  BY <1>2, <1>3 DEF RotationInv

(* A process that has not changed the rows.                                 *)
LEMMA RequestStep ==
  ASSUME RotationInv, NEW p \in Processes, JobOK(p)',
         job' \in [Processes -> Job], lock' \in [Ids -> Holders \cup {None}],
         \A q \in Processes \ {p} : job'[q] = job[q],
         \A h \in Holders \ {p} : LocksStand(h),
         \A c \in Ids : lock'[c] \in {None, lock[c]} \/ rows[c].exists,
         UNCHANGED <<rows, refs, ring, edits, given, env, removable, holder, rot>>
  PROVE  RotationInv'
<1>1. RotationTypeOK'
  BY DEF RotationInv, RotationTypeOK, ChannelsTypeOK
<1> QED
  BY <1>1, RowsSame, ProcessStep

(* The request is over, or nothing came of it.                              *)
LEMMA RequestEnds ==
  ASSUME RotationInv, NEW p \in Processes, Finish(p), Unlock(p) \/ UNCHANGED lock,
         UNCHANGED <<rows, refs, ring, edits, given, env, removable, holder, rot>>
  PROVE  RotationInv'
<1>1. ChannelsTypeOK /\ p \in Holders
  BY DEF RotationInv, RotationTypeOK, Holders
<1>2. JobOK(p)'
  BY <1>1, FinishIs DEF JobOK, NoWork
<1>3. /\ lock' \in [Ids -> Holders \cup {None}]
      /\ \A h \in Holders \ {p} : LocksStand(h)
      /\ \A c \in Ids : lock'[c] \in {None, lock[c]}
  <2>1. CASE Unlock(p)
    BY <1>1, <2>1, UnlockIs
  <2>2. CASE UNCHANGED lock
    BY <1>1, <2>2 DEF ChannelsTypeOK, LocksStand
  <2> QED
    BY <2>1, <2>2
<1> QED
  BY <1>1, <1>2, <1>3, FinishIs, RequestStep

(* The request has the lock of its channel.                                 *)
LEMMA RequestLocks ==
  ASSUME RotationInv, NEW p \in Processes, NEW c \in Ids, NEW kind \in Kinds,
         Locked(p, c, kind), Free(c), rows[c].exists, kind = "delete" => c \notin refs,
         UNCHANGED <<rows, refs, ring, edits, given, env, removable, holder, rot>>
  PROVE  RotationInv'
<1>1. ChannelsTypeOK /\ c \in Existing
  BY DEF RotationInv, RotationTypeOK, Existing
<1>2. job'[p] = [NoWork EXCEPT !.pc = "locked", !.kind = kind, !.id = c] /\ lock'[c] = p
  BY <1>1, LockedIs
<1>3. /\ job'[p].pc = "locked" /\ job'[p].id = c /\ job'[p].kind = kind /\ lock'[c] = p
  BY <1>2 DEF NoWork
<1>4. rows[c].rev > 0
  BY <1>1 DEF RotationInv, ChannelsInv
<1>5. JobOK(p)'
  BY <1>3, <1>4 DEF JobOK
<1> QED
  BY <1>1, <1>5, LockedIs, RequestStep

----------------------------------------------------------------------------
(* Requests that change no row *)

LEMMA AskKeeps ==
  ASSUME RotationInv, NEW p \in Processes, NEW c \in Ids, Ask(p, c),
         UNCHANGED <<env, removable, holder, rot>>
  PROVE  RotationInv'
<1>1. PICK kind \in {"update", "delete"} :
        job' = [job EXCEPT ![p] = [NoWork EXCEPT !.pc = "asked", !.kind = kind,
                                    !.id = c, !.rev = rows[c].rev]]
  BY DEF Ask
<1>2. ChannelsTypeOK /\ rows[c].rev \in 0..MaxRev /\ rows[c].rev > 0
  BY DEF RotationInv, RotationTypeOK, ChannelsTypeOK, Row, Ask, ChannelsInv, Existing
<1> DEFINE j == [NoWork EXCEPT !.pc = "asked", !.kind = kind, !.id = c, !.rev = rows[c].rev]
<1>3. j \in Job /\ j.pc = "asked" /\ j.id = c
  BY <1>2, Constants DEF NoWork, Job, Kinds
<1> HIDE DEF j
<1>4. job' \in [Processes -> Job] /\ job'[p] = j /\ \A q \in Processes \ {p} : job'[q] = job[q]
  BY <1>1, <1>2, <1>3 DEF ChannelsTypeOK, j
<1>5. UNCHANGED <<rows, lock, refs, ring, edits, given>>
  BY DEF Ask
<1>6. JobOK(p)'
  BY <1>2, <1>3, <1>4, <1>5 DEF JobOK
<1>7. /\ lock' \in [Ids -> Holders \cup {None}] /\ \A h \in Holders \ {p} : LocksStand(h)
      /\ \A d \in Ids : lock'[d] = lock[d]
  BY <1>2, <1>5 DEF ChannelsTypeOK, LocksStand
<1> QED
  BY <1>4, <1>5, <1>6, <1>7, RequestStep

LEMMA SnapshotKeeps ==
  ASSUME RotationInv, NEW p \in Processes, NEW c \in Ids, Snapshot(p, c),
         UNCHANGED <<env, removable, holder, rot>>
  PROVE  RotationInv'
<1> DEFINE j == [pc |-> "checking", kind |-> "check", id |-> c, rev |-> rows[c].rev,
                 token |-> rows[c].token.value]
<1>1. ChannelsTypeOK /\ rows[c].rev \in 0..MaxRev /\ rows[c].rev > 0 /\ rows[c].token.value \in Edits
  BY DEF RotationInv, RotationTypeOK, ChannelsTypeOK, Row, Cipher, Snapshot, ChannelsInv, Existing
<1>2. j \in Job /\ j.pc = "checking" /\ j.id = c /\ j.rev = rows[c].rev
      /\ j.token = rows[c].token.value
  BY <1>1 DEF Job, Kinds
<1>3. job' = [job EXCEPT ![p] = j] /\ UNCHANGED <<rows, lock, refs, ring, edits, given>>
  BY DEF Snapshot
<1> HIDE DEF j
<1>4. job' \in [Processes -> Job] /\ job'[p] = j /\ \A q \in Processes \ {p} : job'[q] = job[q]
  BY <1>1, <1>2, <1>3 DEF ChannelsTypeOK
<1>5. rows[c].rev <= rows[c].rev
  BY <1>1
<1>6. JobOK(p)'
  BY <1>1, <1>2, <1>3, <1>4, <1>5 DEF JobOK
<1>7. /\ lock' \in [Ids -> Holders \cup {None}] /\ \A h \in Holders \ {p} : LocksStand(h)
      /\ \A d \in Ids : lock'[d] = lock[d]
  BY <1>1, <1>3 DEF ChannelsTypeOK, LocksStand
<1> QED
  BY <1>3, <1>4, <1>6, <1>7, RequestStep

LEMMA LocksKeep ==
  ASSUME RotationInv, NEW p \in Processes, UNCHANGED <<env, removable, holder, rot>>,
         \/ LockForUpdate(p) \/ LockForDelete(p)
         \/ \E c \in Ids : Command(p, c) \/ LockExisting(p, c)
  PROVE  RotationInv'
<1>1. CASE \E c \in Ids : Command(p, c) \/ LockExisting(p, c)
  BY <1>1, RequestLocks DEF Command, LockExisting, Kinds
<1>2. CASE LockForUpdate(p)
  <2>1. job[p].id \in Ids /\ Free(job[p].id)
    BY <1>2 DEF LockForUpdate, RotationInv, JobOK
  <2>2. UNCHANGED <<rows, refs, ring, edits, given>>
    BY <1>2 DEF LockForUpdate
  <2>3. CASE Shown(job[p])
    BY <1>2, <2>1, <2>2, <2>3, RequestLocks DEF LockForUpdate, Shown, Kinds
  <2>4. CASE ~Shown(job[p])
    BY <1>2, <2>2, <2>4, RequestEnds DEF LockForUpdate
  <2> QED
    BY <2>3, <2>4
<1>3. CASE LockForDelete(p)
  <2>1. job[p].id \in Ids /\ Free(job[p].id)
    BY <1>3 DEF LockForDelete, RotationInv, JobOK
  <2>2. UNCHANGED <<rows, refs, ring, edits, given>>
    BY <1>3 DEF LockForDelete
  <2>3. CASE Deletable(job[p])
    BY <1>3, <2>1, <2>2, <2>3, RequestLocks DEF LockForDelete, Deletable, Referenced, Shown, Kinds
  <2>4. CASE ~Deletable(job[p])
    BY <1>3, <2>2, <2>4, RequestEnds DEF LockForDelete
  <2> QED
    BY <2>3, <2>4
<1> QED
  BY <1>1, <1>2, <1>3

LEMMA EndsKeep ==
  ASSUME RotationInv, NEW p \in Processes, Rollback(p) \/ Conclude(p),
         UNCHANGED <<env, removable, holder, rot>>
  PROVE  RotationInv'
BY RequestEnds DEF Rollback, Conclude

----------------------------------------------------------------------------
(* Requests that change a row, or refer to one *)

(* A process that holds the lock of a channel, or has its id first, writes  *)
(* the row of it and is done.                                               *)
LEMMA RequestWrites ==
  ASSUME RotationInv, NEW p \in Processes, NEW c \in Ids, NEW row \in Row,
         rows' = [rows EXCEPT ![c] = row], lock[c] = p \/ rows[c] = NoRow,
         job' \in [Processes -> Job], JobOK(p)',
         \A q \in Processes \ {p} : job'[q] = job[q],
         lock' \in [Ids -> Holders \cup {None}],
         \A d \in Ids : lock'[d] = lock[d] \/ (lock[d] = p /\ lock'[d] = None),
         lock'[c] = None,
         edits' \in 0..MaxEdits, given' \in [Ids -> Edits],
         \A d \in Ids \ {c} : given'[d] = given[d],
         row.exists => row.token.value = given'[c] /\ row.secret.value = given'[c],
         rows[c].rev < row.rev \/ ~row.exists, row.rev > 0,
         rows[c].rev > 0 /\ row.exists => rows[c].exists,
         \/ /\ rows[c].exists
            /\ row.token.key = rows[c].token.key /\ row.secret.key = rows[c].secret.key
         \/ row.token.key = ring[p].primary /\ row.secret.key = row.token.key
         \/ ~row.exists,
         c \in refs => row.exists,
         UNCHANGED <<refs, ring, env, removable, holder, rot>>
  PROVE  RotationInv'
<1>1. rows' \in [Ids -> Row] /\ rows'[c] = row /\ \A d \in Ids \ {c} : rows'[d] = rows[d]
  BY DEF RotationInv, RotationTypeOK, ChannelsTypeOK
<1>2. RotationTypeOK'
  BY <1>1 DEF RotationInv, RotationTypeOK, ChannelsTypeOK
<1>3. \A d \in Ids : rows[d].rev \in Nat /\ rows'[d].rev \in Nat
  BY <1>1, ChannelsAssumption DEF RotationInv, RotationTypeOK, ChannelsTypeOK, Row
<1>4. ASSUME NEW h \in Holders \ {p}
      PROVE  RowsStand(h) /\ LocksStand(h)
  <2>1. lock[c] # h /\ LocksStand(h)
    BY <1>4, ChannelsAssumption DEF RotationInv, ChannelsInv, NoRow, Holders, LocksStand
  <2> QED
    BY <1>1, <2>1 DEF RowsStand
<1>5. RowsGoOn
  BY <1>1, <1>3 DEF RowsGoOn
<1>6. KeysGoOn
  BY <1>1 DEF KeysGoOn, Primaries
<1>7. ChannelsInv'
  BY <1>1 DEF ChannelsInv, RotationInv
<1>8. NoOrphans'
  BY <1>1 DEF NoOrphans, Existing, RotationInv
<1>9. StoredIsGiven'
  BY <1>1 DEF StoredIsGiven, Existing, RotationInv
<1> QED
  BY <1>2, <1>4, <1>5, <1>6, <1>7, <1>8, <1>9, ProcessStep

LEMMA RegisterKeeps ==
  ASSUME RotationInv, NEW p \in Processes, NEW c \in Ids, Register(p, c),
         UNCHANGED <<env, removable, holder, rot>>
  PROVE  RotationInv'
<1>1. ChannelsTypeOK /\ ring[p] \in Keyring /\ lock[c] = None
  BY DEF RotationInv, RotationTypeOK, ChannelsTypeOK, ChannelsInv, Register, NoRow
<1>2. /\ edits' \in 0..MaxEdits /\ edits + 1 \in Edits
      /\ given' \in [Ids -> Edits] /\ given'[c] = edits + 1
      /\ \A d \in Ids \ {c} : given'[d] = given[d]
  BY <1>1, SupplyIs DEF Register
<1> DEFINE row == Created(ring[p], edits + 1)
<1>3. /\ row \in Row /\ row.exists /\ row.rev = 1
      /\ row.token = [key |-> ring[p].primary, value |-> edits + 1]
      /\ row.secret = [key |-> ring[p].primary, value |-> edits + 1]
  BY <1>1, <1>2, CreatedIs
<1>4. /\ rows' = [rows EXCEPT ![c] = row] /\ rows[c] = NoRow /\ job[p] = NoWork
      /\ UNCHANGED <<lock, refs, ring, job>>
  BY DEF Register
<1> HIDE DEF row
<1>5. JobOK(p)'
  BY <1>4 DEF JobOK, NoWork
<1>6. rows[c].rev = 0
  BY <1>4 DEF NoRow
<1>7. /\ job' \in [Processes -> Job] /\ lock' \in [Ids -> Holders \cup {None}]
      /\ \A d \in Ids : lock'[d] = lock[d]
      /\ \A q \in Processes \ {p} : job'[q] = job[q]
  BY <1>1, <1>4 DEF ChannelsTypeOK
<1>8. /\ row.token.value = given'[c] /\ row.secret.value = given'[c]
      /\ row.token.key = ring[p].primary /\ row.secret.key = row.token.key
      /\ rows[c].rev < row.rev /\ row.rev > 0
      /\ ~(rows[c].rev > 0) /\ row \in Row /\ row.exists
  BY <1>2, <1>3, <1>6
<1>9. lock'[c] = None
  BY <1>1, <1>7
<1> QED
  BY <1>2, <1>4, <1>5, <1>7, <1>8, <1>9, RequestWrites

(* A request that ends with its transaction.                                *)
LEMMA CommitIs ==
  ASSUME RotationInv, NEW p \in Processes, job[p].pc = "locked", Unlock(p), Finish(p)
  PROVE  LET c == job[p].id IN
         /\ c \in Ids /\ lock[c] = p /\ rows[c] \in Row /\ rows[c].exists /\ rows[c].rev > 0
         /\ ring[p] \in Keyring /\ JobOK(p)'
         /\ job' \in [Processes -> Job] /\ \A q \in Processes \ {p} : job'[q] = job[q]
         /\ lock' \in [Ids -> Holders \cup {None}] /\ lock'[c] = None
         /\ \A d \in Ids : lock'[d] = lock[d] \/ (lock[d] = p /\ lock'[d] = None)
<1>1. ChannelsTypeOK /\ p \in Holders
  BY DEF RotationInv, RotationTypeOK, Holders
<1>2. job[p].id \in Ids /\ lock[job[p].id] = p /\ rows[job[p].id].exists /\ rows[job[p].id].rev > 0
  BY DEF RotationInv, JobOK
<1>3. rows[job[p].id] \in Row /\ ring[p] \in Keyring
  BY <1>1, <1>2 DEF ChannelsTypeOK
<1>4. JobOK(p)'
  BY <1>1, FinishIs DEF JobOK, NoWork
<1> QED
  BY <1>1, <1>2, <1>3, <1>4, FinishIs, UnlockIs

LEMMA CredentialsKeep ==
  ASSUME RotationInv, NEW p \in Processes, CommitCredentials(p),
         UNCHANGED <<env, removable, holder, rot>>
  PROVE  RotationInv'
<1> DEFINE c == job[p].id
<1> DEFINE row == Replaced(rows[c], ring[p], edits + 1)
<1>1. /\ job[p].pc = "locked" /\ rows[c].rev < MaxRev /\ Supply(c)
      /\ rows' = [rows EXCEPT ![c] = row] /\ Unlock(p) /\ Finish(p) /\ UNCHANGED <<refs, ring>>
  BY DEF CommitCredentials
<1>2. /\ c \in Ids /\ lock[c] = p /\ rows[c] \in Row /\ rows[c].exists /\ rows[c].rev > 0
      /\ ring[p] \in Keyring /\ JobOK(p)'
      /\ job' \in [Processes -> Job] /\ \A q \in Processes \ {p} : job'[q] = job[q]
      /\ lock' \in [Ids -> Holders \cup {None}] /\ lock'[c] = None
      /\ \A d \in Ids : lock'[d] = lock[d] \/ (lock[d] = p /\ lock'[d] = None)
  BY <1>1, CommitIs
<1>3. ChannelsTypeOK
  BY DEF RotationInv, RotationTypeOK
<1>4. /\ edits' \in 0..MaxEdits /\ edits + 1 \in Edits
      /\ given' \in [Ids -> Edits] /\ given'[c] = edits + 1
      /\ \A d \in Ids \ {c} : given'[d] = given[d]
  BY <1>1, <1>2, <1>3, SupplyIs
<1> HIDE DEF c
<1>5. /\ row \in Row /\ row.exists = rows[c].exists /\ row.rev = rows[c].rev + 1
      /\ row.token = [key |-> ring[p].primary, value |-> edits + 1]
      /\ row.secret = [key |-> ring[p].primary, value |-> edits + 1]
  <2>1. rows[c] \in Row /\ rows[c].rev < MaxRev /\ ring[p] \in Keyring /\ edits + 1 \in Edits
    BY <1>1, <1>2, <1>4
  <2> QED
    BY <2>1, ReplacedIs
<1> HIDE DEF row
<1>6. rows[c].rev < row.rev /\ row.rev > 0
  BY <1>2, <1>5, ChannelsAssumption DEF Row
<1>7. /\ row.token.value = given'[c] /\ row.secret.value = given'[c]
      /\ row.token.key = ring[p].primary /\ row.secret.key = row.token.key /\ row.exists
  BY <1>2, <1>4, <1>5
<1> QED
  BY <1>1, <1>2, <1>4, <1>5, <1>6, <1>7, RequestWrites

LEMMA ChangeKeeps ==
  ASSUME RotationInv, NEW p \in Processes, CommitChange(p),
         UNCHANGED <<env, removable, holder, rot>>
  PROVE  RotationInv'
<1> DEFINE c == job[p].id
<1> DEFINE row == [rows[c] EXCEPT !.rev = @ + 1]
<1>1. /\ job[p].pc = "locked" /\ rows[c].rev < MaxRev
      /\ rows' = [rows EXCEPT ![c].rev = @ + 1]
      /\ Unlock(p) /\ Finish(p) /\ UNCHANGED <<refs, ring, edits, given>>
  BY DEF CommitChange
<1>2. /\ c \in Ids /\ lock[c] = p /\ rows[c] \in Row /\ rows[c].exists /\ rows[c].rev > 0
      /\ JobOK(p)'
      /\ job' \in [Processes -> Job] /\ \A q \in Processes \ {p} : job'[q] = job[q]
      /\ lock' \in [Ids -> Holders \cup {None}] /\ lock'[c] = None
      /\ \A d \in Ids : lock'[d] = lock[d] \/ (lock[d] = p /\ lock'[d] = None)
  BY <1>1, CommitIs
<1>3. ChannelsTypeOK
  BY DEF RotationInv, RotationTypeOK
<1>4. rows[c].rev + 1 \in 0..MaxRev /\ rows[c].rev < rows[c].rev + 1 /\ rows[c].rev + 1 > 0
  BY <1>1, <1>2, ChannelsAssumption DEF Row
<1>5. /\ row \in Row /\ row.exists /\ row.rev = rows[c].rev + 1
      /\ row.token = rows[c].token /\ row.secret = rows[c].secret
  BY <1>2, <1>4 DEF Row
<1>6. rows' = [rows EXCEPT ![c] = row]
  BY <1>1, <1>2, <1>3 DEF ChannelsTypeOK
<1> HIDE DEF c, row
<1>7. /\ edits' \in 0..MaxEdits /\ given' \in [Ids -> Edits]
      /\ \A d \in Ids \ {c} : given'[d] = given[d]
      /\ row.token.value = given'[c] /\ row.secret.value = given'[c]
  BY <1>1, <1>2, <1>3, <1>5 DEF ChannelsTypeOK, RotationInv, StoredIsGiven, Existing
<1>8. rows[c].rev < row.rev /\ row.rev > 0
  BY <1>4, <1>5
<1> QED
  BY <1>1, <1>2, <1>5, <1>6, <1>7, <1>8, RequestWrites

LEMMA DeleteKeeps ==
  ASSUME RotationInv, NEW p \in Processes, CommitDelete(p),
         UNCHANGED <<env, removable, holder, rot>>
  PROVE  RotationInv'
<1> DEFINE c == job[p].id
<1> DEFINE row == [NoRow EXCEPT !.rev = 1]
<1>1. /\ job[p].pc = "locked" /\ job[p].kind = "delete"
      /\ rows' = [rows EXCEPT ![c] = row]
      /\ Unlock(p) /\ Finish(p) /\ UNCHANGED <<refs, ring, edits, given>>
  BY DEF CommitDelete
<1>2. /\ c \in Ids /\ lock[c] = p /\ JobOK(p)'
      /\ job' \in [Processes -> Job] /\ \A q \in Processes \ {p} : job'[q] = job[q]
      /\ lock' \in [Ids -> Holders \cup {None}] /\ lock'[c] = None
      /\ \A d \in Ids : lock'[d] = lock[d] \/ (lock[d] = p /\ lock'[d] = None)
  BY <1>1, CommitIs
<1>3. row \in Row /\ row.exists = FALSE /\ row.rev = 1
  BY Constants, Records DEF NoRow, Row
<1>4. c \notin refs
  BY <1>1 DEF RotationInv, JobOK
<1>5. edits' \in 0..MaxEdits /\ given' \in [Ids -> Edits] /\ given' = given
  BY <1>1 DEF RotationInv, RotationTypeOK, ChannelsTypeOK
<1> HIDE DEF c, row
<1>6. row.rev > 0 /\ ~row.exists
  BY <1>3
<1> QED
  BY <1>1, <1>2, <1>3, <1>4, <1>5, <1>6, RequestWrites

LEMMA ReferenceKeeps ==
  ASSUME RotationInv, NEW p \in Processes, CommitReference(p),
         UNCHANGED <<env, removable, holder, rot>>
  PROVE  RotationInv'
<1> DEFINE c == job[p].id
<1>1. /\ job[p].pc = "locked" /\ refs' = refs \cup {c}
      /\ Unlock(p) /\ Finish(p) /\ UNCHANGED <<rows, ring, edits, given>>
  BY DEF CommitReference
<1>2. /\ c \in Ids /\ lock[c] = p /\ rows[c].exists /\ JobOK(p)'
      /\ job' \in [Processes -> Job] /\ \A q \in Processes \ {p} : job'[q] = job[q]
      /\ lock' \in [Ids -> Holders \cup {None}]
      /\ \A d \in Ids : lock'[d] = lock[d] \/ (lock[d] = p /\ lock'[d] = None)
  BY <1>1, CommitIs
<1> HIDE DEF c
<1>3. RotationTypeOK'
  BY <1>1, <1>2 DEF RotationInv, RotationTypeOK, ChannelsTypeOK
<1>4. \A h \in Holders \ {p} : LocksStand(h)
  BY <1>2 DEF LocksStand
<1>5. NoOrphans'
  BY <1>1, <1>2 DEF NoOrphans, Existing, RotationInv
<1>6. ChannelsInv' /\ StoredIsGiven'
  BY <1>1, <1>2, RowsSame DEF RotationInv, ChannelsInv
<1>7. \A d \in refs' : d \in refs \/ lock[d] = p
  BY <1>1, <1>2
<1> QED
  BY <1>1, <1>2, <1>3, <1>4, <1>5, <1>6, <1>7, RowsSame, ProcessStep

LEMMA AdministerKeeps ==
  ASSUME RotationInv, NEW p \in Processes, Administer(p),
         UNCHANGED <<env, removable, holder, rot>>
  PROVE  RotationInv'
BY RegisterKeeps, AskKeeps, SnapshotKeeps, LocksKeep, EndsKeep, CredentialsKeep,
   ChangeKeeps, DeleteKeeps, ReferenceKeeps
   DEF Administer

----------------------------------------------------------------------------
(* The commands *)

LEMMA ItemIs ==
  ASSUME RotationTypeOK, NEW r \in Rotations, NEW c \in Ids, Fails(r, c) \/ Passes(r, c)
  PROVE  /\ rot' \in [Rotations -> Rotation]
         /\ \A q \in Rotations \ {r} : rot'[q] = rot[q]
         /\ rot'[r].pc = rot[r].pc /\ rot'[r].ring = rot[r].ring
         /\ rot'[r].todo = rot[r].todo \ {c}
         /\ rot'[r].failed \/ rot'[r].failed = rot[r].failed
<1>1. rot \in [Rotations -> Rotation] /\ rot[r] \in Rotation
  BY DEF RotationTypeOK
<1>2. rot'[r] \in Rotation
  BY <1>1 DEF Fails, Passes, Rotation
<1> QED
  BY <1>1, <1>2 DEF Fails, Passes, Rotation

LEMMA DoneIs ==
  ASSUME RotationTypeOK, NEW r \in Rotations, NEW failed \in BOOLEAN, RowDone(r, failed)
  PROVE  /\ rot' \in [Rotations -> Rotation]
         /\ \A q \in Rotations \ {r} : rot'[q] = rot[q]
         /\ rot'[r].pc = "rows" /\ rot'[r].ring = rot[r].ring
<1>1. rot \in [Rotations -> Rotation] /\ rot[r] \in Rotation
  BY DEF RotationTypeOK
<1> DEFINE new == [rot[r] EXCEPT !.pc = "rows", !.todo = @ \ {rot[r].id},
                     !.failed = @ \/ failed, !.id = None,
                     !.token = NoCipher, !.secret = NoCipher]
<1>2. new \in Rotation /\ new.pc = "rows" /\ new.ring = rot[r].ring
  BY <1>1, Records DEF Rotation
<1>3. rot' = [rot EXCEPT ![r] = new]
  BY <1>1 DEF RowDone, Rotation
<1> HIDE DEF new
<1> QED
  BY <1>1, <1>2, <1>3

LEMMA EndIs ==
  ASSUME RotationTypeOK, NEW r \in Rotations, End(r)
  PROVE  /\ rot' \in [Rotations -> Rotation]
         /\ \A q \in Rotations \ {r} : rot'[q] = rot[q]
         /\ rot'[r].pc = "idle"
         /\ holder' \in Rotations \cup {None}
         /\ lock' \in [Ids -> Holders \cup {None}]
         /\ \A h \in Holders \ {r} : LocksStand(h)
         /\ \A c \in Ids : lock'[c] \in {None, lock[c]}
<1>1. rot \in [Rotations -> Rotation] /\ NoRotation \in Rotation /\ NoRotation.pc = "idle"
  BY Records DEF RotationTypeOK, NoRotation
<1>2. r \in Holders
  BY DEF Holders
<1> QED
  BY <1>1, <1>2, UnlockIs DEF End, RotationTypeOK

(* A command that changes no row.                                           *)
LEMMA CommandReads ==
  ASSUME RotationInv, NEW r \in Rotations, RotOK(r)', rot' \in [Rotations -> Rotation],
         holder' \in Rotations \cup {None}, lock' \in [Ids -> Holders \cup {None}],
         removable' \in BOOLEAN, removable' = removable \/ KeysInv',
         \A q \in Rotations \ {r} : rot'[q] = rot[q],
         \A h \in Holders \ {r} : LocksStand(h),
         \A c \in Ids : lock'[c] \in {None, lock[c]} \/ rows[c].exists,
         UNCHANGED <<rows, refs, ring, job, edits, given, env>>
  PROVE  RotationInv'
<1>1. RotationTypeOK'
  BY DEF RotationInv, RotationTypeOK, ChannelsTypeOK
<1>2. KeysGoOn
  BY RowsSame
<1>3. KeysInv'
  BY <1>1, <1>2, KeysKept DEF RotationInv
<1> QED
  BY <1>1, <1>3, RowsSame, CommandStep

(* What a command still knows of the keys and of the rows it has verified.  *)
LEMMA KnowsStill ==
  ASSUME NEW r \in Rotations, RotOK(r), rot'[r].pc \in {"rows", "verify"}, rot[r].pc # "idle",
         rot'[r].ring = rot[r].ring, UNCHANGED <<rows, ring, env>>,
         rot'[r].pc = "verify" /\ rot'[r].ring = env /\ ~rot'[r].failed =>
           \A c \in Existing \ rot'[r].todo : Readable(rows[c], {env.primary})
  PROVE  RotOK(r)'
BY DEF RotOK, Existing

LEMMA StartKeeps ==
  ASSUME RotationInv, NEW r \in Rotations, Start(r)
  PROVE  RotationInv'
<1> DEFINE new == [NoRotation EXCEPT !.pc = "rows", !.ring = env, !.todo = Existing]
<1>1. RotationTypeOK /\ env \in Keyring /\ env.primary \in Nat
  BY Constants DEF RotationInv, RotationTypeOK, Keyring, Keys
<1>2. new \in Rotation /\ new.pc = "rows" /\ new.ring = env
  BY <1>1, Records DEF NoRotation, Rotation, Existing
<1>3. /\ rot' = [rot EXCEPT ![r] = new] /\ Restarted /\ env.old /\ holder' = r
      /\ UNCHANGED <<channelVars, ring, env, removable>>
  BY DEF Start
<1> HIDE DEF new
<1>4. /\ rot' \in [Rotations -> Rotation] /\ rot'[r] = new
      /\ \A q \in Rotations \ {r} : rot'[q] = rot[q]
  BY <1>1, <1>2, <1>3 DEF RotationTypeOK
<1>5. RotOK(r)'
  BY <1>1, <1>2, <1>3, <1>4 DEF RotOK, Restarted
<1>6. /\ lock' \in [Ids -> Holders \cup {None}] /\ \A h \in Holders : LocksStand(h)
      /\ \A c \in Ids : lock'[c] = lock[c]
  BY <1>1, <1>3 DEF RotationTypeOK, ChannelsTypeOK, channelVars, LocksStand
<1> QED
  BY <1>1, <1>3, <1>4, <1>5, <1>6, CommandReads DEF channelVars, RotationTypeOK

(* A row of either pass is done with, and nothing was written.              *)
LEMMA ItemKeeps ==
  ASSUME RotationInv, NEW r \in Rotations, NEW c \in Ids, rot[r].pc \in {"rows", "verify"},
         \/ Fails(r, c)
         \/ Passes(r, c) /\ (rot[r].pc = "verify" => Verified(rows[c], rot[r].ring)),
         UNCHANGED <<channelVars, ring, env, removable, holder>>
  PROVE  RotationInv'
<1>1. RotationTypeOK /\ RotOK(r)
  BY DEF RotationInv
<1>2. /\ rot' \in [Rotations -> Rotation]
      /\ \A q \in Rotations \ {r} : rot'[q] = rot[q]
      /\ rot'[r].pc = rot[r].pc /\ rot'[r].ring = rot[r].ring
      /\ rot'[r].todo = rot[r].todo \ {c}
      /\ rot'[r].failed \/ rot'[r].failed = rot[r].failed
  BY <1>1, ItemIs
<1>3. UNCHANGED rows
  BY DEF channelVars
<1>4. Fails(r, c) => rot'[r].failed
  BY <1>1 DEF Fails, RotationTypeOK, Rotation
<1>5. ASSUME rot'[r].pc = "verify", rot'[r].ring = env, ~rot'[r].failed,
             NEW d \in Existing \ rot'[r].todo
      PROVE  Readable(rows[d], {env.primary})
  <2>1. CASE d = c
    BY <1>2, <1>4, <1>5, <2>1 DEF Verified
  <2>2. CASE d # c
    BY <1>1, <1>2, <1>5, <2>2 DEF RotOK
  <2> QED
    BY <2>1, <2>2
<1>6. RotOK(r)'
  <2>1. rot[r].pc # "idle" /\ rot'[r].pc \in {"rows", "verify"}
    BY <1>2
  <2>2. rot'[r].pc = "verify" /\ rot'[r].ring = env /\ ~rot'[r].failed =>
          \A d \in Existing \ rot'[r].todo : Readable(rows[d], {env.primary})
    BY <1>5
  <2>3. UNCHANGED <<rows, ring, env>>
    BY <1>3
  <2> QED
    BY <1>1, <1>2, <2>1, <2>2, <2>3, KnowsStill
<1>7. /\ lock' \in [Ids -> Holders \cup {None}] /\ \A h \in Holders : LocksStand(h)
      /\ \A d \in Ids : lock'[d] = lock[d]
  BY <1>1 DEF RotationTypeOK, ChannelsTypeOK, channelVars, LocksStand
<1> QED
  BY <1>1, <1>2, <1>6, <1>7, CommandReads DEF channelVars, RotationTypeOK

LEMMA ReadKeeps ==
  ASSUME RotationInv, NEW r \in Rotations, NEW c \in Ids, ReadRow(r, c)
  PROVE  RotationInv'
<1> DEFINE t == rot[r]
<1>1. /\ t.pc = "rows" /\ Free(c) /\ UNCHANGED <<rows, refs, ring, job, edits, given, env, removable, holder>>
  BY DEF ReadRow
<1>2. RotationTypeOK /\ RotOK(r) /\ rows[c] \in Row /\ t \in Rotation
  BY DEF RotationInv, RotationTypeOK, ChannelsTypeOK
<1>3. CASE (Fails(r, c) \/ Passes(r, c)) /\ UNCHANGED lock
  BY <1>1, <1>3, ItemKeeps DEF channelVars
<1>4. CASE /\ Processed(rows[c], t.ring) = "rotated"
           /\ rot' = [rot EXCEPT ![r].pc = "write", ![r].id = c,
                        ![r].token = rows[c].token, ![r].secret = rows[c].secret]
           /\ Holds(r, c)
  <2>1. /\ rows[c].exists /\ t.ring.old
        /\ t.ring.primary - 1 \in {rows[c].token.key, rows[c].secret.key}
    BY <1>1, <1>2, <1>4 DEF Processed, Readable, Opens, KeysOf, RotOK
  <2>2. /\ rot' \in [Rotations -> Rotation] /\ \A q \in Rotations \ {r} : rot'[q] = rot[q]
        /\ rot'[r].pc = "write" /\ rot'[r].id = c /\ rot'[r].ring = t.ring
        /\ rot'[r].token = rows[c].token /\ rot'[r].secret = rows[c].secret
    <3> DEFINE new == [rot[r] EXCEPT !.pc = "write", !.id = c,
                         !.token = rows[c].token, !.secret = rows[c].secret]
    <3>1. /\ new \in Rotation /\ new.pc = "write" /\ new.id = c /\ new.ring = t.ring
          /\ new.token = rows[c].token /\ new.secret = rows[c].secret
      BY <1>2 DEF Rotation, Row
    <3>2. rot \in [Rotations -> Rotation]
      BY <1>2 DEF RotationTypeOK
    <3>3. rot' = [rot EXCEPT ![r] = new]
      BY <1>2, <1>4, <3>2 DEF Rotation
    <3> HIDE DEF new
    <3> QED
      BY <3>1, <3>2, <3>3
  <2>3. /\ lock' \in [Ids -> Holders \cup {None}] /\ lock'[c] = r
        /\ \A d \in Ids \ {c} : lock'[d] = lock[d]
        /\ \A h \in Holders : LocksStand(h)
    BY <1>1, <1>2, <1>4, ChannelsAssumption
       DEF Holds, Holders, RotationTypeOK, ChannelsTypeOK, Free, LocksStand
  <2>4. RotOK(r)'
    BY <1>1, <1>2, <2>1, <2>2, <2>3 DEF RotOK
  <2>5. \A d \in Ids : lock'[d] = lock[d] \/ rows[d].exists
    BY <2>1, <2>3
  <2> QED
    BY <1>1, <1>2, <2>2, <2>3, <2>4, <2>5, CommandReads DEF RotationTypeOK
<1> QED
  BY <1>3, <1>4 DEF ReadRow

LEMMA FailKeeps ==
  ASSUME RotationInv, NEW r \in Rotations, Unlock(r), RowDone(r, TRUE), rot[r].pc = "write",
         holder' \in {holder, None}, UNCHANGED <<rows, refs, ring, job, edits, given, env, removable>>
  PROVE  RotationInv'
<1>1. RotationTypeOK /\ RotOK(r) /\ ChannelsTypeOK /\ r \in Holders
  BY DEF RotationInv, RotationTypeOK, Holders
<1>2. /\ rot' \in [Rotations -> Rotation] /\ \A q \in Rotations \ {r} : rot'[q] = rot[q]
      /\ rot'[r].pc = "rows" /\ rot'[r].ring = rot[r].ring
  BY <1>1, DoneIs
<1>3. RotOK(r)'
  <2>1. rot'[r].pc \in {"rows", "verify"} /\ rot'[r].pc # "verify" /\ rot[r].pc # "idle"
    BY <1>2
  <2> QED
    BY <1>1, <1>2, <2>1, KnowsStill
<1>4. /\ lock' \in [Ids -> Holders \cup {None}] /\ \A h \in Holders \ {r} : LocksStand(h)
      /\ \A c \in Ids : lock'[c] \in {None, lock[c]}
  BY <1>1, UnlockIs
<1> QED
  BY <1>1, <1>2, <1>3, <1>4, CommandReads DEF RotationTypeOK

LEMMA ListKeeps ==
  ASSUME RotationInv, NEW r \in Rotations, ListAgain(r)
  PROVE  RotationInv'
<1> DEFINE new == [rot[r] EXCEPT !.pc = "verify", !.todo = Existing]
<1>1. RotationTypeOK /\ RotOK(r) /\ rot[r] \in Rotation
  BY DEF RotationInv, RotationTypeOK
<1>2. new \in Rotation /\ new.pc = "verify" /\ new.ring = rot[r].ring /\ new.todo = Existing
  BY <1>1 DEF Rotation, Existing
<1>3. rot \in [Rotations -> Rotation]
  BY <1>1 DEF RotationTypeOK
<1>4. rot' = [rot EXCEPT ![r] = new]
  BY <1>1, <1>3 DEF ListAgain, Rotation
<1>5. rot[r].pc = "rows" /\ UNCHANGED <<channelVars, ring, env, removable, holder>>
  BY DEF ListAgain
<1> HIDE DEF new
<1>6. /\ rot' \in [Rotations -> Rotation] /\ rot'[r] = new
      /\ \A q \in Rotations \ {r} : rot'[q] = rot[q]
  BY <1>2, <1>3, <1>4
<1>7. RotOK(r)'
  BY <1>1, <1>2, <1>5, <1>6, KnowsStill DEF channelVars
<1>8. /\ lock' \in [Ids -> Holders \cup {None}] /\ \A h \in Holders : LocksStand(h)
      /\ \A d \in Ids : lock'[d] = lock[d]
  BY <1>1, <1>5 DEF RotationTypeOK, ChannelsTypeOK, channelVars, LocksStand
<1> QED
  BY <1>1, <1>5, <1>6, <1>7, <1>8, CommandReads DEF channelVars, RotationTypeOK

(* The row a command is about to write still needs the old key, so the      *)
(* command has the present one.                                             *)
LEMMA WritesPresentKey ==
  ASSUME RotationInv, NEW r \in Rotations, rot[r].pc = "write"
  PROVE  rot[r].ring.primary = env.primary
<1>1. rot[r] \in Rotation /\ env \in Keyring /\ RotOK(r)
  BY DEF RotationInv, RotationTypeOK
<1>2. rot[r].ring.primary \in Nat /\ env.primary \in Nat
  BY <1>1, ChannelsAssumption DEF Rotation, Keyring, Keys
<1>3. rot[r].id \in Existing /\ rot[r].ring.primary <= env.primary
  BY <1>1 DEF RotOK, Existing
<1>4. rot[r].ring.primary - 1 \in KeysOf(env)
  BY <1>1, <1>3 DEF RotOK, RotationInv, KeysInv, Readable, Opens
<1> QED
  BY <1>2, <1>3, <1>4 DEF KeysOf

LEMMA WriteKeeps ==
  ASSUME RotationInv, NEW r \in Rotations, WriteRow(r)
  PROVE  RotationInv'
<1> DEFINE t == rot[r]
<1> DEFINE c == t.id
<1> DEFINE row == Rewritten(rows[c], t)
<1>1. /\ t.pc = "write" /\ rows' = [rows EXCEPT ![c] = row] /\ Unlock(r) /\ RowDone(r, FALSE)
      /\ UNCHANGED <<refs, ring, job, edits, given, env, removable, holder>>
  BY DEF WriteRow
<1>2. /\ RotationTypeOK /\ ChannelsTypeOK /\ RotOK(r) /\ r \in Holders /\ t \in Rotation
      /\ \A d \in Ids : rows[d] \in Row
  BY DEF RotationInv, RotationTypeOK, ChannelsTypeOK, Holders
<1>3. /\ c \in Ids /\ lock[c] = r /\ rows[c].exists /\ rows[c].rev > 0
      /\ t.token = rows[c].token /\ t.secret = rows[c].secret /\ t.ring.primary = env.primary
  BY <1>1, <1>2, WritesPresentKey DEF RotOK, RotationInv, ChannelsInv
<1>4. /\ row \in Row /\ row.exists /\ row.rev = rows[c].rev
      /\ row.token.key = env.primary /\ row.secret.key = env.primary
      /\ row.token.value = rows[c].token.value /\ row.secret.value = rows[c].secret.value
  <2> HIDE DEF t, c
  <2>1. /\ row \in Row /\ row.exists = rows[c].exists /\ row.rev = rows[c].rev
        /\ row.token = [key |-> t.ring.primary, value |-> t.token.value]
        /\ row.secret = [key |-> t.ring.primary, value |-> t.secret.value]
    BY <1>2, <1>3, RewrittenIs
  <2> HIDE DEF row
  <2> QED
    BY <1>3, <2>1
<1>5. /\ rot' \in [Rotations -> Rotation] /\ \A q \in Rotations \ {r} : rot'[q] = rot[q]
      /\ rot'[r].pc = "rows" /\ rot'[r].ring = t.ring
  BY <1>1, <1>2, DoneIs
<1>6. /\ lock' \in [Ids -> Holders \cup {None}] /\ \A h \in Holders \ {r} : LocksStand(h)
      /\ \A d \in Ids : lock'[d] \in {None, lock[d]}
  BY <1>1, <1>2, UnlockIs
<1>7. RotOK(r)'
  <2>1. t.ring.old /\ t.ring.primary <= env.primary
        /\ (t.ring = env => \A p \in Processes : ring[p].primary = env.primary)
    BY <1>1, <1>2 DEF RotOK
  <2> QED
    BY <1>1, <1>5, <2>1 DEF RotOK
<1> HIDE DEF t, c, row
<1>8. rows' \in [Ids -> Row] /\ rows'[c] = row /\ \A d \in Ids \ {c} : rows'[d] = rows[d]
  BY <1>1, <1>2, <1>3, <1>4 DEF ChannelsTypeOK
<1>9. RotationTypeOK'
  BY <1>1, <1>2, <1>5, <1>6, <1>8 DEF RotationTypeOK, ChannelsTypeOK
<1>10. \A d \in Ids : rows[d].rev \in Nat /\ rows'[d].rev \in Nat
  BY <1>2, <1>8, ChannelsAssumption DEF Row
<1>11. \A h \in Holders \ {r} : RowsStand(h)
  BY <1>3, <1>8 DEF RowsStand
<1>12. RowsGoOn
  BY <1>3, <1>4, <1>8, <1>10 DEF RowsGoOn
<1>13. KeysGoOn
  BY <1>4, <1>8 DEF KeysGoOn, Primaries
<1>14. KeysInv'
  BY <1>1, <1>2, <1>9, <1>13, KeysKept DEF RotationInv
<1>15. ChannelsInv'
  BY <1>3, <1>4, <1>6, <1>8 DEF ChannelsInv, RotationInv
<1>16. Existing' = Existing
  BY <1>3, <1>4, <1>8 DEF Existing
<1>17. NoOrphans'
  BY <1>1, <1>16 DEF NoOrphans, RotationInv
<1>18. StoredIsGiven'
  BY <1>1, <1>4, <1>8, <1>16 DEF StoredIsGiven, RotationInv, Existing
<1> QED
  BY <1>1, <1>5, <1>6, <1>7, <1>9, <1>11, <1>12, <1>13, <1>14, <1>15, <1>17, <1>18, CommandStep

(* Both passes were clean: every row has the present key, and so has every  *)
(* process.                                                                 *)
LEMMA ReportKeeps ==
  ASSUME RotationInv, NEW r \in Rotations, Report(r)
  PROVE  RotationInv'
<1> DEFINE t == rot[r]
<1>1. /\ t.pc = "verify" /\ t.todo = {} /\ End(r)
      /\ removable' = (removable \/ (holder = r /\ Complete(t) /\ t.ring = env))
      /\ UNCHANGED <<rows, refs, ring, job, edits, given, env>>
  BY DEF Report
<1>2. RotationTypeOK /\ RotOK(r) /\ KeysInv
  BY DEF RotationInv
<1>3. removable \in BOOLEAN /\ removable' \in BOOLEAN
  BY <1>1, <1>2 DEF RotationTypeOK
<1>4. removable' = removable \/ KeysInv'
  <2>1. CASE Complete(t) /\ t.ring = env
    <3>1. \A c \in Existing : Readable(rows[c], {env.primary})
      BY <1>1, <1>2, <2>1 DEF Complete, RotOK
    <3>2. \A p \in Processes : ring[p].primary = env.primary
      BY <1>1, <1>2, <2>1 DEF RotOK
    <3>3. Existing' = Existing
      BY <1>1 DEF Existing
    <3> QED
      BY <1>1, <1>2, <3>1, <3>2, <3>3 DEF KeysInv
  <2>2. CASE ~(Complete(t) /\ t.ring = env)
    BY <1>1, <1>3, <2>2
  <2> QED
    BY <2>1, <2>2
<1>5. /\ rot' \in [Rotations -> Rotation] /\ \A q \in Rotations \ {r} : rot'[q] = rot[q]
      /\ rot'[r].pc = "idle" /\ holder' \in Rotations \cup {None}
      /\ lock' \in [Ids -> Holders \cup {None}] /\ \A h \in Holders \ {r} : LocksStand(h)
      /\ \A c \in Ids : lock'[c] \in {None, lock[c]}
  BY <1>1, <1>2, EndIs
<1>6. RotOK(r)'
  BY <1>5 DEF RotOK
<1> QED
  BY <1>1, <1>3, <1>4, <1>5, <1>6, CommandReads

LEMMA InterruptKeeps ==
  ASSUME RotationInv, NEW r \in Rotations, Interrupt(r)
  PROVE  RotationInv'
<1>1. End(r) /\ UNCHANGED <<rows, refs, ring, job, edits, given, env, removable>>
  BY DEF Interrupt
<1>2. RotationTypeOK
  BY DEF RotationInv
<1>3. /\ rot' \in [Rotations -> Rotation] /\ \A q \in Rotations \ {r} : rot'[q] = rot[q]
      /\ rot'[r].pc = "idle" /\ holder' \in Rotations \cup {None}
      /\ lock' \in [Ids -> Holders \cup {None}] /\ \A h \in Holders \ {r} : LocksStand(h)
      /\ \A c \in Ids : lock'[c] \in {None, lock[c]}
  BY <1>1, <1>2, EndIs
<1>4. RotOK(r)'
  BY <1>3 DEF RotOK
<1> QED
  BY <1>1, <1>2, <1>3, <1>4, CommandReads DEF RotationTypeOK

LEMMA LossKeeps ==
  ASSUME RotationInv, NEW r \in Rotations, LoseConnection(r)
  PROVE  RotationInv'
<1>1. CASE rot[r].pc = "write"
  BY <1>1, FailKeeps DEF LoseConnection
<1>2. CASE rot[r].pc # "write"
  <2>1. /\ holder' = None
        /\ UNCHANGED <<lock, rot, rows, refs, ring, job, edits, given, env, removable>>
    BY <1>2 DEF LoseConnection
  <2>2. RotationTypeOK' /\ RotOK(r)'
    BY <2>1 DEF RotationInv, RotationTypeOK, ChannelsTypeOK, RotOK, Existing
  <2>3. /\ \A h \in Holders : LocksStand(h) /\ \A c \in Ids : lock'[c] = lock[c]
    BY <2>1 DEF LocksStand
  <2> QED
    BY <2>1, <2>2, <2>3, CommandReads DEF RotationTypeOK, ChannelsTypeOK
<1> QED
  BY <1>1, <1>2

LEMMA RotateKeeps ==
  ASSUME RotationInv, NEW r \in Rotations, Rotate(r)
  PROVE  RotationInv'
<1>1. CASE WriteRow(r) \/ ListAgain(r) \/ Report(r) \/ LoseConnection(r) \/ Interrupt(r) \/ Start(r)
  BY <1>1, StartKeeps, WriteKeeps, ListKeeps, ReportKeeps, LossKeeps, InterruptKeeps
<1>2. CASE FailRow(r)
  BY <1>2, FailKeeps DEF FailRow
<1>3. ASSUME NEW c \in Ids, ReadRow(r, c) \/ VerifyRow(r, c) \/ StorageFails(r, c)
      PROVE  RotationInv'
  <2>1. CASE ReadRow(r, c)
    BY <2>1, ReadKeeps
  <2>2. CASE VerifyRow(r, c)
    <3>1. CASE Verified(rows[c], rot[r].ring)
      BY <2>2, <3>1, ItemKeeps DEF VerifyRow
    <3>2. CASE ~Verified(rows[c], rot[r].ring)
      BY <2>2, <3>2, ItemKeeps DEF VerifyRow
    <3> QED
      BY <3>1, <3>2
  <2>3. CASE StorageFails(r, c)
    BY <2>3, ItemKeeps DEF StorageFails
  <2> QED
    BY <1>3, <2>1, <2>2, <2>3
<1> QED
  BY <1>1, <1>2, <1>3 DEF Rotate

----------------------------------------------------------------------------
(* The operator *)

(* Every row has the present key when a new one comes: the one before is    *)
(* still there to read them.                                                *)
LEMMA AddKeeps ==
  ASSUME RotationInv, AddKey
  PROVE  RotationInv'
<1>1. /\ ~env.old /\ env.primary < MaxKey /\ removable' = FALSE
      /\ env' = [primary |-> env.primary + 1, old |-> TRUE]
      /\ UNCHANGED <<channelVars, ring, holder, rot>>
  BY DEF AddKey
<1>2. RotationTypeOK /\ KeysInv /\ env.primary \in Nat /\ env.primary + 1 \in Keys
  BY <1>1, ChannelsAssumption DEF RotationInv, RotationTypeOK, Keyring, Keys
<1>3. RotationTypeOK'
  BY <1>1, <1>2 DEF RotationTypeOK, ChannelsTypeOK, channelVars, Keyring
<1>4. ASSUME NEW p \in Processes
      PROVE  JobOK(p)'
  BY <1>1 DEF RotationInv, JobOK, channelVars
<1>5. ASSUME NEW r \in Rotations
      PROVE  RotOK(r)'
  <2>1. RotOK(r) /\ rot[r] \in Rotation
    BY <1>2 DEF RotationInv, RotationTypeOK
  <2>2. rot[r].ring.primary \in Nat
    BY <2>1, ChannelsAssumption DEF Rotation, Keyring, Keys
  <2>3. rot[r].pc # "idle" =>
          rot[r].ring.old /\ rot[r].ring.primary <= env.primary + 1 /\ rot[r].ring # env'
    BY <1>1, <1>2, <2>1, <2>2 DEF RotOK
  <2> QED
    BY <1>1, <2>1, <2>3 DEF RotOK, channelVars
<1>6. KeysInv'
  <2>1. /\ \A p \in Processes : ring[p].primary = env.primary
        /\ \A c \in Existing : Readable(rows[c], {env.primary})
    BY <1>1, <1>2 DEF KeysInv
  <2>2. env.primary \in KeysOf(env') /\ env'.old
    BY <1>1, <1>2 DEF KeysOf
  <2>3. Existing' = Existing
    BY <1>1 DEF Existing, channelVars
  <2> QED
    BY <1>1, <2>1, <2>2, <2>3 DEF KeysInv, Readable, Opens, channelVars
<1>7. ChannelsInv' /\ NoOrphans' /\ StoredIsGiven'
  BY <1>1 DEF RotationInv, ChannelsInv, NoOrphans, StoredIsGiven, Existing, channelVars
<1> QED
  BY <1>3, <1>4, <1>5, <1>6, <1>7 DEF RotationInv

LEMMA RemoveKeeps ==
  ASSUME RotationInv, RemoveOld
  PROVE  RotationInv'
<1>1. /\ removable /\ env.old /\ env' = [env EXCEPT !.old = FALSE]
      /\ UNCHANGED <<channelVars, ring, removable, holder, rot>>
  BY DEF RemoveOld
<1>2. RotationTypeOK /\ KeysInv /\ env'.primary = env.primary /\ env'.old = FALSE
  BY <1>1 DEF RotationInv, RotationTypeOK, Keyring
<1>3. RotationTypeOK'
  BY <1>1, <1>2 DEF RotationTypeOK, ChannelsTypeOK, channelVars, Keyring
<1>4. ASSUME NEW p \in Processes
      PROVE  JobOK(p)'
  BY <1>1 DEF RotationInv, JobOK, channelVars
<1>5. ASSUME NEW r \in Rotations
      PROVE  RotOK(r)'
  <2>1. RotOK(r)
    BY DEF RotationInv
  <2>2. rot[r].pc # "idle" => rot[r].ring # env'
    BY <1>2, <2>1 DEF RotOK
  <2> QED
    BY <1>1, <1>2, <2>1, <2>2 DEF RotOK, channelVars
<1>6. KeysInv'
  <2>1. Existing' = Existing
    BY <1>1 DEF Existing, channelVars
  <2>2. KeysOf(env') = {env.primary}
    BY <1>2 DEF KeysOf
  <2> QED
    BY <1>1, <1>2, <2>1, <2>2 DEF KeysInv, channelVars
<1>7. ChannelsInv' /\ NoOrphans' /\ StoredIsGiven'
  BY <1>1 DEF RotationInv, ChannelsInv, NoOrphans, StoredIsGiven, Existing, channelVars
<1> QED
  BY <1>3, <1>4, <1>5, <1>6, <1>7 DEF RotationInv

LEMMA RestartKeeps ==
  ASSUME RotationInv, NEW p \in Processes, Restart(p)
  PROVE  RotationInv'
<1>1. /\ ring' = [ring EXCEPT ![p] = env] /\ Unlock(p) /\ Finish(p)
      /\ UNCHANGED <<rows, refs, edits, given, env, removable, holder, rot>>
  BY DEF Restart
<1>2. RotationTypeOK /\ ChannelsTypeOK /\ p \in Holders
  BY DEF RotationInv, RotationTypeOK, Holders
<1>3. /\ job' \in [Processes -> Job] /\ job'[p] = NoWork
      /\ \A q \in Processes \ {p} : job'[q] = job[q]
  BY <1>1, <1>2, FinishIs
<1>4. JobOK(p)'
  BY <1>3 DEF JobOK, NoWork
<1>5. /\ lock' \in [Ids -> Holders \cup {None}] /\ \A h \in Holders \ {p} : LocksStand(h)
      /\ \A c \in Ids : lock'[c] \in {None, lock[c]}
  BY <1>1, <1>2, UnlockIs
<1>6. ring' \in [Processes -> Keyring]
      /\ \A q \in Processes : ring'[q].primary \in {ring[q].primary, env.primary}
  BY <1>1, <1>2 DEF RotationTypeOK, ChannelsTypeOK
<1>7. RotationTypeOK'
  BY <1>1, <1>2, <1>3, <1>5, <1>6 DEF RotationTypeOK, ChannelsTypeOK
<1> QED
  BY <1>1, <1>3, <1>4, <1>5, <1>6, <1>7, RowsSame, ProcessStep

----------------------------------------------------------------------------
(* The invariant *)

LEMMA InitKeeps ==
  ASSUME RotationInit
  PROVE  RotationInv
<1>1. rows \in [Ids -> Row] /\ job \in [Processes -> Job] /\ rot \in [Rotations -> Rotation]
  BY Records DEF RotationInit, ChannelsInit
<1>2. RotationTypeOK
  <2>1. [primary |-> 1, old |-> FALSE] \in Keyring /\ 0 \in 0..MaxEdits
    BY Constants DEF Keyring
  <2> QED
    BY <1>1, <2>1, Constants DEF RotationInit, ChannelsInit, RotationTypeOK, ChannelsTypeOK
<1>3. Existing = {} /\ \A c \in Ids : ~rows[c].exists
  BY DEF RotationInit, ChannelsInit, Existing, NoRow
<1>4. \A p \in Processes : JobOK(p)
  BY DEF RotationInit, ChannelsInit, JobOK, NoWork
<1>5. \A r \in Rotations : RotOK(r)
  BY DEF RotationInit, RotOK, NoRotation
<1>6. KeysInv
  BY <1>3 DEF RotationInit, ChannelsInit, KeysInv, KeysOf
<1>7. ChannelsInv /\ NoOrphans /\ StoredIsGiven
  BY <1>3 DEF RotationInit, ChannelsInit, ChannelsInv, NoOrphans, StoredIsGiven
<1> QED
  BY <1>2, <1>4, <1>5, <1>6, <1>7 DEF RotationInv

LEMMA NextKeeps ==
  ASSUME RotationInv, [RotationNext]_rotationVars
  PROVE  RotationInv'
<1>1. CASE UNCHANGED rotationVars
  <2>1. RotationTypeOK' /\ KeysInv' /\ ChannelsInv' /\ NoOrphans' /\ StoredIsGiven'
    BY <1>1 DEF rotationVars, RotationInv, RotationTypeOK, ChannelsTypeOK, KeysInv, ChannelsInv,
                NoOrphans, StoredIsGiven, Existing
  <2>2. (\A p \in Processes : JobOK(p)') /\ (\A r \in Rotations : RotOK(r)')
    BY <1>1 DEF rotationVars, RotationInv, JobOK, RotOK, Existing
  <2> QED
    BY <2>1, <2>2 DEF RotationInv
<1>2. CASE AddKey \/ RemoveOld
  BY <1>2, AddKeeps, RemoveKeeps
<1>3. CASE \E p \in Processes : Restart(p)
  BY <1>3, RestartKeeps
<1>4. CASE \E p \in Processes : Administer(p) /\ UNCHANGED <<env, removable, holder, rot>>
  BY <1>4, AdministerKeeps
<1>5. CASE \E r \in Rotations : Rotate(r)
  BY <1>5, RotateKeeps
<1> QED
  BY <1>1, <1>2, <1>3, <1>4, <1>5 DEF RotationNext

(* In every behaviour, whatever the commands and the requests do between    *)
(* them.                                                                    *)
THEOREM RotationInvariant == RotationSpec => []RotationInv
<1>1. RotationInit => RotationInv
  BY InitKeeps
<1>2. RotationInv /\ [RotationNext]_rotationVars => RotationInv'
  BY NextKeeps
<1> QED
  BY <1>1, <1>2, PTL DEF RotationSpec

(* Every credential stored can be decrypted with the keys of the setting,   *)
(* and with the new one alone once a command has reported that the old key  *)
(* may be removed: however many commands ran, were interrupted or lost the  *)
(* named lock (rotation.py, rotate_all).                                    *)
THEOREM KeysAlwaysSuffice == RotationSpec => []KeysSuffice
<1>1. RotationInv => KeysSuffice
  BY DEF RotationInv, KeysInv, KeysSuffice
<1> QED
  BY <1>1, RotationInvariant, PTL

(* What is stored is what the owner entered last, both parts of it, and a   *)
(* check that finds its revision again asked with the token stored now      *)
(* (rotation_repository.py, admin_services.py).                             *)
THEOREM GivenStays == RotationSpec => []GivenKept
<1>1. RotationInv => GivenKept
  BY DEF RotationInv, JobOK, GivenKept, CheckIsCurrent
<1> QED
  BY <1>1, RotationInvariant, PTL

(* No row refers to a channel that was deleted (reference_fence.py).        *)
THEOREM NeverOrphans == RotationSpec => []NoOrphans
<1>1. RotationInv => NoOrphans
  BY DEF RotationInv
<1> QED
  BY <1>1, RotationInvariant, PTL

(* Every variable keeps its type.                                           *)
THEOREM RotationTypes == RotationSpec => []RotationTypeOK
<1>1. RotationInv => RotationTypeOK
  BY DEF RotationInv
<1> QED
  BY <1>1, RotationInvariant, PTL
=============================================================================
