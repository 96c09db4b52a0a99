-------------------------- MODULE FriendshipProofs --------------------------
(***************************************************************************)
(* Whatever is handed over how often and in which order, the recipient      *)
(* shows the newest event it was told of, and an event has one effect       *)
(* (module FriendshipSync), for any number of workers, requests, events,    *)
(* recipients and links.  The two need each other: that an event is the     *)
(* newest is told from the key in the row, and that it has no second effect *)
(* from the same key.                                                       *)
(***************************************************************************)
EXTENDS FriendshipSync, TLAPS

HandlersOK ==
  /\ handler \in [Handlers -> [pc : {"fenced"}, event : Event] \cup {Idle}]
  /\ \A h \in Handlers : handler[h].pc = "fenced" => handler[h].event \in Happened

EventsOK ==
  /\ now \in 0 .. MaxNow
  /\ history \in Seq(Event)
  /\ \A e, f \in Happened : e.id = f.id => e = f

RowOK ==
  /\ rows \in Nat
  /\ row # NoRow =>
       /\ row = [number |-> row.number, created_at |-> row.created_at, state |-> row.state,
                 last |-> row.last, registered |-> row.registered, fetched |-> row.fetched]
       /\ row.number \in 1 .. rows /\ row.created_at \in 0 .. MaxNow

(* An audit row is of an event that happened, and of a recipient that was.  *)
AuditsOK ==
  \A a \in BagToSet(audits) :
    /\ a.row \in 0 .. rows
    /\ \E e \in Happened : e.id = a.id

FriendshipInv ==
  /\ HandlersOK /\ EventsOK /\ RowOK /\ AuditsOK
  /\ NewestWins /\ EffectOnce

----------------------------------------------------------------------------
(* Events and their order *)

LEMMA EventIs ==
  ASSUME NEW e \in Event
  PROVE  e.at \in Nat /\ e.id \in Nat
<1>1. e.at \in 0 .. MaxNow /\ e.id \in Ids
  BY DEF Event
<1>2. Ids \subseteq Nat /\ 0 .. MaxNow \subseteq Nat
  BY FriendshipAssumption
<1>3. e.at \in Nat
  BY <1>1, <1>2
<1>4. e.id \in Nat
  BY <1>1, <1>2
<1> QED
  BY <1>3, <1>4

LEMMA EventsAre ==
  ASSUME EventsOK
  PROVE  /\ Happened \subseteq Event /\ Mine \subseteq Happened
         /\ \A e \in Happened : e.at \in Nat /\ e.id \in Nat
<1>1. Happened \subseteq Event
  BY DEF EventsOK, Happened
<1> QED
  BY <1>1, EventIs DEF Mine

LEMMA PrecedesIsOrder ==
  ASSUME NEW d \in Event, NEW e \in Event, NEW f \in Event
  PROVE  /\ Precedes(KeyOf(d), KeyOf(e)) /\ Precedes(KeyOf(e), KeyOf(f))
              => Precedes(KeyOf(d), KeyOf(f))
         /\ d.id # e.id => Precedes(KeyOf(d), KeyOf(e)) \/ Precedes(KeyOf(e), KeyOf(d))
         /\ ~(Precedes(KeyOf(d), KeyOf(e)) /\ Precedes(KeyOf(e), KeyOf(d)))
         /\ KeyOf(d) # NoKey
<1>1. \A g \in {d, e, f} : g.at \in Nat /\ g.id \in Nat
  BY EventIs
<1> QED
  BY <1>1 DEF Precedes, KeyOf, NoKey

(* What the history becomes when an event happens.                          *)
LEMMA HappenedIs ==
  ASSUME EventsOK, NEW e \in Event, history' = Append(history, e)
  PROVE  /\ history' \in Seq(Event)
         /\ Happened' = Happened \cup {e}
<1>1. history \in Seq(Event)
  BY DEF EventsOK
<1>2. history' \in Seq(Event) /\ Len(history') = Len(history) + 1 /\ Len(history) \in Nat
  BY <1>1
<1>3. \A i \in 1 .. Len(history) : history'[i] = history[i]
  BY <1>1
<1>4. history'[Len(history) + 1] = e
  BY <1>1
<1>5. DOMAIN history = 1 .. Len(history) /\ DOMAIN history' = 1 .. (Len(history) + 1)
  BY <1>1, <1>2
<1>6. \A i \in DOMAIN history' : history'[i] \in Happened \cup {e}
  BY <1>2, <1>3, <1>4, <1>5 DEF Happened
<1>7. \A i \in DOMAIN history : history[i] \in Happened'
  BY <1>2, <1>3, <1>5 DEF Happened
<1>8. e \in Happened'
  <2>1. Len(history) + 1 \in DOMAIN history'
    BY <1>2, <1>5
  <2> QED
    BY <1>4, <2>1 DEF Happened
<1> QED
  BY <1>2, <1>6, <1>7, <1>8 DEF Happened

----------------------------------------------------------------------------
(* Steps that record nothing *)

LEMMA QuietKeeps ==
  ASSUME FriendshipInv, UNCHANGED <<history, row, rows, audits>>,
         now' \in 0 .. MaxNow, HandlersOK'
  PROVE  FriendshipInv'
<1>1. Happened' = Happened /\ Mine' = Mine /\ Effective' = Effective
  BY DEF Happened, Mine, Effective
<1>2. Heard' = Heard
  BY <1>1 DEF Heard
<1>3. EventsOK' /\ RowOK' /\ AuditsOK'
  BY <1>1 DEF FriendshipInv, EventsOK, RowOK, AuditsOK
<1>4. NewestWins' /\ EffectOnce'
  BY <1>1, <1>2 DEF FriendshipInv, NewestWins, EffectOnce
<1> QED
  BY <1>3, <1>4 DEF FriendshipInv

LEMMA HappeningKeeps ==
  ASSUME FriendshipInv, NEW e \in Event, NewId(e.id), history' = Append(history, e),
         UNCHANGED <<now, row, rows, audits, handler>>
  PROVE  FriendshipInv'
<1>1. history' \in Seq(Event) /\ Happened' = Happened \cup {e} /\ Happened \subseteq Event
  BY HappenedIs, EventsAre DEF FriendshipInv
<1>2. \A f \in Happened : f.id # e.id
  BY DEF NewId
<1>3. EventsOK'
  BY <1>1, <1>2 DEF FriendshipInv, EventsOK
<1>4. HandlersOK' /\ RowOK' /\ AuditsOK'
  BY <1>1 DEF FriendshipInv, HandlersOK, RowOK, AuditsOK
<1>5. (\A a \in BagToSet(audits) : a.id # e.id) /\ Effective' = Effective
  BY <1>2 DEF FriendshipInv, AuditsOK, Effective
<1>6. Heard' = Heard
  BY <1>1, <1>5 DEF Heard, Mine
<1>7. NewestWins' /\ EffectOnce'
  BY <1>5, <1>6 DEF FriendshipInv, NewestWins, EffectOnce
<1> QED
  BY <1>3, <1>4, <1>7 DEF FriendshipInv

LEMMA RemovalKeeps ==
  ASSUME FriendshipInv, row' = NoRow, UNCHANGED <<now, history, rows, audits, handler>>
  PROVE  FriendshipInv'
<1>1. Happened' = Happened
  BY DEF Happened
<1>2. HandlersOK' /\ EventsOK' /\ RowOK' /\ AuditsOK'
  BY <1>1 DEF FriendshipInv, HandlersOK, EventsOK, RowOK, AuditsOK
<1> QED
  BY <1>2 DEF FriendshipInv, NewestWins, EffectOnce, Effective

(* Nothing was recorded of a recipient that is new.                         *)
LEMMA CreationKeeps ==
  ASSUME FriendshipInv, NEW c, row' = NewRecipient(c), rows' = rows + 1,
         UNCHANGED <<now, history, audits, handler>>
  PROVE  FriendshipInv'
<1>1. Happened' = Happened /\ rows \in Nat /\ now \in 0 .. MaxNow
  BY DEF Happened, FriendshipInv, RowOK, EventsOK
<1>2. HandlersOK' /\ EventsOK' /\ RowOK' /\ AuditsOK'
  BY <1>1 DEF FriendshipInv, HandlersOK, EventsOK, RowOK, AuditsOK, NewRecipient
<1>3. Heard' = {}
  BY <1>1 DEF Heard, FriendshipInv, AuditsOK, NewRecipient
<1>4. NewestWins'
  BY <1>3 DEF NewestWins, NewRecipient
<1> QED
  BY <1>2, <1>4 DEF FriendshipInv, EffectOnce, Effective

----------------------------------------------------------------------------
(* Steps that record something *)

(* A row more is in the table, perhaps one of which it had copies before.   *)
LEMMA RecordAdds ==
  ASSUME NEW e, NEW outcome, NEW number, NEW new, Record(e, outcome, number),
         new = [id |-> e.id, outcome |-> outcome, row |-> number]
  PROVE  /\ BagToSet(audits)' = BagToSet(audits) \cup {new}
         /\ \A a \in BagToSet(audits) \ {new} : audits'[a] = audits[a]
         /\ new \notin BagToSet(audits) => audits'[new] = 1
         /\ new.id = e.id /\ new.outcome = outcome /\ new.row = number
<1>1. audits' = BagAdd(audits, new)
  BY DEF Record
<1>2. CASE new \in DOMAIN audits
  <2>1. audits' = [x \in DOMAIN audits |-> IF x = new THEN audits[x] + 1 ELSE audits[x]]
    BY <1>1, <1>2 DEF BagAdd
  <2>2. DOMAIN audits' = DOMAIN audits /\ \A a \in DOMAIN audits \ {new} : audits'[a] = audits[a]
    BY <2>1
  <2> QED
    BY <1>2, <2>2 DEF BagToSet
<1>3. CASE new \notin DOMAIN audits
  <2>1. audits' = [x \in DOMAIN audits \cup {new} |-> IF x = new THEN 1 ELSE audits[x]]
    BY <1>1, <1>3 DEF BagAdd
  <2>2. /\ DOMAIN audits' = DOMAIN audits \cup {new} /\ audits'[new] = 1
        /\ \A a \in DOMAIN audits : audits'[a] = audits[a]
    BY <1>3, <2>1
  <2> QED
    BY <1>3, <2>2 DEF BagToSet
<1> QED
  BY <1>2, <1>3

(* A row that says nothing was done leaves the effects alone.               *)
LEMMA NothingDone ==
  ASSUME EffectOnce, NEW e, NEW outcome, NEW number, Record(e, outcome, number),
         outcome \notin {"applied", "state_maintained"}
  PROVE  EffectOnce'
<1> DEFINE new == [id |-> e.id, outcome |-> outcome, row |-> number]
<1>0. new = [id |-> e.id, outcome |-> outcome, row |-> number]
  OBVIOUS
<1> HIDE DEF new
<1>1. /\ BagToSet(audits)' = BagToSet(audits) \cup {new}
      /\ \A a \in BagToSet(audits) \ {new} : audits'[a] = audits[a]
      /\ new.outcome = outcome
  BY <1>0, RecordAdds
<1>2. Effective' = Effective /\ new \notin Effective
  BY <1>1 DEF Effective
<1>3. \A a \in Effective : audits'[a] = audits[a]
  BY <1>1, <1>2 DEF Effective
<1> QED
  BY <1>2, <1>3 DEF EffectOnce

(* An audit row that names no recipient.                                    *)
LEMMA StrayKeeps ==
  ASSUME FriendshipInv, NEW e \in Happened, Record(e, "not_projected", 0),
         UNCHANGED <<now, history, row, rows>>, HandlersOK'
  PROVE  FriendshipInv'
<1> DEFINE new == [id |-> e.id, outcome |-> "not_projected", row |-> 0]
<1>1. BagToSet(audits)' = BagToSet(audits) \cup {new} /\ new.id = e.id /\ new.row = 0
  BY RecordAdds
<1> HIDE DEF new
<1>2. Happened' = Happened /\ rows \in Nat
  BY DEF Happened, FriendshipInv, RowOK
<1>3. EventsOK' /\ RowOK'
  BY <1>2 DEF FriendshipInv, EventsOK, RowOK
<1>4. AuditsOK'
  BY <1>1, <1>2 DEF FriendshipInv, AuditsOK
<1>5. row # NoRow => Heard' = Heard
  <2>1. row # NoRow => row.number # 0
    BY <1>2 DEF FriendshipInv, RowOK
  <2> QED
    BY <1>1, <1>2, <2>1 DEF Heard, Mine
<1>6. NewestWins'
  BY <1>5 DEF FriendshipInv, NewestWins
<1>7. EffectOnce'
  BY NothingDone DEF FriendshipInv
<1> QED
  BY <1>3, <1>4, <1>6, <1>7 DEF FriendshipInv

(* What the decision says of an event: that it is not to count, that it is  *)
(* heard already or older than another, or that it is the newest.           *)
LEMMA DecisionIs ==
  ASSUME FriendshipInv, row # NoRow, NEW e \in Mine
  PROVE  \/ Decision(e) \notin {"applied", "state_maintained"} /\ e.at <= row.created_at
         \/ /\ Decision(e) \notin {"applied", "state_maintained"} /\ e.at > row.created_at
            /\ Heard # {}
            /\ \E f \in Heard : row.last = KeyOf(f) /\ (e = f \/ Precedes(KeyOf(e), KeyOf(f)))
         \/ /\ Decision(e) \in {"applied", "state_maintained"} /\ e.at > row.created_at
            /\ \A f \in Heard : f # e /\ Precedes(KeyOf(f), KeyOf(e))
<1>1. e \in Event /\ e \in Happened /\ Heard \subseteq Happened /\ Heard \subseteq Event
      /\ e.at \in Nat /\ row.created_at \in Nat
  BY EventsAre, EventIs, FriendshipAssumption DEF FriendshipInv, RowOK, Heard, Mine
<1>2. CASE e.at <= row.created_at
  BY <1>2 DEF Decision
<1>3. CASE e.at > row.created_at /\ Heard = {}
  <2>1. row.last = NoKey
    BY <1>3 DEF FriendshipInv, NewestWins
  <2> QED
    BY <1>1, <1>3, <2>1 DEF Decision
<1>4. CASE e.at > row.created_at /\ Heard # {}
  <2>1. PICK f \in Heard : /\ \A g \in Heard \ {f} : Precedes(KeyOf(g), KeyOf(f))
                           /\ row.last = KeyOf(f)
    BY <1>4 DEF FriendshipInv, NewestWins
  <2>2. f \in Event /\ f \in Happened /\ row.last # NoKey /\ row.last.id = f.id
    BY <1>1, <2>1, PrecedesIsOrder DEF KeyOf
  <2>3. CASE f.id = e.id
    <3>1. f = e
      BY <1>1, <2>2, <2>3 DEF FriendshipInv, EventsOK
    <3>2. Decision(e) = "duplicate"
      BY <1>1, <1>4, <2>2, <2>3 DEF Decision
    <3> QED
      BY <1>4, <2>1, <3>1, <3>2
  <2>4. CASE f.id # e.id /\ ~Precedes(row.last, KeyOf(e))
    <3>1. Decision(e) = "stale"
      BY <1>1, <1>4, <2>2, <2>4 DEF Decision
    <3>2. Precedes(KeyOf(e), KeyOf(f))
      BY <1>1, <2>1, <2>2, <2>4, PrecedesIsOrder
    <3> QED
      BY <1>4, <2>1, <3>1, <3>2
  <2>5. CASE f.id # e.id /\ Precedes(row.last, KeyOf(e))
    <3>1. Decision(e) \in {"applied", "state_maintained"}
      BY <1>1, <1>4, <2>2, <2>5 DEF Decision
    <3>2. ASSUME NEW g \in Heard
          PROVE  g # e /\ Precedes(KeyOf(g), KeyOf(e))
      <4>1. CASE g = f
        BY <2>1, <2>5, <4>1
      <4>2. CASE g # f
        <5>1. g \in Event /\ Precedes(KeyOf(g), KeyOf(f)) /\ Precedes(KeyOf(f), KeyOf(e))
          BY <1>1, <2>1, <2>5, <4>2
        <5>2. Precedes(KeyOf(g), KeyOf(e))
          BY <1>1, <2>2, <5>1, PrecedesIsOrder
        <5>3. g # e
          BY <2>2, <5>1, PrecedesIsOrder
        <5> QED
          BY <5>2, <5>3
      <4> QED
        BY <4>1, <4>2
    <3> QED
      BY <1>4, <3>1, <3>2
  <2> QED
    BY <2>3, <2>4, <2>5
<1> QED
  BY <1>1, <1>2, <1>3, <1>4

(* An event that is projected onto the recipient, whatever is decided.      *)
LEMMA ProjectionKeeps ==
  ASSUME FriendshipInv, row # NoRow, NEW e \in Mine,
         row' = Applied(e, Decision(e)), Record(e, Decision(e), row.number),
         UNCHANGED <<now, history, rows>>, HandlersOK'
  PROVE  FriendshipInv'
<1> DEFINE d == Decision(e)
<1> DEFINE new == [id |-> e.id, outcome |-> d, row |-> row.number]
<1>1. /\ BagToSet(audits)' = BagToSet(audits) \cup {new}
      /\ \A a \in BagToSet(audits) \ {new} : audits'[a] = audits[a]
      /\ new \notin BagToSet(audits) => audits'[new] = 1
      /\ new.id = e.id /\ new.row = row.number /\ new.outcome = d
  BY RecordAdds
<1>2. row' = IF d \in {"applied", "state_maintained"}
             THEN [row EXCEPT !.state = e.kind, !.last = KeyOf(e)] ELSE row
  BY DEF Applied
<1>3. \/ d \notin {"applied", "state_maintained"} /\ e.at <= row.created_at
      \/ /\ d \notin {"applied", "state_maintained"} /\ e.at > row.created_at
         /\ Heard # {}
         /\ \E f \in Heard : row.last = KeyOf(f) /\ (e = f \/ Precedes(KeyOf(e), KeyOf(f)))
      \/ /\ d \in {"applied", "state_maintained"} /\ e.at > row.created_at
         /\ \A f \in Heard : f # e /\ Precedes(KeyOf(f), KeyOf(e))
  BY DecisionIs
<1> HIDE DEF d, new
<1>4. /\ row'.number = row.number /\ row'.created_at = row.created_at
      /\ row'.registered = row.registered
      /\ row' = [number |-> row'.number, created_at |-> row'.created_at, state |-> row'.state,
                 last |-> row'.last, registered |-> row'.registered, fetched |-> row'.fetched]
      /\ row' # NoRow
  BY <1>2 DEF FriendshipInv, RowOK, NoRow
<1>5. Happened' = Happened /\ Mine' = Mine /\ e \in Happened
  BY DEF Happened, Mine
<1>6. EventsOK' /\ RowOK' /\ AuditsOK'
  <2>1. EventsOK' /\ RowOK'
    BY <1>4, <1>5 DEF FriendshipInv, EventsOK, RowOK
  <2>2. row.number \in 0 .. rows
    BY DEF FriendshipInv, RowOK
  <2>3. AuditsOK'
    BY <1>1, <1>5, <2>2 DEF FriendshipInv, AuditsOK
  <2> QED
    BY <2>1, <2>3
<1>7. Heard' = IF e.at > row.created_at THEN Heard \cup {e} ELSE Heard
  <2>1. ASSUME NEW f \in Mine, f.id = e.id
        PROVE  f = e
    BY <2>1, EventsAre DEF FriendshipInv, EventsOK, Mine
  <2>2. \A f \in Mine : (\E a \in BagToSet(audits)' : a.id = f.id /\ a.row = row.number)
                          <=> f = e \/ \E a \in BagToSet(audits) : a.id = f.id /\ a.row = row.number
    BY <1>1, <2>1
  <2> QED
    BY <1>4, <1>5, <2>2 DEF Heard
<1>8. NewestWins'
  <2>1. CASE e.at <= row.created_at
    <3>1. Heard' = Heard /\ row' = row
      <4>1. e.at \in Nat /\ row.created_at \in Nat
        BY <1>5, EventsAre, FriendshipAssumption DEF FriendshipInv, RowOK
      <4> QED
        BY <1>2, <1>3, <1>7, <2>1, <4>1
    <3> QED
      BY <3>1 DEF FriendshipInv, NewestWins
  <2>2. CASE d \notin {"applied", "state_maintained"} /\ e.at > row.created_at
    <3>1. row' = row /\ Heard' = Heard \cup {e}
      BY <1>2, <1>7, <2>2
    <3>2. PICK f \in Heard : row.last = KeyOf(f) /\ (e = f \/ Precedes(KeyOf(e), KeyOf(f)))
      BY <1>3, <2>2, <1>5, EventsAre, FriendshipAssumption DEF FriendshipInv, RowOK
    <3>3. PICK g \in Heard : /\ \A h \in Heard \ {g} : Precedes(KeyOf(h), KeyOf(g))
                             /\ row.last = KeyOf(g) /\ row.state = g.kind
      BY <3>2 DEF FriendshipInv, NewestWins
    <3>4. f = g
      BY <3>2, <3>3, EventsAre DEF KeyOf, FriendshipInv, EventsOK, Heard, Mine
    <3>5. \A h \in (Heard \cup {e}) \ {g} : Precedes(KeyOf(h), KeyOf(g))
      BY <3>2, <3>3, <3>4
    <3> QED
      BY <3>1, <3>3, <3>5 DEF NewestWins
  <2>3. CASE d \in {"applied", "state_maintained"} /\ e.at > row.created_at
    <3>1. row'.state = e.kind /\ row'.last = KeyOf(e)
      BY <1>2, <2>3 DEF FriendshipInv, RowOK
    <3>2. Heard' = Heard \cup {e} /\ \A f \in Heard : Precedes(KeyOf(f), KeyOf(e))
      BY <1>3, <1>7, <2>3
    <3> QED
      BY <3>1, <3>2 DEF NewestWins
  <2> QED
    BY <1>3, <2>1, <2>2, <2>3
<1>9. EffectOnce'
  <2>1. CASE d \notin {"applied", "state_maintained"}
    BY <2>1, NothingDone DEF FriendshipInv, d
  <2>2. CASE d \in {"applied", "state_maintained"}
    <3>1. \A a \in BagToSet(audits) : ~(a.id = e.id /\ a.row = row.number)
      <4>1. e.at > row.created_at /\ \A f \in Heard : f # e
        BY <1>3, <2>2
      <4> QED
        BY <4>1 DEF Heard
    <3>2. new \notin BagToSet(audits) /\ audits'[new] = 1
      BY <1>1, <3>1
    <3>3. Effective' = Effective \cup {new}
      BY <1>1, <2>2 DEF Effective
    <3>4. \A a \in Effective : /\ a # new /\ audits'[a] = audits[a]
                              /\ ~(a.id = new.id /\ a.row = new.row)
      BY <1>1, <3>1, <3>2 DEF Effective
    <3> QED
      BY <3>2, <3>3, <3>4 DEF FriendshipInv, EffectOnce
  <2> QED
    BY <2>1, <2>2
<1> QED
  BY <1>6, <1>8, <1>9 DEF FriendshipInv

----------------------------------------------------------------------------
(* The workers *)

LEMMA HandlerIs ==
  ASSUME FriendshipInv, NEW h \in Handlers, UNCHANGED history,
         \/ handler' = [handler EXCEPT ![h] = Idle]
         \/ \E e \in Happened : handler' = [handler EXCEPT ![h] = [pc |-> "fenced", event |-> e]]
  PROVE  HandlersOK'
<1>1. Happened' = Happened /\ Happened \subseteq Event
  BY EventsAre DEF Happened, FriendshipInv
<1>2. handler \in [Handlers -> [pc : {"fenced"}, event : Event] \cup {Idle}]
  BY DEF FriendshipInv, HandlersOK
<1>3. CASE handler' = [handler EXCEPT ![h] = Idle]
  BY <1>1, <1>2, <1>3 DEF FriendshipInv, HandlersOK, Idle
<1>4. ASSUME NEW e \in Happened, handler' = [handler EXCEPT ![h] = [pc |-> "fenced", event |-> e]]
      PROVE  HandlersOK'
  <2>1. [pc |-> "fenced", event |-> e] \in [pc : {"fenced"}, event : Event]
    BY <1>1
  <2> QED
    BY <1>1, <1>2, <1>4, <2>1 DEF FriendshipInv, HandlersOK
<1> QED
  BY <1>3, <1>4

LEMMA HandlerKeeps ==
  ASSUME FriendshipInv, NEW h \in Handlers, HandlerStep(h)
  PROVE  FriendshipInv'
<1>1. now \in 0 .. MaxNow /\ HandlersOK /\ (UNCHANGED <<history, handler>> => HandlersOK')
  BY DEF FriendshipInv, EventsOK, HandlersOK, Happened
<1>2. CASE RecordNonUpdate(h)
  <2>1. PICK e \in Happened : Record(e, "not_projected", 0)
    BY <1>2 DEF RecordNonUpdate, Delivered
  <2> QED
    BY <1>1, <1>2, <2>1, StrayKeeps DEF RecordNonUpdate
<1>3. CASE LockReference(h)
  <2>1. HandlersOK'
    BY <1>3, HandlerIs DEF LockReference, Delivered
  <2> QED
    BY <1>1, <1>3, <2>1, QuietKeeps DEF LockReference
<1>4. CASE Fail(h)
  <2>1. HandlersOK'
    BY <1>4, HandlerIs DEF Fail
  <2> QED
    BY <1>1, <1>4, <2>1, QuietKeeps DEF Fail
<1>5. CASE Project(h)
  <2> DEFINE e == handler[h].event
  <2>1. e \in Happened
    BY <1>1, <1>5 DEF Project, HandlersOK
  <2>2. HandlersOK'
    BY <1>5, HandlerIs DEF Project
  <2>3. CASE Target(e)
    <3>1. e \in Mine /\ row # NoRow
      BY <2>1, <2>3 DEF Target, Mine
    <3>2. /\ row' = Applied(e, Decision(e)) /\ Record(e, Decision(e), row.number)
          /\ UNCHANGED <<now, history, rows>>
      BY <1>5, <2>3 DEF Project
    <3> QED
      BY <2>2, <3>1, <3>2, ProjectionKeeps
  <2>4. CASE ~Target(e)
    <3>1. Record(e, "not_projected", 0) /\ UNCHANGED <<now, history, row, rows>>
      BY <1>5, <2>4 DEF Project
    <3> QED
      BY <2>1, <2>2, <3>1, StrayKeeps
  <2> QED
    BY <2>3, <2>4
<1> QED
  BY <1>2, <1>3, <1>4, <1>5 DEF HandlerStep

----------------------------------------------------------------------------
(* The requests, the owner and the clock *)

LEMMA ClientKeeps ==
  ASSUME FriendshipInv, NEW c \in Clients, ClientStep(c)
  PROVE  FriendshipInv'
<1>1. now \in 0 .. MaxNow /\ (UNCHANGED <<history, handler>> => HandlersOK')
  BY DEF FriendshipInv, EventsOK, HandlersOK, Happened
<1>2. CASE \/ \E op \in Ops : Submit(c, op)
           \/ LockOwner(c) \/ NothingThere(c) \/ Ask(c) \/ Abandon(c)
  BY <1>1, <1>2, QuietKeeps DEF Submit, LockOwner, NothingThere, Ask, Abandon
<1>3. CASE Mutate(c)
  <2>1. UNCHANGED <<now, history, rows, audits, handler>> /\ row' \in {row, NoRow}
    BY <1>3 DEF Mutate
  <2>2. CASE row' = row
    BY <1>1, <2>1, <2>2, QuietKeeps
  <2>3. CASE row' = NoRow
    BY <2>1, <2>3, RemovalKeeps
  <2> QED
    BY <2>1, <2>2, <2>3
<1>4. CASE Create(c)
  <2>1. UNCHANGED <<now, history, audits, handler>>
    BY <1>4 DEF Create
  <2>2. CASE row' = NewRecipient(c) /\ rows' = rows + 1
    BY <2>1, <2>2, CreationKeeps
  <2>3. CASE UNCHANGED <<row, rows>>
    BY <1>1, <2>1, <2>3, QuietKeeps
  <2> QED
    BY <1>4, <2>2, <2>3 DEF Create
<1> QED
  BY <1>2, <1>3, <1>4 DEF ClientStep

LEMMA OthersKeep ==
  ASSUME FriendshipInv,
         \/ \E id \in Ids : Change(id) \/ Stray(id)
         \/ Tick \/ BeginUnlink \/ FinalizeUnlink \/ LinkAgain
  PROVE  FriendshipInv'
<1>1. now \in 0 .. MaxNow /\ (UNCHANGED <<history, handler>> => HandlersOK')
  BY DEF FriendshipInv, EventsOK, HandlersOK, Happened
<1>2. ASSUME NEW id \in Ids, Change(id)
      PROVE  FriendshipInv'
  <2> DEFINE e == [id |-> id, at |-> now, kind |-> relation', mine |-> TRUE]
  <2>1. e \in Event /\ e.id = id
    BY <1>1, <1>2 DEF Change, Event
  <2>2. NewId(id) /\ history' = Append(history, e) /\ UNCHANGED <<now, row, rows, audits, handler>>
    BY <1>2 DEF Change
  <2> HIDE DEF e
  <2> QED
    BY <2>1, <2>2, HappeningKeeps
<1>3. ASSUME NEW id \in Ids, Stray(id)
      PROVE  FriendshipInv'
  <2> DEFINE e == [id |-> id, at |-> now, kind |-> "friend", mine |-> FALSE]
  <2>1. e \in Event /\ e.id = id
    BY <1>1 DEF Event
  <2>2. NewId(id) /\ history' = Append(history, e) /\ UNCHANGED <<now, row, rows, audits, handler>>
    BY <1>3 DEF Stray
  <2> HIDE DEF e
  <2> QED
    BY <2>1, <2>2, HappeningKeeps
<1>4. CASE Tick
  <2>1. now + 1 \in 0 .. MaxNow
    BY <1>1, <1>4, FriendshipAssumption DEF Tick
  <2> QED
    BY <1>1, <1>4, <2>1, QuietKeeps DEF Tick
<1>5. CASE BeginUnlink \/ LinkAgain
  BY <1>1, <1>5, QuietKeeps DEF BeginUnlink, LinkAgain
<1>6. CASE FinalizeUnlink
  BY <1>6, RemovalKeeps DEF FinalizeUnlink
<1> QED
  BY <1>2, <1>3, <1>4, <1>5, <1>6

----------------------------------------------------------------------------
(* The invariant *)

(* In every behaviour, however events are delayed, repeated and reordered.  *)
THEOREM FriendshipInvariant == Spec => []FriendshipInv
<1>1. Init => FriendshipInv
  <2> SUFFICES ASSUME Init
               PROVE  FriendshipInv
    OBVIOUS
  <2>1. history = <<>> /\ Happened = {} /\ row = NoRow /\ rows = 0 /\ now = 0
        /\ BagToSet(audits) = {}
    BY DEF Init, Happened, BagToSet, EmptyBag, SetToBag
  <2>2. HandlersOK
    BY DEF Init, HandlersOK, Idle
  <2> QED
    BY <2>1, <2>2, FriendshipAssumption
       DEF FriendshipInv, EventsOK, RowOK, AuditsOK, NewestWins, EffectOnce, Effective
<1>2. FriendshipInv /\ [Next]_vars => FriendshipInv'
  <2> SUFFICES ASSUME FriendshipInv, [Next]_vars
               PROVE  FriendshipInv'
    OBVIOUS
  <2>1. CASE UNCHANGED vars
    <3>1. now' \in 0 .. MaxNow /\ HandlersOK'
      BY <2>1 DEF vars, FriendshipInv, EventsOK, HandlersOK, Happened
    <3> QED
      BY <2>1, <3>1, QuietKeeps DEF vars
  <2>2. CASE Next
    BY <2>2, HandlerKeeps, ClientKeeps, OthersKeep DEF Next
  <2> QED
    BY <2>1, <2>2
<1> QED
  BY <1>1, <1>2, PTL DEF Spec

(* The recipient shows the newest event it was told of, in whatever order   *)
(* events are handed over (linefriendships, decide_projection).             *)
THEOREM ShowsTheNewest == Spec => []NewestWins
<1>1. FriendshipInv => NewestWins
  BY DEF FriendshipInv
<1> QED
  BY <1>1, FriendshipInvariant, PTL

(* An event changes or confirms a recipient at most once, however often it  *)
(* is handed over (linefriendships, handle).                                *)
THEOREM EffectIsOnce == Spec => []EffectOnce
<1>1. FriendshipInv => EffectOnce
  BY DEF FriendshipInv
<1> QED
  BY <1>1, FriendshipInvariant, PTL

----------------------------------------------------------------------------
(* What LINE holds *)

MineUpTo(n) == {e \in Happened : \E i \in 1 .. n : e = history[i] /\ e.mine}

(* What LINE held the owner to be after the first n events.                 *)
LineHeld(n, state) ==
  \/ state = Initially /\ \A i \in 1 .. n : ~history[i].mine
  \/ \E i \in 1 .. n :
       /\ history[i].mine /\ state = history[i].kind
       /\ \A j \in i + 1 .. n : ~history[j].mine

(* LINE was asked after some of the events, at the time t at the latest.    *)
AskedOK(seen, fetched, t) ==
  /\ \A e \in fetched : e.at <= t
  /\ \E n \in 0 .. Len(history) :
       /\ fetched = MineUpTo(n)
       /\ IF Direct THEN LineHeld(n, seen) ELSE seen = "unknown"

ClientOK(c) ==
  client[c] = Idle \/
  client[c] = [pc |-> client[c].pc, op |-> client[c].op, identity |-> client[c].identity,
               seen |-> client[c].seen, fetched |-> client[c].fetched]

RequestOK(c) ==
  client[c].pc \in {"create", "creating"} => AskedOK(client[c].seen, client[c].fetched, now)

LineInv ==
  /\ client = [c \in Clients |-> client[c]]
  /\ \A c \in Clients : ClientOK(c) /\ RequestOK(c)
  /\ row # NoRow => AskedOK(row.registered, row.fetched, row.created_at)
  /\ \A e \in Happened : e.at <= now
  /\ LineHeld(Len(history), relation)

(* Requests and rows stay as they are, whatever happens.                    *)
LEMMA AskedStays ==
  ASSUME EventsOK, NEW e \in Event, history' = Append(history, e),
         NEW seen, NEW fetched, NEW t, AskedOK(seen, fetched, t)
  PROVE  AskedOK(seen, fetched, t)'
<1>1. history \in Seq(Event) /\ Len(history) \in Nat /\ Len(history') = Len(history) + 1
  BY DEF EventsOK
<1>2. \A i \in 1 .. Len(history) : history'[i] = history[i]
  BY <1>1
<1>3. Happened' = Happened \cup {e}
  BY HappenedIs
<1>4. PICK n \in 0 .. Len(history) :
        /\ fetched = MineUpTo(n)
        /\ IF Direct THEN LineHeld(n, seen) ELSE seen = "unknown"
  BY DEF AskedOK
<1>5. \A i \in 1 .. n : history'[i] = history[i] /\ history[i] \in Happened
  BY <1>1, <1>2 DEF Happened
<1>6. MineUpTo(n)' = MineUpTo(n)
  BY <1>3, <1>5 DEF MineUpTo
<1>7. LineHeld(n, seen) => LineHeld(n, seen)'
  BY <1>5 DEF LineHeld
<1>8. n \in 0 .. Len(history')
  BY <1>1
<1> QED
  BY <1>4, <1>6, <1>7, <1>8 DEF AskedOK

LEMMA AskedLater ==
  ASSUME EventsOK, UNCHANGED history, NEW seen, NEW fetched, NEW t \in Nat, NEW u \in Nat, t <= u,
         AskedOK(seen, fetched, t)
  PROVE  AskedOK(seen, fetched, u)'
<1>1. \A e \in fetched : e.at <= u
  BY EventsAre DEF AskedOK, MineUpTo
<1> QED
  BY <1>1 DEF AskedOK, MineUpTo, LineHeld, Happened

(* The last event of ours tells what LINE holds.                            *)
LEMMA HeardIsTrue ==
  ASSUME FriendshipInv, LineInv
  PROVE  TrueWhenHeard
<1> DEFINE L == Len(history)
<1> DEFINE last == CHOOSE e \in Since : \A f \in Since : ~Precedes(KeyOf(e), KeyOf(f))
<1> SUFFICES ASSUME row # NoRow,
                    \A e \in Since : e.at > row.created_at,
                    \A i, j \in DOMAIN history :
                      i < j => Precedes(KeyOf(history[i]), KeyOf(history[j])),
                    Since # {} => last \in Heard
             PROVE  \/ row.state = relation
                    \/ row.state = "unknown" /\ Since = {} /\ ~Direct
  BY DEF TrueWhenHeard
<1>1. history \in Seq(Event) /\ L \in Nat /\ DOMAIN history = 1 .. L
  BY DEF FriendshipInv, EventsOK
<1>2. PICK n \in 0 .. L :
        /\ row.fetched = MineUpTo(n)
        /\ IF Direct THEN LineHeld(n, row.registered) ELSE row.registered = "unknown"
  BY DEF LineInv, AskedOK
<1>3. \A e \in row.fetched : e.at <= row.created_at
  BY DEF LineInv, AskedOK
<1>4. \A i \in 1 .. L : history[i] \in Event /\ history[i] \in Happened
  BY <1>1 DEF Happened
<1>5. \A e \in Mine : \E i \in 1 .. L : e = history[i] /\ history[i].mine
  BY <1>1 DEF Mine, Happened
<1>6. \A i, j \in 1 .. L : i < j => Precedes(KeyOf(history[i]), KeyOf(history[j]))
                                    /\ ~Precedes(KeyOf(history[j]), KeyOf(history[i]))
                                    /\ history[i] # history[j]
  BY <1>1, <1>4, PrecedesIsOrder
<1>7. row.created_at \in Nat /\ \A e \in Mine : e.at \in Nat
  BY EventsAre, FriendshipAssumption DEF FriendshipInv, RowOK
<1> HIDE DEF L, last
<1>8. CASE Since = {}
  <2>1. Heard = {}
    BY <1>3, <1>7, <1>8 DEF Heard, Since
  <2>2. row.state = row.registered
    BY <2>1 DEF FriendshipInv, NewestWins
  <2>3. CASE Direct
    <3>1. \A i \in n + 1 .. L : ~history[i].mine
      <4> SUFFICES ASSUME NEW i \in n + 1 .. L, history[i].mine
                   PROVE  FALSE
        OBVIOUS
      <4>1. i \in 1 .. L /\ history[i] \in Mine
        BY <1>1, <1>2, <1>4 DEF Mine
      <4>2. history[i] \in MineUpTo(n)
        BY <1>2, <1>8, <4>1 DEF Since
      <4>3. PICK j \in 1 .. n : history[i] = history[j]
        BY <4>2 DEF MineUpTo
      <4> QED
        BY <1>1, <1>2, <1>6, <4>1, <4>3
    <3>2. LineHeld(n, row.state) /\ LineHeld(L, relation)
      BY <1>2, <2>2, <2>3 DEF LineInv, L
    <3>3. CASE row.state = Initially /\ \A i \in 1 .. n : ~history[i].mine
      <4>1. \A i \in 1 .. L : ~history[i].mine
        BY <1>1, <1>2, <3>1, <3>3
      <4> QED
        BY <3>2, <3>3, <4>1 DEF LineHeld
    <3>4. ASSUME NEW i \in 1 .. n, history[i].mine, row.state = history[i].kind,
                 \A j \in i + 1 .. n : ~history[j].mine
          PROVE  row.state = relation
      <4>1. i \in 1 .. L /\ \A j \in i + 1 .. L : ~history[j].mine
        BY <1>1, <1>2, <3>1, <3>4
      <4>2. PICK k \in 1 .. L : /\ history[k].mine /\ relation = history[k].kind
                                /\ \A j \in k + 1 .. L : ~history[j].mine
        BY <3>2, <3>4, <4>1 DEF LineHeld
      <4>3. k = i
        BY <1>1, <3>4, <4>1, <4>2
      <4> QED
        BY <3>4, <4>2, <4>3
    <3> QED
      BY <3>2, <3>3, <3>4 DEF LineHeld
  <2>4. CASE ~Direct
    BY <1>2, <1>8, <2>2, <2>4
  <2> QED
    BY <2>3, <2>4
<1>9. CASE Since # {}
  <2>1. PICK e \in Since : TRUE
    BY <1>9
  <2>2. PICK k \in 1 .. L : e = history[k] /\ history[k].mine /\ history[k] \notin MineUpTo(n)
    BY <1>2, <1>5, <2>1 DEF Since
  <2>3. PICK i \in 1 .. L : /\ history[i].mine /\ relation = history[i].kind
                            /\ \A j \in i + 1 .. L : ~history[j].mine
    BY <2>2 DEF LineInv, LineHeld, L
  <2> DEFINE m == history[i]
  <2>4. \A f \in Mine : \E j \in 1 .. i : f = history[j]
    <3> SUFFICES ASSUME NEW f \in Mine
                 PROVE  \E j \in 1 .. i : f = history[j]
      OBVIOUS
    <3>1. PICK j \in 1 .. L : f = history[j] /\ history[j].mine
      BY <1>5
    <3>2. j \in 1 .. i
      BY <1>1, <2>3, <3>1
    <3> QED
      BY <3>1, <3>2
  <2>5. \A f \in Mine : f = m \/ (Precedes(KeyOf(f), KeyOf(m)) /\ ~Precedes(KeyOf(m), KeyOf(f)))
    <3> SUFFICES ASSUME NEW f \in Mine, f # m
                 PROVE  Precedes(KeyOf(f), KeyOf(m)) /\ ~Precedes(KeyOf(m), KeyOf(f))
      OBVIOUS
    <3>1. PICK j \in 1 .. i : f = history[j]
      BY <2>4
    <3>2. j \in 1 .. L /\ j < i
      BY <1>1, <2>3, <3>1
    <3> QED
      BY <1>6, <2>3, <3>1, <3>2
  <2>6. m \in Since
    <3>1. m \in Mine
      BY <1>4, <2>3 DEF Mine
    <3>2. ASSUME m \in MineUpTo(n)
          PROVE  FALSE
      <4>1. PICK j \in 1 .. n : history[i] = history[j]
        BY <3>2 DEF MineUpTo
      <4>2. j = i
        BY <1>1, <1>2, <1>6, <2>3, <4>1
      <4>3. k \in 1 .. n
        BY <1>1, <1>2, <2>2, <2>3, <4>1, <4>2
      <4> QED
        BY <1>4, <2>2, <4>3 DEF MineUpTo
    <3> QED
      BY <1>2, <3>1, <3>2 DEF Since
  <2> HIDE DEF m
  <2>7. m \in Event /\ ~Precedes(KeyOf(m), KeyOf(m))
    BY <1>4, <2>3, PrecedesIsOrder DEF m
  <2>8. \A f \in Since : ~Precedes(KeyOf(m), KeyOf(f))
    BY <2>5, <2>7 DEF Since
  <2>9. last \in Since /\ \A f \in Since : ~Precedes(KeyOf(last), KeyOf(f))
    BY <2>6, <2>8 DEF last
  <2>10. last = m
    BY <2>5, <2>6, <2>9 DEF Since
  <2>11. PICK g \in Heard : /\ \A f \in Heard \ {g} : Precedes(KeyOf(f), KeyOf(g))
                            /\ row.state = g.kind
    BY <1>9, <2>10 DEF FriendshipInv, NewestWins
  <2>12. g = m
    BY <1>9, <2>5, <2>10, <2>11 DEF Heard
  <2> QED
    BY <2>3, <2>11, <2>12 DEF m
<1> QED
  BY <1>8, <1>9

----------------------------------------------------------------------------
(* What LINE was asked for, and what happens meanwhile *)

(* A recipient is created with an answer of LINE, and keeps it.             *)
AnswersKept ==
  row' # NoRow =>
    \/ /\ row # NoRow /\ row'.registered = row.registered
       /\ row'.fetched = row.fetched /\ row'.created_at = row.created_at
    \/ AskedOK(row'.registered, row'.fetched, row'.created_at)

(* So does a request until then.                                            *)
RequestsKept ==
  /\ client' = [c \in Clients |-> client'[c]]
  /\ \A c \in Clients :
       /\ ClientOK(c)'
       /\ client'[c].pc \in {"create", "creating"} =>
            \/ /\ client[c].pc \in {"create", "creating"}
               /\ client'[c].seen = client[c].seen /\ client'[c].fetched = client[c].fetched
            \/ AskedOK(client'[c].seen, client'[c].fetched, now)

LEMMA LineQuiet ==
  ASSUME FriendshipInv, LineInv, UNCHANGED <<history, relation>>, now' \in 0 .. MaxNow, now <= now',
         AnswersKept, RequestsKept
  PROVE  LineInv'
<1>1. EventsOK /\ now \in Nat /\ now' \in Nat
  BY FriendshipAssumption DEF FriendshipInv, EventsOK
<1>2. ASSUME NEW c \in Clients, client'[c].pc \in {"create", "creating"}
      PROVE  RequestOK(c)'
  <2> DEFINE seen == client'[c].seen
  <2> DEFINE fetched == client'[c].fetched
  <2>1. AskedOK(seen, fetched, now)
    BY <1>2 DEF LineInv, RequestOK, RequestsKept
  <2> HIDE DEF seen, fetched
  <2>2. /\ \A e \in fetched : e.at <= now'
        /\ \E n \in 0 .. Len(history) : /\ fetched = MineUpTo(n)
                                        /\ IF Direct THEN LineHeld(n, seen) ELSE seen = "unknown"
    BY <1>1, <2>1, EventsAre DEF AskedOK, MineUpTo
  <2> QED
    BY <2>2 DEF RequestOK, AskedOK, MineUpTo, LineHeld, Happened, seen, fetched
<1>3. row' # NoRow => AskedOK(row'.registered, row'.fetched, row'.created_at)
  BY DEF LineInv, AnswersKept
<1>4. (row # NoRow => AskedOK(row.registered, row.fetched, row.created_at))'
  BY <1>3 DEF AskedOK, MineUpTo, LineHeld, Happened
<1>5. Happened' = Happened /\ \A e \in Happened : e.at <= now'
  BY <1>1, EventsAre DEF LineInv, Happened
<1>6. LineHeld(Len(history), relation)'
  BY DEF LineInv, LineHeld
<1>7. \A c \in Clients : ClientOK(c)' /\ RequestOK(c)'
  <2>1. \A c \in Clients : client'[c].pc \notin {"create", "creating"} => RequestOK(c)'
    BY DEF RequestOK
  <2> QED
    BY <1>2, <2>1 DEF RequestsKept
<1> QED
  BY <1>4, <1>5, <1>6, <1>7 DEF LineInv, RequestsKept

LEMMA LineHappens ==
  ASSUME FriendshipInv, LineInv, NEW e \in Event, e.at = now, history' = Append(history, e),
         IF e.mine THEN relation' = e.kind ELSE relation' = relation,
         UNCHANGED <<now, row, client>>
  PROVE  LineInv'
<1>1. EventsOK /\ now \in Nat
  BY FriendshipAssumption DEF FriendshipInv, EventsOK
<1>2. ASSUME NEW c \in Clients
      PROVE  RequestOK(c)'
  BY <1>1, AskedStays DEF LineInv, RequestOK
<1>3. row # NoRow => AskedOK(row.registered, row.fetched, row.created_at)'
  BY <1>1, AskedStays DEF LineInv
<1>4. Happened' = Happened \cup {e} /\ now <= now
  BY <1>1, HappenedIs
<1>5. LineHeld(Len(history), relation)'
  <2>1. history \in Seq(Event) /\ Len(history) \in Nat /\ Len(history') = Len(history) + 1
    BY <1>1 DEF EventsOK
  <2>2. (\A i \in 1 .. Len(history) : history'[i] = history[i]) /\ history'[Len(history) + 1] = e
    BY <2>1
  <2>3. CASE e.mine
    <3>1. Len(history) + 1 \in 1 .. Len(history')
      BY <2>1
    <3>2. \A j \in (Len(history) + 1) + 1 .. Len(history') : FALSE
      BY <2>1
    <3> QED
      BY <2>2, <2>3, <3>1, <3>2 DEF LineHeld
  <2>4. CASE ~e.mine
    <3>1. relation' = relation /\ LineHeld(Len(history), relation)
      BY <2>4 DEF LineInv
    <3>2. CASE relation = Initially /\ \A i \in 1 .. Len(history) : ~history[i].mine
      <4>1. \A i \in 1 .. Len(history') : ~history'[i].mine
        BY <2>1, <2>2, <2>4, <3>2
      <4> QED
        BY <3>1, <3>2, <4>1 DEF LineHeld
    <3>3. ASSUME NEW i \in 1 .. Len(history), history[i].mine, relation = history[i].kind,
                 \A j \in i + 1 .. Len(history) : ~history[j].mine
          PROVE  LineHeld(Len(history), relation)'
      <4>1. i \in 1 .. Len(history') /\ history'[i] = history[i]
        BY <2>1, <2>2
      <4>2. \A j \in i + 1 .. Len(history') : ~history'[j].mine
        BY <2>1, <2>2, <2>4, <3>3
      <4> QED
        BY <3>1, <3>3, <4>1, <4>2 DEF LineHeld
    <3> QED
      BY <3>1, <3>2, <3>3 DEF LineHeld
  <2> QED
    BY <2>3, <2>4
<1>6. client' = [c \in Clients |-> client'[c]] /\ \A c \in Clients : ClientOK(c)'
  BY DEF LineInv, ClientOK
<1>7. \A f \in Happened' : f.at <= now'
  BY <1>4 DEF LineInv
<1> QED
  BY <1>2, <1>3, <1>5, <1>6, <1>7 DEF LineInv

LEMMA RequestsSame ==
  ASSUME LineInv, UNCHANGED client
  PROVE  RequestsKept
BY DEF LineInv, RequestOK, RequestsKept, ClientOK

(* A request moves on, and the others stay where they are.                  *)
LEMMA RequestMoves ==
  ASSUME LineInv, NEW c \in Clients, NEW pc, client[c] # Idle,
         pc \in {"create", "creating"} => client[c].pc \in {"create", "creating"},
         client' = [client EXCEPT ![c].pc = pc]
  PROVE  RequestsKept
<1>1. client[c] = [pc |-> client[c].pc, op |-> client[c].op, identity |-> client[c].identity,
                   seen |-> client[c].seen, fetched |-> client[c].fetched]
  BY DEF LineInv, ClientOK
<1>2. /\ client'[c] = [pc |-> pc, op |-> client[c].op, identity |-> client[c].identity,
                       seen |-> client[c].seen, fetched |-> client[c].fetched]
      /\ \A d \in Clients \ {c} : client'[d] = client[d]
      /\ client' = [d \in Clients |-> client'[d]]
  BY <1>1 DEF LineInv
<1> QED
  BY <1>2 DEF LineInv, RequestOK, RequestsKept, ClientOK

LEMMA RequestSet ==
  ASSUME LineInv, NEW c \in Clients, NEW new, client' = [client EXCEPT ![c] = new],
         \/ new = Idle
         \/ /\ new = [pc |-> new.pc, op |-> new.op, identity |-> new.identity,
                      seen |-> new.seen, fetched |-> new.fetched]
            /\ \/ new.pc \notin {"create", "creating"}
               \/ AskedOK(new.seen, new.fetched, now)
  PROVE  RequestsKept
<1>1. /\ client'[c] = new /\ \A d \in Clients \ {c} : client'[d] = client[d]
      /\ client' = [d \in Clients |-> client'[d]]
  BY DEF LineInv
<1> QED
  BY <1>1 DEF LineInv, RequestOK, RequestsKept, ClientOK, Idle

LEMMA LineHandler ==
  ASSUME FriendshipInv, LineInv, NEW h \in Handlers, HandlerStep(h)
  PROVE  LineInv'
<1>1. now \in 0 .. MaxNow /\ now <= now
  BY FriendshipAssumption DEF FriendshipInv, EventsOK
<1>2. UNCHANGED <<now, history, relation, client>>
  BY DEF HandlerStep, RecordNonUpdate, LockReference, Project, Fail
<1>3. AnswersKept
  <2>1. CASE row' = row
    BY <2>1 DEF AnswersKept
  <2>2. ASSUME NEW e, row # NoRow, row' = Applied(e, Decision(e))
        PROVE  AnswersKept
    BY <2>2 DEF AnswersKept, Applied, FriendshipInv, RowOK
  <2> QED
    BY <2>1, <2>2 DEF HandlerStep, RecordNonUpdate, LockReference, Project, Fail, Target
<1>4. RequestsKept
  BY <1>2, RequestsSame
<1> QED
  BY <1>1, <1>2, <1>3, <1>4, LineQuiet

LEMMA LineAsked ==
  ASSUME FriendshipInv, LineInv
  PROVE  AskedOK(IF Direct THEN relation ELSE "unknown", Mine, now)
<1>1. history \in Seq(Event) /\ Len(history) \in Nat /\ DOMAIN history = 1 .. Len(history)
  BY DEF FriendshipInv, EventsOK
<1>2. Mine = MineUpTo(Len(history))
  BY <1>1 DEF Mine, MineUpTo, Happened
<1>3. \A e \in Mine : e.at <= now
  BY DEF LineInv, Mine
<1>4. Len(history) \in 0 .. Len(history) /\ LineHeld(Len(history), relation)
  BY <1>1 DEF LineInv
<1> QED
  BY <1>2, <1>3, <1>4 DEF AskedOK

LEMMA LineClient ==
  ASSUME FriendshipInv, LineInv, NEW c \in Clients, ClientStep(c)
  PROVE  LineInv'
<1>1. now \in 0 .. MaxNow /\ now <= now
  BY FriendshipAssumption DEF FriendshipInv, EventsOK
<1>2. UNCHANGED <<now, history, relation>>
  BY DEF ClientStep, Submit, LockOwner, NothingThere, Mutate, Ask, Create, Abandon
<1>3. row' \in {row, NoRow} => AnswersKept
  BY DEF AnswersKept
<1>4. client[c] = Idle \/
      client[c] = [pc |-> client[c].pc, op |-> client[c].op, identity |-> client[c].identity,
                   seen |-> client[c].seen, fetched |-> client[c].fetched]
  BY DEF LineInv, ClientOK
<1>5. ASSUME NEW op \in Ops, Submit(c, op)
      PROVE  RequestsKept /\ row' = row
  <2> DEFINE new == [pc |-> "check", op |-> op, identity |-> owner.identity,
                     seen |-> "unknown", fetched |-> {}]
  <2>1. new = [pc |-> new.pc, op |-> new.op, identity |-> new.identity,
               seen |-> new.seen, fetched |-> new.fetched] /\ new.pc \notin {"create", "creating"}
    OBVIOUS
  <2>2. client' = [client EXCEPT ![c] = new] /\ row' = row
    BY <1>5 DEF Submit
  <2> HIDE DEF new
  <2> QED
    BY <2>1, <2>2, RequestSet
<1>6. CASE LockOwner(c)
  <2> DEFINE pc == IF client[c].pc = "check" THEN "checking" ELSE "creating"
  <2>1. /\ client' = [client EXCEPT ![c].pc = pc] /\ row' = row
        /\ client[c].pc \in {"check", "create"}
    BY <1>6 DEF LockOwner
  <2>2. client[c] # Idle /\ (pc \in {"create", "creating"} => client[c].pc \in {"create", "creating"})
    BY <2>1 DEF Idle
  <2> HIDE DEF pc
  <2>3. RequestsKept
    BY <2>1, <2>2, RequestMoves
  <2> QED
    BY <1>1, <1>2, <1>3, <2>1, <2>3, LineQuiet
<1>7. CASE NothingThere(c)
  <2> DEFINE new == [client[c] EXCEPT !.pc = "ask"]
  <2>1. client' = [client EXCEPT ![c] = new] \/ client' = [client EXCEPT ![c] = Idle]
    BY <1>7 DEF NothingThere
  <2>2. row' = row /\ client[c] # Idle
    BY <1>7 DEF NothingThere, Idle
  <2>3. new = [pc |-> "ask", op |-> client[c].op, identity |-> client[c].identity,
               seen |-> client[c].seen, fetched |-> client[c].fetched]
    BY <1>4, <2>2
  <2> HIDE DEF new
  <2>4. new = [pc |-> new.pc, op |-> new.op, identity |-> new.identity,
               seen |-> new.seen, fetched |-> new.fetched] /\ new.pc \notin {"create", "creating"}
    BY <2>3
  <2>5. RequestsKept
    BY <2>1, <2>4, RequestSet
  <2> QED
    BY <1>1, <1>2, <1>3, <2>2, <2>5, LineQuiet
<1>8. CASE Mutate(c) \/ Abandon(c)
  <2>1. client' = [client EXCEPT ![c] = Idle] /\ row' \in {row, NoRow}
    BY <1>8 DEF Mutate, Abandon
  <2>2. RequestsKept
    BY <2>1, RequestSet
  <2> QED
    BY <1>1, <1>2, <1>3, <2>1, <2>2, LineQuiet
<1>9. CASE Ask(c)
  <2> DEFINE seen == IF Direct THEN relation ELSE "unknown"
  <2> DEFINE new == [pc |-> "create", op |-> client[c].op, identity |-> client[c].identity,
                     seen |-> seen, fetched |-> Mine]
  <2>1. client[c] # Idle /\ row' = row
    BY <1>9 DEF Ask, Idle
  <2>2. client' = [client EXCEPT ![c] = new]
    <3>1. client' = [client EXCEPT ![c] = [client[c] EXCEPT !.pc = "create", !.seen = seen,
                                                           !.fetched = Mine]]
      BY <1>9 DEF Ask, LineInv
    <3>2. client[c] = [pc |-> client[c].pc, op |-> client[c].op,
                       identity |-> client[c].identity, seen |-> client[c].seen,
                       fetched |-> client[c].fetched]
      BY <1>4, <2>1
    <3> HIDE DEF seen
    <3> DEFINE asked == [client[c] EXCEPT !.pc = "create", !.seen = seen, !.fetched = Mine]
    <3>3. asked = [pc |-> "create", op |-> client[c].op, identity |-> client[c].identity,
                   seen |-> seen, fetched |-> Mine]
      <4> DEFINE k == client[c]
      <4>1. k = [pc |-> k.pc, op |-> k.op, identity |-> k.identity, seen |-> k.seen,
                 fetched |-> k.fetched]
        BY <3>2
      <4> HIDE DEF k
      <4> DEFINE m == [k EXCEPT !.pc = "create"]
      <4> DEFINE n == [m EXCEPT !.seen = seen]
      <4>2. [k EXCEPT !.pc = "create", !.seen = seen, !.fetched = Mine]
            = [n EXCEPT !.fetched = Mine]
        OBVIOUS
      <4>3. m = [pc |-> "create", op |-> k.op, identity |-> k.identity, seen |-> k.seen,
                 fetched |-> k.fetched]
        BY <4>1
      <4> HIDE DEF m
      <4>4. n = [pc |-> "create", op |-> k.op, identity |-> k.identity, seen |-> seen,
                 fetched |-> k.fetched]
        BY <4>3
      <4> HIDE DEF n
      <4>5. [n EXCEPT !.fetched = Mine]
            = [pc |-> "create", op |-> k.op, identity |-> k.identity, seen |-> seen,
                 fetched |-> Mine]
        BY <4>4
      <4> QED
        BY <4>2, <4>5 DEF k
    <3> QED
      BY <3>1, <3>3
  <2>3. new = [pc |-> new.pc, op |-> new.op, identity |-> new.identity,
               seen |-> new.seen, fetched |-> new.fetched] /\ new.seen = seen /\ new.fetched = Mine
    OBVIOUS
  <2>4. AskedOK(seen, Mine, now)
    BY LineAsked
  <2> HIDE DEF new, seen
  <2>5. RequestsKept
    BY <2>2, <2>3, <2>4, RequestSet
  <2> QED
    BY <1>1, <1>2, <1>3, <2>1, <2>5, LineQuiet
<1>10. CASE Create(c)
  <2>1. client' = [client EXCEPT ![c] = Idle] /\ client[c].pc = "creating"
        /\ row' \in {row, NewRecipient(c)}
    BY <1>10 DEF Create
  <2>2. RequestsKept
    BY <2>1, RequestSet
  <2>3. AnswersKept
    <3>1. CASE row' = NewRecipient(c)
      <4>1. AskedOK(client[c].seen, client[c].fetched, now)
        BY <2>1 DEF LineInv, RequestOK
      <4> QED
        BY <3>1, <4>1 DEF AnswersKept, NewRecipient
    <3> QED
      BY <1>3, <2>1, <3>1
  <2> QED
    BY <1>1, <1>2, <2>2, <2>3, LineQuiet
<1>11. CASE \E op \in Ops : Submit(c, op)
  BY <1>1, <1>2, <1>3, <1>5, <1>11, LineQuiet
<1> QED
  BY <1>6, <1>7, <1>8, <1>9, <1>10, <1>11 DEF ClientStep

LEMMA LineOthers ==
  ASSUME FriendshipInv, LineInv,
         \/ \E id \in Ids : Change(id) \/ Stray(id)
         \/ Tick \/ BeginUnlink \/ FinalizeUnlink \/ LinkAgain
  PROVE  LineInv'
<1>1. now \in 0 .. MaxNow /\ now <= now
  BY FriendshipAssumption DEF FriendshipInv, EventsOK
<1>2. ASSUME NEW id \in Ids, Change(id) \/ Stray(id)
      PROVE  LineInv'
  <2>1. CASE Change(id)
    <3> DEFINE f == [id |-> id, at |-> now, kind |-> relation', mine |-> TRUE]
    <3>1. f \in Event /\ f.at = now /\ f.mine /\ f.kind = relation'
      BY <1>1, <2>1 DEF Change, Event
    <3>2. history' = Append(history, f) /\ UNCHANGED <<now, row, client>>
      BY <2>1 DEF Change
    <3> HIDE DEF f
    <3> QED
      BY <3>1, <3>2, LineHappens
  <2>2. CASE Stray(id)
    <3> DEFINE f == [id |-> id, at |-> now, kind |-> "friend", mine |-> FALSE]
    <3>1. f \in Event /\ f.at = now /\ ~f.mine
      BY <1>1 DEF Event
    <3>2. history' = Append(history, f) /\ UNCHANGED <<now, row, client, relation>>
      BY <2>2 DEF Stray
    <3> HIDE DEF f
    <3> QED
      BY <3>1, <3>2, LineHappens
  <2> QED
    BY <1>2, <2>1, <2>2
<1>3. CASE Tick
  <2>1. now' = now + 1 /\ now + 1 \in 0 .. MaxNow /\ now <= now + 1
        /\ UNCHANGED <<relation, history, row, client>>
    BY <1>1, <1>3, FriendshipAssumption DEF Tick
  <2>2. AnswersKept
    BY <2>1 DEF AnswersKept
  <2> QED
    BY <2>1, <2>2, RequestsSame, LineQuiet
<1>4. CASE BeginUnlink \/ FinalizeUnlink \/ LinkAgain
  <2>1. UNCHANGED <<now, relation, history, client>> /\ row' \in {row, NoRow}
    BY <1>4 DEF BeginUnlink, FinalizeUnlink, LinkAgain
  <2>2. AnswersKept
    BY <2>1 DEF AnswersKept
  <2> QED
    BY <1>1, <2>1, <2>2, RequestsSame, LineQuiet
<1> QED
  BY <1>2, <1>3, <1>4

(* Once the recipient was told of the last event since LINE was asked for   *)
(* the friendship, it shows what LINE holds, be the earlier events lost or  *)
(* late (registration in two transactions, decide_projection).              *)
THEOREM HeardMeansTrue == Spec => []TrueWhenHeard
<1>1. Init => LineInv
  <2> SUFFICES ASSUME Init
               PROVE  LineInv
    OBVIOUS
  <2>1. history = <<>> /\ Happened = {} /\ row = NoRow /\ relation = Initially /\ Len(history) = 0
    BY DEF Init, Happened
  <2>2. \A c \in Clients : client[c] = Idle
    BY DEF Init
  <2>3. LineHeld(0, Initially)
    BY DEF LineHeld
  <2>4. client = [c \in Clients |-> client[c]]
    BY DEF Init
  <2> QED
    BY <2>1, <2>2, <2>3, <2>4 DEF LineInv, ClientOK, RequestOK, Idle
<1>2. FriendshipInv /\ LineInv /\ [Next]_vars => LineInv'
  <2> SUFFICES ASSUME FriendshipInv, LineInv, [Next]_vars
               PROVE  LineInv'
    OBVIOUS
  <2>1. CASE UNCHANGED vars
    <3>1. now' \in 0 .. MaxNow /\ now <= now' /\ AnswersKept
      BY <2>1, FriendshipAssumption DEF vars, FriendshipInv, EventsOK, AnswersKept
    <3> QED
      BY <2>1, <3>1, RequestsSame, LineQuiet DEF vars
  <2>2. CASE Next
    BY <2>2, LineHandler, LineClient, LineOthers DEF Next
  <2> QED
    BY <2>1, <2>2
<1>3. FriendshipInv /\ LineInv => TrueWhenHeard
  BY HeardIsTrue
<1> QED
  BY <1>1, <1>2, <1>3, FriendshipInvariant, PTL DEF Spec
=============================================================================
