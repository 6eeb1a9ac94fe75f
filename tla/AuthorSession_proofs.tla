------------------------ MODULE AuthorSession_proofs ------------------------
(***************************************************************************)
(* Proofs about authoring sessions, for any number of crates, turns,       *)
(* attempts, menus and sessions.  The inductive invariant follows what is  *)
(* on disk through the writes of an attempt, and what was said through the *)
(* buffer and the record; the lemmas say what a replayed record shows once *)
(* events are appended to it.                                              *)
(***************************************************************************)
EXTENDS AuthorSession, SequenceTheorems, WellFoundedInduction, TLAPS

PastDialog == {"emit", "build", "smoke", "persist", "experiment", "done", "exhausted", "menu"}
Written == {"build", "smoke", "persist", "experiment", "done"}

Remarks == [type : {"dialog_started", "intent_finalized", "repair_budget_exhausted"}]
Entries ==
    Remarks \cup [type : {"decision_locked", "decision_amended"}, field : Fields,
                  value : Names \cup Mechanisms]

Sessions ==
    [pc : {"idle", "dialog"} \cup PastDialog, turn : Nat, at : Names \cup {NoName},
     pending : Mappings, said : Mappings, intent : Intents \cup {NoIntent},
     budget : Nat, attempt : Nat, hash : {"none", "new"}, menus : Nat]

TypeOK ==
    /\ crates \in [Names -> Contents]
    /\ intents \in [Names -> Intents \cup {NoIntent}]
    /\ experiments \in [Names -> Contents]
    /\ log \in [Names -> Seq(Entries)]
    /\ torn \in [Names -> BOOLEAN]
    /\ s \in Sessions
    /\ sessions \in Nat

\* What an attempt has left on disk by the step it is at.
WrittenSoFar ==
    /\ s.pc \in PastDialog => s.intent \in Intents
    /\ s.pc \in Written => crates[s.intent.name] = "new"
    /\ s.pc \in {"persist", "experiment", "done"} => s.hash = "new"
    /\ s.pc \in {"experiment", "done"} => intents[s.intent.name] = s.intent
    /\ s.pc = "experiment" => s.intent.spec
    /\ s.pc = "done" /\ s.intent.spec => experiments[s.intent.name] = "new"

\* Nothing said is left to account for once files are emitted.
SaidUntilEmitted == s.pc \notin {"dialog", "emit"} => s.said = <<>>

IInv == TypeOK /\ WrittenSoFar /\ SaidUntilEmitted /\ DecisionsSurvive

-----------------------------------------------------------------------------
(* The record                                                              *)

\* A nonempty set of positions has a last one.
LEMMA LastExists ==
    ASSUME NEW n \in Nat, NEW S \in SUBSET (1..n), S # {}
    PROVE  \E j \in S : \A k \in S : k <= j
<1> DEFINE back == {n - j : j \in S}
<1>1. back \subseteq Nat /\ back # {}
  <2>1. \A j \in S : n - j \in Nat
    OBVIOUS
  <2> QED
    BY <2>1
<1> HIDE DEF back
<1>2. \E m \in back : \A k \in back : ~(<<k, m>> \in OpToRel(<, Nat))
  BY <1>1, NatLessThanWellFounded, WFMin
<1>3. PICK m \in back : \A k \in back : ~(k < m)
  BY <1>1, <1>2 DEF OpToRel
<1>4. PICK j \in S : m = n - j
  BY DEF back
<1>5. \A k \in S : ~(n - k < n - j)
  BY <1>3, <1>4 DEF back
<1> QED
  BY <1>5

Decides(e, f) == IsDecision(e) /\ e.field = f
Shows(events, f, v) == f \in DOMAIN Project(events) /\ Project(events)[f] = v

\* A record shows of a field what its last decision says.
LEMMA ShowsLast ==
    ASSUME NEW events \in Seq(Entries), NEW f \in Fields, NEW v
    PROVE  Shows(events, f, v) <=>
               \E j \in DOMAIN events :
                   /\ Decides(events[j], f) /\ events[j].value = v
                   /\ \A k \in DOMAIN events : Decides(events[k], f) => k <= j
<1> DEFINE At == {j \in DOMAIN events : Decides(events[j], f)}
           last == CHOOSE j \in At : \A k \in At : k <= j
<1>1. /\ f \in DOMAIN Project(events) <=> At # {}
      /\ At # {} => Project(events)[f] = events[last].value
  BY DEF Project, Decides
<1>2. At # {} => last \in At /\ \A k \in At : k <= last
  <2> HAVE At # {}
  <2>1. Len(events) \in Nat /\ At \in SUBSET (1..Len(events))
    BY LenProperties
  <2>2. \E j \in At : \A k \in At : k <= j
    BY <2>1, LastExists
  <2> HIDE DEF At
  <2> QED
    BY <2>2
<1>3. At \subseteq Nat
  BY LenProperties
<1>4. ASSUME At # {}, NEW j \in At, \A k \in At : k <= j
      PROVE  j = last
  BY <1>2, <1>3, <1>4
<1> HIDE DEF last
<1> QED
  BY <1>1, <1>2, <1>4 DEF Shows

\* What is shown once an event is appended.
LEMMA ShowsAppended ==
    ASSUME NEW events \in Seq(Entries), NEW e \in Entries, NEW f \in Fields
    PROVE  /\ events \o <<e>> \in Seq(Entries)
           /\ Decides(e, f) => Shows(events \o <<e>>, f, e.value)
           /\ ~Decides(e, f) => \A v : Shows(events, f, v) <=> Shows(events \o <<e>>, f, v)
<1> DEFINE n == Len(events)
           more == events \o <<e>>
<1>1. /\ more \in Seq(Entries) /\ n \in Nat /\ DOMAIN events = 1..n /\ DOMAIN more = 1..(n + 1)
      /\ \A i \in 1..n : more[i] = events[i]
      /\ more[n + 1] = e
  <2>1. more = Append(events, e)
    OBVIOUS
  <2> HIDE DEF more
  <2> QED
    BY <2>1, AppendProperties, LenProperties
<1> HIDE DEF more, n
<1>2. \A i \in 1..(n + 1) : i \in 1..n \/ i = n + 1
  BY <1>1
<1>3. \A i \in 1..n : i \in 1..(n + 1) /\ i <= n + 1 /\ ~(n + 1 <= i)
  BY <1>1
<1>4. n + 1 \in 1..(n + 1) /\ n + 1 <= n + 1
  BY <1>1
<1>5. Decides(e, f) => Shows(more, f, e.value)
  <2> HAVE Decides(e, f)
  <2>1. \A k \in DOMAIN more : k <= n + 1
    BY <1>1
  <2> QED
    BY <1>1, <1>4, <2>1, ShowsLast
<1>6. ~Decides(e, f) => \A v : Shows(events, f, v) <=> Shows(more, f, v)
  <2> SUFFICES ASSUME ~Decides(e, f), NEW v
               PROVE  Shows(events, f, v) <=> Shows(more, f, v)
    OBVIOUS
  <2>1. ASSUME NEW j \in DOMAIN events, Decides(events[j], f), events[j].value = v,
               \A k \in DOMAIN events : Decides(events[k], f) => k <= j
        PROVE  /\ j \in DOMAIN more /\ Decides(more[j], f) /\ more[j].value = v
               /\ \A k \in DOMAIN more : Decides(more[k], f) => k <= j
    BY <1>1, <1>2, <1>3, <2>1
  <2>2. ASSUME NEW j \in DOMAIN more, Decides(more[j], f), more[j].value = v,
               \A k \in DOMAIN more : Decides(more[k], f) => k <= j
        PROVE  /\ j \in DOMAIN events /\ Decides(events[j], f) /\ events[j].value = v
               /\ \A k \in DOMAIN events : Decides(events[k], f) => k <= j
    BY <1>1, <1>2, <1>3, <2>2
  <2> QED
    BY <1>1, <2>1, <2>2, ShowsLast
<1> QED
  BY <1>1, <1>5, <1>6 DEF more

\* The events of a block: for each field none, or one decision.
Block(g) ==
    \A f \in Fields : g[f] = <<>> \/ \E e \in Entries : g[f] = <<e>> /\ Decides(e, f)

\* Entries may be grouped in any way.
LEMMA Regrouped ==
    ASSUME NEW a \in Seq(Entries), NEW b \in Seq(Entries), NEW c \in Seq(Entries)
    PROVE  a \o (b \o c) = (a \o b) \o c
<1> PICK S : S = Entries
  OBVIOUS
<1>1. a \in Seq(S) /\ b \in Seq(S) /\ c \in Seq(S)
  OBVIOUS
<1> QED
  BY <1>1, ConcatAssociative, SMTT(30)

\* What is shown once a block is appended: what it decides, else what was.
LEMMA ShowsBlock ==
    ASSUME NEW events \in Seq(Entries), NEW g, Block(g), NEW f \in Fields
    PROVE  /\ InOrder(g) \in Seq(Entries) /\ events \o InOrder(g) \in Seq(Entries)
           /\ g[f] = <<>> => \A v : Shows(events, f, v) => Shows(events \o InOrder(g), f, v)
           /\ g[f] # <<>> => Shows(events \o InOrder(g), f, g[f][1].value)
<1> DEFINE a == g["crate_name"]
           b == g["mechanism_summary"]
<1>1. /\ a = <<>> \/ \E e \in Entries : a = <<e>> /\ Decides(e, "crate_name")
      /\ b = <<>> \/ \E e \in Entries : b = <<e>> /\ Decides(e, "mechanism_summary")
      /\ a \in Seq(Entries) /\ b \in Seq(Entries)
  <2>1. "crate_name" \in Fields /\ "mechanism_summary" \in Fields
    BY DEF Fields
  <2>2. /\ a = <<>> \/ \E e \in Entries : a = <<e>> /\ Decides(e, "crate_name")
        /\ b = <<>> \/ \E e \in Entries : b = <<e>> /\ Decides(e, "mechanism_summary")
    BY <2>1 DEF Block
  <2> HIDE DEF a, b
  <2>3. <<>> \in Seq(Entries) /\ \A e \in Entries : <<e>> \in Seq(Entries)
    OBVIOUS
  <2> QED
    BY <2>2, <2>3
<1>2. \/ f = "crate_name" /\ g[f] = a
      \/ f = "mechanism_summary" /\ g[f] = b
  BY DEF Fields
<1> HIDE DEF a, b
<1>3. /\ InOrder(g) = a \o b /\ InOrder(g) \in Seq(Entries)
      /\ events \o InOrder(g) = (events \o a) \o b
  <2>1. InOrder(g) = a \o b
    BY DEF InOrder, a, b
  <2>2. a \o b \in Seq(Entries) /\ events \o (a \o b) = (events \o a) \o b
    <3>1. /\ a \in Seq(Entries) /\ b \in Seq(Entries) /\ events \in Seq(Entries)
          /\ a \o b \in Seq(Entries)
      BY <1>1, ConcatProperties
    <3> QED
      BY <3>1, Regrouped
  <2> QED
    BY <2>1, <2>2
<1>4. /\ events \o a \in Seq(Entries)
      /\ (f = "crate_name" /\ a # <<>>) => Shows(events \o a, f, a[1].value)
      /\ (f # "crate_name" \/ a = <<>>) => \A v : Shows(events, f, v) => Shows(events \o a, f, v)
  <2>1. CASE a = <<>>
    BY <2>1
  <2>2. CASE a # <<>>
    <3>1. PICK e \in Entries : a = <<e>> /\ Decides(e, "crate_name")
      BY <1>1, <2>2
    <3>2. f # "crate_name" => ~Decides(e, f)
      BY <3>1 DEF Decides
    <3>3. a[1] = e
      BY <3>1
    <3> QED
      BY <2>2, <3>1, <3>2, <3>3, ShowsAppended
  <2> QED
    BY <2>1, <2>2
<1> DEFINE c == events \o a
<1> HIDE DEF c
<1>5. /\ c \o b \in Seq(Entries)
      /\ (f = "mechanism_summary" /\ b # <<>>) => Shows(c \o b, f, b[1].value)
      /\ (f # "mechanism_summary" \/ b = <<>>) => \A v : Shows(c, f, v) => Shows(c \o b, f, v)
  <2>0. c \in Seq(Entries)
    BY <1>4 DEF c
  <2>1. CASE b = <<>>
    BY <2>0, <2>1
  <2>2. CASE b # <<>>
    <3>1. PICK e \in Entries : b = <<e>> /\ Decides(e, "mechanism_summary")
      BY <1>1, <2>2
    <3>2. f # "mechanism_summary" => ~Decides(e, f)
      BY <3>1 DEF Decides
    <3>3. b[1] = e
      BY <3>1
    <3> QED
      BY <2>0, <2>2, <3>1, <3>2, <3>3, ShowsAppended
  <2> QED
    BY <2>1, <2>2
<1> QED
  BY <1>2, <1>3, <1>4, <1>5 DEF c

\* An event that decides nothing changes nothing of what is shown.
LEMMA ShowsRemarked ==
    ASSUME NEW events \in Seq(Entries), NEW tail,
           tail = <<>> \/ \E t \in {"dialog_started", "intent_finalized",
                                    "repair_budget_exhausted"} : tail = Event(t),
           NEW f \in Fields, NEW v, Shows(events, f, v)
    PROVE  Shows(events \o tail, f, v)
<1>1. CASE tail = <<>>
  BY <1>1
<1>2. CASE tail # <<>>
  <2>1. PICK t \in {"dialog_started", "intent_finalized", "repair_budget_exhausted"} :
            tail = <<[type |-> t]>>
    BY <1>2 DEF Event
  <2> DEFINE e == [type |-> t]
  <2>2. e \in Entries /\ e.type = t
    BY DEF Entries, Remarks
  <2>3. ~Decides(e, f)
    BY <2>2 DEF Decides, IsDecision
  <2> QED
    BY <2>1, <2>2, <2>3, ShowsAppended
<1> QED
  BY <1>1, <1>2

\* The one-entry logs the session writes are logs.
LEMMA RemarkType ==
    ASSUME NEW t \in {"dialog_started", "intent_finalized", "repair_budget_exhausted"}
    PROVE  Event(t) \in Seq(Entries)
<1>1. [type |-> t] \in Entries
  BY DEF Entries, Remarks
<1> QED
  BY <1>1 DEF Event

\* The entry of a decision decides its field.
LEMMA DecisionIs ==
    ASSUME NEW f \in Fields, NEW v \in Names \cup Mechanisms,
           NEW t \in {"decision_locked", "decision_amended"}
    PROVE  \E e \in Entries : Decision(t, f, v) = <<e>> /\ Decides(e, f) /\ e.value = v
<1> DEFINE e == [type |-> t, field |-> f, value |-> v]
<1>1. e \in Entries /\ e.type = t /\ e.field = f /\ e.value = v
  BY DEF Entries
<1>2. Decides(e, f)
  BY <1>1 DEF Decides, IsDecision
<1> QED
  BY <1>1, <1>2 DEF Decision

-----------------------------------------------------------------------------
(* Mappings of fields to values                                            *)

\* What a mapping is, by its fields and their values.
LEMMA MappingIs ==
    /\ <<>> \in Mappings
    /\ \A b \in Mappings : /\ DOMAIN b \subseteq Fields
                           /\ \A f \in DOMAIN b : b[f] \in ValuesOf(f)
                           /\ \A f \in DOMAIN b : b[f] \in Names \cup Mechanisms
    /\ \A b : /\ DOMAIN b \subseteq Fields /\ b = [f \in DOMAIN b |-> b[f]]
              /\ \A f \in DOMAIN b : b[f] \in ValuesOf(f)
              => b \in Mappings
<1>1. \A f : ValuesOf(f) \subseteq Names \cup Mechanisms
  BY DEF ValuesOf
<1>2. ASSUME NEW b \in Mappings
      PROVE  /\ DOMAIN b \subseteq Fields
             /\ \A f \in DOMAIN b : b[f] \in ValuesOf(f)
  BY <1>2 DEF Mappings
<1>3. ASSUME NEW b, DOMAIN b \subseteq Fields, b = [f \in DOMAIN b |-> b[f]],
             \A f \in DOMAIN b : b[f] \in ValuesOf(f)
      PROVE  b \in Mappings
  <2>1. b \in [DOMAIN b -> Names \cup Mechanisms]
    BY <1>1, <1>3
  <2> QED
    BY <1>3, <2>1 DEF Mappings
<1>4. <<>> \in Mappings
  <2> DEFINE b == [f \in {} |-> f]
  <2>1. <<>> = b
    OBVIOUS
  <2>2. DOMAIN b = {}
    OBVIOUS
  <2>3. b \in Mappings
    BY <1>3, <2>2
  <2> QED
    BY <2>1, <2>3
<1> QED
  BY <1>1, <1>2, <1>3, <1>4

\* An update of a mapping keeps the fields it does not name.
LEMMA UpdatedIs ==
    ASSUME NEW old \in Mappings, NEW new \in Mappings
    PROVE  /\ Updated(old, new) \in Mappings
           /\ DOMAIN Updated(old, new) = DOMAIN old \cup DOMAIN new
           /\ \A f \in DOMAIN old \cup DOMAIN new :
                Updated(old, new)[f] = IF f \in DOMAIN new THEN new[f] ELSE old[f]
<1> DEFINE b == Updated(old, new)
<1>1. /\ DOMAIN b = DOMAIN old \cup DOMAIN new
      /\ \A f \in DOMAIN b : b[f] = IF f \in DOMAIN new THEN new[f] ELSE old[f]
      /\ b = [f \in DOMAIN b |-> b[f]]
  BY DEF Updated
<1> HIDE DEF b
<1>2. b \in Mappings
  BY <1>1, MappingIs
<1> QED
  BY <1>1, <1>2 DEF b

-----------------------------------------------------------------------------
(* One answer of the model                                                 *)

\* What was said is shown: by the buffer, or by the record once it is open.
SaidIsShown(session, record) ==
    \A f \in DOMAIN session.said :
        LET shown == IF session.at = NoName THEN session.pending ELSE Project(record[session.at])
        IN  f \in DOMAIN shown /\ shown[f] = session.said[f]

\* An answer that is logged is shown by the record it leaves.
LEMMA AnswerKeeps ==
    ASSUME IInv, s.pc = "dialog", NEW block \in Mappings, NEW record, NEW more,
           more = <<>> \/ more = Event("intent_finalized"),
           record = Logged(RecordAfter(block), EventsOf(block) \o more)
    PROVE  /\ record \in [Names -> Seq(Entries)]
           /\ EventsOf(block) \in Seq(Entries)
           /\ Ingested(block) \in Sessions
           /\ Ingested(block).pc = "dialog"
           /\ SaidIsShown(Ingested(block), record)
<1> DEFINE x == Ingested(block)
<1>1. /\ s \in Sessions /\ s.at \in Names \cup {NoName} /\ s.pending \in Mappings
      /\ s.said \in Mappings /\ log \in [Names -> Seq(Entries)] /\ NoName \notin Names
  BY AuthorAssumption DEF IInv, TypeOK, Sessions
<1>2. /\ more \in Seq(Entries)
      /\ \/ more = <<>>
         \/ \E t \in {"dialog_started", "intent_finalized", "repair_budget_exhausted"} :
                more = Event(t)
  <2>1. "intent_finalized" \in {"dialog_started", "intent_finalized", "repair_budget_exhausted"}
    OBVIOUS
  <2>2. Event("intent_finalized") \in Seq(Entries) /\ <<>> \in Seq(Entries)
    BY <2>1, RemarkType
  <2> QED
    BY <2>1, <2>2
<1>3. /\ Updated(s.said, block) \in Mappings
      /\ DOMAIN Updated(s.said, block) = DOMAIN s.said \cup DOMAIN block
      /\ \A f \in DOMAIN s.said \cup DOMAIN block :
            Updated(s.said, block)[f] = IF f \in DOMAIN block THEN block[f] ELSE s.said[f]
  BY <1>1, UpdatedIs
<1>4. /\ Buffered(block) \in Mappings
      /\ DOMAIN Buffered(block) = DOMAIN s.pending \cup DOMAIN block
      /\ \A f \in DOMAIN s.pending \cup DOMAIN block :
            Buffered(block)[f] = IF f \in DOMAIN block THEN block[f] ELSE s.pending[f]
  BY <1>1, UpdatedIs DEF Buffered
<1>5. \A f \in DOMAIN s.said : f \in DOMAIN Projection /\ Projection[f] = s.said[f]
  BY DEF IInv, DecisionsSurvive
<1>6. RecordAfter(block) \in Names \cup {NoName} /\ (Opens(block) => RecordAfter(block) \in Names)
  <2>1. CASE Opens(block)
    <3>1. "crate_name" \in DOMAIN Buffered(block)
      BY <2>1 DEF Opens
    <3>2. Buffered(block)["crate_name"] \in ValuesOf("crate_name")
      BY <1>4, <3>1, MappingIs
    <3> QED
      BY <2>1, <3>2 DEF RecordAfter, ValuesOf
  <2>2. CASE ~Opens(block)
    BY <1>1, <2>2 DEF RecordAfter
  <2> QED
    BY <2>1, <2>2
<1>7. /\ x \in Sessions /\ x.pc = "dialog" /\ x.at = RecordAfter(block)
      /\ x.pending = IF s.at # NoName THEN s.pending
                     ELSE IF Opens(block) THEN <<>> ELSE Buffered(block)
      /\ x.said = Updated(s.said, block)
  <2> DEFINE at == RecordAfter(block)
             pending == IF s.at # NoName THEN s.pending
                        ELSE IF Opens(block) THEN <<>> ELSE Buffered(block)
             said == Updated(s.said, block)
  <2>1. at \in Names \cup {NoName} /\ pending \in Mappings /\ said \in Mappings
    BY <1>1, <1>3, <1>4, <1>6, MappingIs
  <2>2. x = [s EXCEPT !.at = at, !.pending = pending, !.said = said]
    BY <1>1 DEF Ingested, Sessions
  <2> HIDE DEF at, pending, said, x
  <2>3. x \in Sessions /\ x.pc = s.pc /\ x.at = at /\ x.pending = pending /\ x.said = said
    BY <1>1, <2>1, <2>2 DEF Sessions
  <2> QED
    BY <2>3 DEF at, pending, said
<1> HIDE DEF x
<1>8. CASE Opens(block)
  <2> DEFINE n == RecordAfter(block)
             locked == [f \in Fields |-> IF f \in DOMAIN Buffered(block)
                            THEN Decision("decision_locked", f, Buffered(block)[f]) ELSE <<>>]
             begun == log[n] \o Event("dialog_started")
  <2>1. n \in Names /\ log[n] \in Seq(Entries) /\ s.at = NoName /\ n # NoName
    BY <1>1, <1>6, <1>8 DEF Opens
  <2>2. Block(locked)
    <3> SUFFICES ASSUME NEW f \in Fields, locked[f] # <<>>
                 PROVE  \E e \in Entries : locked[f] = <<e>> /\ Decides(e, f)
      BY DEF Block
    <3>1. f \in DOMAIN Buffered(block) /\ locked[f] = Decision("decision_locked", f, Buffered(block)[f])
      OBVIOUS
    <3>2. Buffered(block)[f] \in Names \cup Mechanisms
      BY <1>4, <3>1, MappingIs
    <3> QED
      BY <3>1, <3>2, DecisionIs
  <2>3. EventsOf(block) = Event("dialog_started") \o InOrder(locked)
    BY <1>8 DEF EventsOf, FirstEvents
  <2>4. \A f \in DOMAIN Buffered(block) : f \in Fields /\ locked[f] # <<>>
                                          /\ locked[f][1].value = Buffered(block)[f]
    <3> TAKE f \in DOMAIN Buffered(block)
    <3>1. f \in Fields /\ Buffered(block)[f] \in Names \cup Mechanisms
      BY <1>4, MappingIs
    <3>2. locked[f] = Decision("decision_locked", f, Buffered(block)[f])
      BY <3>1
    <3> QED
      BY <3>1, <3>2, DecisionIs
  <2> HIDE DEF locked, n
  <2>5. begun \in Seq(Entries) /\ Event("dialog_started") \in Seq(Entries)
    BY <2>1, RemarkType, ConcatProperties
  <2> HIDE DEF begun
  <2>6. InOrder(locked) \in Seq(Entries) /\ begun \o InOrder(locked) \in Seq(Entries)
    BY <2>2, <2>5, ShowsBlock DEF Fields
  <2>7. log[n] \o (EventsOf(block) \o more) = (begun \o InOrder(locked)) \o more
    <3> DEFINE e == Event("dialog_started")
               k == InOrder(locked)
               l == log[n]
    <3>0. e \in Seq(Entries) /\ k \in Seq(Entries) /\ l \in Seq(Entries)
      BY <2>1, <2>5, <2>6
    <3>1. EventsOf(block) = e \o k /\ begun = l \o e
      BY <2>3 DEF begun
    <3> HIDE DEF e, k, l
    <3>2. e \o k \in Seq(Entries)
      BY <3>0, ConcatProperties
    <3>3. l \o ((e \o k) \o more) = (l \o (e \o k)) \o more
      <4> DEFINE m == e \o k
      <4>1. m \in Seq(Entries)
        BY <3>2
      <4> HIDE DEF m
      <4>2. l \o (m \o more) = (l \o m) \o more
        <5>1. l \in Seq(Entries) /\ m \in Seq(Entries) /\ more \in Seq(Entries)
          BY <1>2, <3>0, <4>1
        <5> QED
          BY <5>1, Regrouped
      <4> QED
        BY <4>2 DEF m
    <3>4. l \o (e \o k) = (l \o e) \o k
      BY <3>0, Regrouped
    <3>5. l \o (EventsOf(block) \o more) = (begun \o k) \o more
      BY <3>1, <3>3, <3>4
    <3> QED
      BY <3>5 DEF k, l
  <2>8. /\ record = [log EXCEPT ![n] = (begun \o InOrder(locked)) \o more]
        /\ record[n] = (begun \o InOrder(locked)) \o more
    BY <1>1, <2>1, <2>7 DEF Logged, n
  <2>9. (begun \o InOrder(locked)) \o more \in Seq(Entries)
    BY <1>2, <2>6, ConcatProperties
  <2>10. \A f \in DOMAIN x.said : f \in DOMAIN Buffered(block) /\ x.said[f] = Buffered(block)[f]
    <3>1. Projection = s.pending
      BY <2>1 DEF Projection
    <3> QED
      BY <1>3, <1>4, <1>5, <1>7, <3>1
  <2>11. \A f \in DOMAIN x.said : Shows(record[n], f, x.said[f])
    <3> TAKE f \in DOMAIN x.said
    <3>1. f \in Fields /\ locked[f] # <<>> /\ locked[f][1].value = x.said[f]
      BY <2>4, <2>10
    <3>2. Shows(begun \o InOrder(locked), f, x.said[f])
      BY <2>2, <2>5, <3>1, ShowsBlock
    <3> DEFINE all == begun \o InOrder(locked)
               v == x.said[f]
    <3>3. all \in Seq(Entries) /\ Shows(all, f, v) /\ record[n] = all \o more
      BY <2>6, <2>8, <3>2
    <3> HIDE DEF all, v
    <3>4. Shows(all \o more, f, v)
      BY <1>2, <3>1, <3>3, ShowsRemarked
    <3> QED
      BY <3>3, <3>4 DEF v
  <2>12. record \in [Names -> Seq(Entries)]
    BY <1>1, <2>8, <2>9
  <2>13. x.at = n
    BY <1>7 DEF n
  <2>14. SaidIsShown(x, record)
    BY <2>1, <2>11, <2>13 DEF SaidIsShown, Shows
  <2>15. EventsOf(block) \in Seq(Entries)
    BY <2>3, <2>5, <2>6, ConcatProperties
  <2> QED
    BY <1>7, <2>12, <2>14, <2>15 DEF x
<1>9. CASE s.at = NoName /\ ~Opens(block)
  <2>1. record = log /\ x.at = NoName /\ x.pending = Buffered(block)
    BY <1>7, <1>9 DEF Logged, RecordAfter
  <2>2. \A f \in DOMAIN x.said : f \in DOMAIN Buffered(block) /\ x.said[f] = Buffered(block)[f]
    <3>1. Projection = s.pending
      BY <1>9 DEF Projection
    <3> QED
      BY <1>3, <1>4, <1>5, <1>7, <3>1
  <2>3. SaidIsShown(x, record)
    BY <2>1, <2>2 DEF SaidIsShown
  <2>4. EventsOf(block) \in Seq(Entries)
    BY <1>9 DEF EventsOf
  <2> QED
    BY <1>1, <1>7, <2>1, <2>3, <2>4 DEF x
<1>10. CASE s.at # NoName
  <2> DEFINE n == s.at
             current == Project(log[n])
             changed == [f \in Fields |->
                            IF f \notin DOMAIN block THEN <<>>
                            ELSE IF f \notin DOMAIN current
                                 THEN Decision("decision_locked", f, block[f])
                                 ELSE IF current[f] # block[f]
                                      THEN Decision("decision_amended", f, block[f]) ELSE <<>>]
  <2>1. n \in Names /\ log[n] \in Seq(Entries) /\ n # NoName /\ ~Opens(block)
    BY <1>1, <1>10 DEF Opens
  <2>2. EventsOf(block) = InOrder(changed) /\ RecordAfter(block) = n
    BY <1>10, <2>1 DEF EventsOf, DiffEvents, RecordAfter
  <2> HIDE DEF current
  <2>3. \A f \in Fields :
            \/ changed[f] = <<>>
            \/ /\ f \in DOMAIN block
               /\ \E e \in Entries : changed[f] = <<e>> /\ Decides(e, f) /\ e.value = block[f]
    <3> TAKE f \in Fields
    <3>1. f \in DOMAIN block => block[f] \in Names \cup Mechanisms
      BY MappingIs
    <3>2. \/ changed[f] = <<>>
          \/ /\ f \in DOMAIN block
             /\ \/ changed[f] = Decision("decision_locked", f, block[f])
                \/ changed[f] = Decision("decision_amended", f, block[f])
      OBVIOUS
    <3> HIDE DEF changed
    <3> QED
      BY <3>1, <3>2, DecisionIs
  <2>4. \A f \in Fields : f \in DOMAIN block /\ changed[f] = <<>> => Shows(log[n], f, block[f])
    <3> TAKE f \in Fields
    <3> HAVE f \in DOMAIN block /\ changed[f] = <<>>
    <3>1. \A t \in {"decision_locked", "decision_amended"} : Decision(t, f, block[f]) # <<>>
      BY MappingIs, DecisionIs
    <3>2. f \in DOMAIN current /\ current[f] = block[f]
      BY <3>1
    <3> QED
      BY <3>2 DEF Shows, current
  <2> HIDE DEF changed, n
  <2>5. Block(changed)
    BY <2>3 DEF Block
  <2>6. InOrder(changed) \in Seq(Entries) /\ log[n] \o InOrder(changed) \in Seq(Entries)
    BY <2>1, <2>5, ShowsBlock DEF Fields
  <2>7. log[n] \o (EventsOf(block) \o more) = (log[n] \o InOrder(changed)) \o more
    <3> DEFINE k == InOrder(changed)
               l == log[n]
    <3>1. k \in Seq(Entries) /\ l \in Seq(Entries) /\ EventsOf(block) = k
      BY <2>1, <2>2, <2>6
    <3> HIDE DEF k, l
    <3>2. l \o (EventsOf(block) \o more) = (l \o k) \o more
      <4>1. k \in Seq(Entries) /\ l \in Seq(Entries) /\ more \in Seq(Entries)
        BY <1>2, <3>1
      <4> QED
        BY <3>1, <4>1, Regrouped
    <3> QED
      BY <3>2 DEF k, l
  <2>8. /\ record = [log EXCEPT ![n] = (log[n] \o InOrder(changed)) \o more]
        /\ record[n] = (log[n] \o InOrder(changed)) \o more
    BY <1>1, <2>1, <2>2, <2>7 DEF Logged
  <2>9. (log[n] \o InOrder(changed)) \o more \in Seq(Entries)
    BY <1>2, <2>6, ConcatProperties
  <2>10. ASSUME NEW f \in DOMAIN x.said
         PROVE  Shows(record[n], f, x.said[f])
    <3>1. f \in Fields /\ f \in DOMAIN s.said \cup DOMAIN block
      BY <1>3, <1>7, MappingIs
    <3>2. Shows(log[n] \o InOrder(changed), f, x.said[f])
      <4>1. CASE f \in DOMAIN block
        <5>1. x.said[f] = block[f]
          BY <1>3, <1>7, <4>1
        <5>2. CASE changed[f] = <<>>
          BY <2>1, <2>4, <2>5, <3>1, <4>1, <5>1, <5>2, ShowsBlock
        <5>3. CASE changed[f] # <<>>
          <6>1. changed[f][1].value = block[f]
            BY <2>3, <3>1, <5>3
          <6> QED
            BY <2>1, <2>5, <3>1, <5>1, <5>3, <6>1, ShowsBlock
        <5> QED
          BY <5>2, <5>3
      <4>2. CASE f \notin DOMAIN block
        <5>1. x.said[f] = s.said[f] /\ changed[f] = <<>> /\ f \in DOMAIN s.said
          BY <1>3, <1>7, <2>3, <3>1, <4>2
        <5>2. Shows(log[n], f, s.said[f])
          BY <1>5, <1>10, <5>1 DEF Projection, Shows, n
        <5> QED
          BY <2>1, <2>5, <3>1, <5>1, <5>2, ShowsBlock
      <4> QED
        BY <4>1, <4>2
    <3> DEFINE all == log[n] \o InOrder(changed)
               v == x.said[f]
    <3>3. all \in Seq(Entries) /\ Shows(all, f, v) /\ record[n] = all \o more
      BY <2>6, <2>8, <3>2
    <3> HIDE DEF all, v
    <3>4. Shows(all \o more, f, v)
      BY <1>2, <3>1, <3>3, ShowsRemarked
    <3> QED
      BY <3>3, <3>4 DEF v
  <2>11. x.at = n
    BY <1>7, <2>2
  <2>12. SaidIsShown(x, record)
    BY <2>1, <2>10, <2>11 DEF SaidIsShown, Shows
  <2>13. record \in [Names -> Seq(Entries)]
    BY <1>1, <2>8, <2>9
  <2>14. EventsOf(block) \in Seq(Entries)
    BY <2>2, <2>6
  <2> QED
    BY <1>7, <2>12, <2>13, <2>14 DEF x
<1> QED
  BY <1>8, <1>9, <1>10

-----------------------------------------------------------------------------
(* Every step preserves the invariant                                      *)

\* What an idle session holds.
LEMMA IdleIs ==
    ASSUME NEW p \in {"idle", "dialog"}
    PROVE  /\ Idle(p) \in Sessions /\ Idle(p).pc = p /\ Idle(p).said = <<>>
           /\ Fresh = Idle("idle")
<1>1. KRepair \in Nat /\ <<>> \in Mappings
  BY AuthorAssumption, MappingIs
<1>2. Fresh \in Sessions
  BY <1>1 DEF Fresh, Sessions
<1> QED
  BY <1>2 DEF Idle, Fresh, Sessions

\* Nothing is asked of a session that is over, or has just begun.
LEMMA IdleInv ==
    ASSUME NEW p \in {"idle", "dialog"}, s' = Idle(p),
           crates' \in [Names -> Contents], intents' \in [Names -> Intents \cup {NoIntent}],
           experiments' \in [Names -> Contents], log' \in [Names -> Seq(Entries)],
           torn' \in [Names -> BOOLEAN], sessions' \in Nat
    PROVE  IInv'
<1>1. s' \in Sessions /\ s'.pc = p /\ s'.said = <<>>
  BY IdleIs
<1>2. TypeOK'
  BY <1>1 DEF TypeOK
<1>3. WrittenSoFar' /\ SaidUntilEmitted'
  BY <1>1 DEF WrittenSoFar, SaidUntilEmitted, PastDialog, Written
<1>4. DecisionsSurvive'
  BY <1>1 DEF DecisionsSurvive
<1> QED
  BY <1>2, <1>3, <1>4 DEF IInv

\* The invariant holds before a session.
LEMMA InitInv == Init => IInv
<1> SUFFICES ASSUME Init PROVE IInv
  OBVIOUS
<1>1. s \in Sessions /\ s.pc = "idle" /\ s.said = <<>>
  BY IdleIs DEF Init
<1>2. TypeOK
  BY <1>1 DEF TypeOK, Init, Contents
<1>3. WrittenSoFar /\ SaidUntilEmitted /\ DecisionsSurvive
  BY <1>1 DEF WrittenSoFar, SaidUntilEmitted, DecisionsSurvive, PastDialog, Written
<1> QED
  BY <1>2, <1>3 DEF IInv

\* Every turn of the dialog, and a death while logging it, keeps the invariant.
LEMMA DialogInv ==
    ASSUME IInv, NEW b \in Mappings,
           \/ Talk(b) \/ Malformed(b)
           \/ \E i \in Intents : Rename(b, i)
           \/ \E i \in Intents, verify \in BOOLEAN : Finalize(b, i, verify)
           \/ DieLogging(b)
    PROVE  IInv'
<1> USE DEF IInv
<1>1. s.pc = "dialog" /\ UNCHANGED <<disk, sessions>>
  BY DEF Talk, Malformed, Rename, Finalize, DieLogging, Answer
<1>2. /\ crates' \in [Names -> Contents] /\ intents' \in [Names -> Intents \cup {NoIntent}]
      /\ experiments' \in [Names -> Contents] /\ sessions' \in Nat
      /\ torn \in [Names -> BOOLEAN] /\ log \in [Names -> Seq(Entries)]
  BY <1>1 DEF TypeOK, disk
<1>3. CASE DieLogging(b)
  <2>1. PICK n \in 0..Len(EventsOf(b)) - 1, cut \in BOOLEAN :
            /\ log' = Logged(RecordAfter(b), SubSeq(EventsOf(b), 1, n))
            /\ torn' = [torn EXCEPT ![RecordAfter(b)] = cut]
    BY <1>3 DEF DieLogging
  <2> DEFINE some == SubSeq(EventsOf(b), 1, n)
  <2>2. EventsOf(b) \in Seq(Entries)
    BY <1>1, AnswerKeeps
  <2>3. some \in Seq(Entries)
    <3>1. Len(EventsOf(b)) \in Nat /\ \A i \in 1..n : i \in 1..Len(EventsOf(b))
      BY <2>2, LenProperties
    <3>2. \A i \in 1..n : EventsOf(b)[i] \in Entries
      BY <2>2, <3>1
    <3> QED
      BY <2>2, <3>1, <3>2, SubSeqProperties
  <2> HIDE DEF some
  <2>4. log' \in [Names -> Seq(Entries)]
    <3>1. CASE RecordAfter(b) = NoName
      BY <1>2, <2>1, <3>1 DEF Logged
    <3>2. CASE RecordAfter(b) # NoName
      <4>1. log' = [log EXCEPT ![RecordAfter(b)] = log[RecordAfter(b)] \o some]
        BY <2>1, <3>2 DEF Logged, some
      <4>2. RecordAfter(b) \in Names => log[RecordAfter(b)] \o some \in Seq(Entries)
        BY <1>2, <2>3, ConcatProperties
      <4> QED
        BY <1>2, <4>1, <4>2
    <3> QED
      BY <3>1, <3>2
  <2>5. torn' \in [Names -> BOOLEAN] /\ s' = Idle("idle")
    BY <1>2, <1>3, <2>1 DEF DieLogging
  <2> QED
    BY <1>2, <2>4, <2>5, IdleInv
<1>4. ASSUME NEW more, more = <<>> \/ more = Event("intent_finalized"), NEW next,
             Answer(b, more, next),
             \/ next = Idle("idle")
             \/ /\ next \in Sessions /\ next.pc \in {"dialog", "emit"}
                /\ next.pc = "emit" => next.intent \in Intents
                /\ next.at = Ingested(b).at /\ next.pending = Ingested(b).pending
                /\ next.said = Ingested(b).said
      PROVE  IInv'
  <2>1. /\ log' = Logged(RecordAfter(b), EventsOf(b) \o more)
        /\ s' = next /\ UNCHANGED torn
    BY <1>4 DEF Answer
  <2>2. log' \in [Names -> Seq(Entries)] /\ SaidIsShown(Ingested(b), log')
    BY <1>1, <1>4, <2>1, AnswerKeeps
  <2>3. CASE next = Idle("idle")
    BY <1>2, <2>1, <2>2, <2>3, IdleInv
  <2>4. CASE /\ next \in Sessions /\ next.pc \in {"dialog", "emit"}
             /\ next.pc = "emit" => next.intent \in Intents
             /\ next.at = Ingested(b).at /\ next.pending = Ingested(b).pending
             /\ next.said = Ingested(b).said
    <3>1. TypeOK'
      BY <1>2, <2>1, <2>2, <2>4 DEF TypeOK
    <3>2. WrittenSoFar' /\ SaidUntilEmitted'
      BY <2>1, <2>4 DEF WrittenSoFar, SaidUntilEmitted, PastDialog, Written
    <3>3. DecisionsSurvive'
      BY <2>1, <2>2, <2>4 DEF DecisionsSurvive, Projection, SaidIsShown
    <3> QED
      BY <3>1, <3>2, <3>3
  <2> QED
    BY <1>4, <2>3, <2>4
<1>5. ASSUME NEW more, more = <<>> \/ more = Event("intent_finalized"),
             log' = Logged(RecordAfter(b), EventsOf(b) \o more)
      PROVE  Ingested(b) \in Sessions /\ Ingested(b).pc = "dialog"
  BY <1>1, <1>5, AnswerKeeps
<1>6. CASE Talk(b)
  <2>1. log' = Logged(RecordAfter(b), EventsOf(b) \o <<>>)
    BY <1>6 DEF Talk, Answer
  <2> DEFINE x == Ingested(b)
             y == [x EXCEPT !.turn = @ + 1]
  <2>2. x \in Sessions /\ x.pc = "dialog"
    BY <1>5, <2>1
  <2>3. Answer(b, <<>>, IF s.turn + 1 = MaxTurns THEN Idle("idle") ELSE y)
    BY <1>6 DEF Talk
  <2> HIDE DEF x
  <2>4. y \in Sessions /\ y.pc = "dialog" /\ y.at = x.at /\ y.pending = x.pending /\ y.said = x.said
    BY <2>2 DEF Sessions
  <2> HIDE DEF y
  <2> QED
    BY <1>4, <2>3, <2>4 DEF x
<1>7. CASE Malformed(b) \/ \E i \in Intents : Rename(b, i)
  <2>1. Answer(b, <<>>, Idle("idle"))
    BY <1>7 DEF Malformed, Rename
  <2> QED
    BY <1>4, <2>1
<1>8. CASE \E i \in Intents, verify \in BOOLEAN : Finalize(b, i, verify)
  <2>1. PICK i \in Intents, verify \in BOOLEAN : Finalize(b, i, verify)
    BY <1>8
  <2>2. log' = Logged(RecordAfter(b), EventsOf(b) \o Event("intent_finalized"))
    BY <2>1 DEF Finalize, Answer
  <2> DEFINE x == Ingested(b)
             y == [x EXCEPT !.pc = "emit", !.intent = i]
  <2>3. x \in Sessions /\ x.pc = "dialog"
    BY <1>5, <2>2
  <2>4. Answer(b, Event("intent_finalized"), IF verify /\ ~i.spec THEN Idle("idle") ELSE y)
    BY <2>1 DEF Finalize
  <2> HIDE DEF x
  <2>5. /\ y \in Sessions /\ y.pc = "emit" /\ y.intent = i
        /\ y.at = x.at /\ y.pending = x.pending /\ y.said = x.said
    BY <2>3 DEF Sessions, PastDialog
  <2> HIDE DEF y
  <2> QED
    BY <1>4, <2>4, <2>5 DEF x
<1> QED
  BY <1>3, <1>6, <1>7, <1>8

\* Contents that age stay contents.
LEMMA AgedType == ASSUME NEW c \in Contents PROVE Aged(c) \in Contents
  BY DEF Aged, Contents

\* What comes of a failed attempt.
LEMMA RetryIs ==
    ASSUME NEW x \in Sessions
    PROVE  /\ Retry(x) \in Sessions /\ Retry(x).pc \in {"emit", "exhausted"}
           /\ Retry(x).intent = x.intent /\ Retry(x).said = x.said
<1>1. CASE x.attempt < x.budget
  <2>1. Retry(x) = [x EXCEPT !.pc = "emit", !.attempt = x.attempt + 1]
    BY <1>1 DEF Retry
  <2>2. x.attempt + 1 \in Nat
    BY DEF Sessions
  <2> QED
    BY <2>1, <2>2 DEF Sessions, PastDialog
<1>2. CASE ~(x.attempt < x.budget)
  <2>1. Retry(x) = [x EXCEPT !.pc = "exhausted"]
    BY <1>2 DEF Retry
  <2> QED
    BY <2>1 DEF Sessions, PastDialog
<1> QED
  BY <1>1, <1>2

\* Emitting files, well formed or not, and a death while writing them, keep the invariant.
LEMMA EmitInv == ASSUME IInv, EmitMalformed \/ EmitFiles \/ DieWriting PROVE IInv'
<1> USE DEF IInv
<1> DEFINE n == s.intent.name
<1>1. PICK content, next :
        /\ Emission(content, next)
        /\ \/ content = Aged(crates[n]) /\ next = Retry(s)
           \/ content = "new" /\ next = [s EXCEPT !.pc = "build"]
           \/ content \in {Aged(crates[n]), "mixed", "new"} /\ next = Idle("idle")
  BY DEF EmitMalformed, EmitFiles, DieWriting
<1>2. /\ s.pc = "emit"
      /\ crates' = [[m \in Names |-> Aged(crates[m])] EXCEPT ![n] = content]
      /\ experiments' = [m \in Names |-> Aged(experiments[m])]
      /\ s' = [next EXCEPT !.said = <<>>]
      /\ UNCHANGED <<intents, log, torn, sessions>>
  BY <1>1 DEF Emission
<1>3. s.intent \in Intents /\ n \in Names /\ s \in Sessions
  BY <1>2 DEF WrittenSoFar, TypeOK, Intents, PastDialog
<1>4. content \in Contents
  BY <1>1, <1>3, AgedType DEF TypeOK, Contents
<1>5. /\ crates' \in [Names -> Contents] /\ experiments' \in [Names -> Contents]
      /\ crates'[n] = content
  BY <1>2, <1>3, <1>4, AgedType DEF TypeOK
<1>6. /\ intents' \in [Names -> Intents \cup {NoIntent}] /\ log' \in [Names -> Seq(Entries)]
      /\ torn' \in [Names -> BOOLEAN] /\ sessions' \in Nat
  BY <1>2 DEF TypeOK
<1>7. CASE next = Idle("idle")
  <2>1. s' = Idle("idle")
    BY <1>2, <1>7, IdleIs DEF Sessions
  <2> QED
    BY <1>5, <1>6, <2>1, IdleInv
<1>8. CASE next # Idle("idle")
  <2>1. /\ next \in Sessions /\ next.pc \in {"emit", "exhausted", "build"}
        /\ next.intent = s.intent
        /\ next.pc = "build" => content = "new"
    <3>1. CASE next = Retry(s)
      BY <1>3, <3>1, RetryIs
    <3>2. CASE content = "new" /\ next = [s EXCEPT !.pc = "build"]
      BY <1>3, <3>2 DEF Sessions, PastDialog
    <3> QED
      BY <1>1, <1>8, <3>1, <3>2
  <2>2. s' \in Sessions /\ s'.pc = next.pc /\ s'.intent = s.intent /\ s'.said = <<>>
    BY <1>2, <2>1, MappingIs DEF Sessions
  <2>3. TypeOK'
    BY <1>5, <1>6, <2>2 DEF TypeOK
  <2>4. s'.pc = "build" => crates'[s'.intent.name] = "new"
    BY <1>5, <2>1, <2>2
  <2>5. WrittenSoFar' /\ SaidUntilEmitted'
    BY <1>3, <2>1, <2>2, <2>4 DEF WrittenSoFar, SaidUntilEmitted, PastDialog, Written
  <2>6. DecisionsSurvive'
    BY <2>2 DEF DecisionsSurvive
  <2> QED
    BY <2>3, <2>5, <2>6
<1> QED
  BY <1>7, <1>8

\* Every step of an attempt after emission keeps the invariant.
LEMMA AttemptInv ==
    ASSUME IInv, RejectBuild \/ Build \/ RejectSmoke \/ Smoke \/ PersistIntent \/ PersistExperiment
    PROVE  IInv'
<1> USE DEF IInv
<1> DEFINE n == s.intent.name
<1>1. /\ s.pc \in {"build", "smoke", "persist", "experiment"} /\ crates[n] = "new"
      /\ s \in Sessions /\ s.intent \in Intents /\ n \in Names /\ s.said = <<>>
      /\ UNCHANGED <<crates, log, torn, sessions>>
      /\ s.intent.spec \in BOOLEAN
  <2>1. /\ s.pc \in {"build", "smoke", "persist", "experiment"}
        /\ UNCHANGED <<crates, log, torn, sessions>>
    BY DEF RejectBuild, Build, RejectSmoke, Smoke, PersistIntent, PersistExperiment, disk
  <2>2. crates[n] = "new" /\ s.intent \in Intents
    BY <2>1 DEF WrittenSoFar, PastDialog, Written
  <2>3. s.said = <<>> /\ s \in Sessions
    BY <2>1 DEF SaidUntilEmitted, TypeOK
  <2> QED
    BY <2>1, <2>2, <2>3, AuthorAssumption DEF Intents
<1>2. ASSUME s' \in Sessions, s'.intent = s.intent, s'.said = <<>>,
             intents' \in [Names -> Intents \cup {NoIntent}],
             experiments' \in [Names -> Contents],
             s'.pc \in PastDialog \ {"emit"},
             s'.pc \in {"persist", "experiment", "done"} => s'.hash = "new",
             s'.pc \in {"experiment", "done"} => intents'[n] = s.intent,
             s'.pc = "experiment" => s.intent.spec,
             (s'.pc = "done" /\ s.intent.spec) => experiments'[n] = "new"
      PROVE  IInv'
  <2>1. TypeOK'
    BY <1>1, <1>2 DEF TypeOK
  <2>2. WrittenSoFar' /\ SaidUntilEmitted'
    BY <1>1, <1>2 DEF WrittenSoFar, SaidUntilEmitted
  <2>3. DecisionsSurvive'
    BY <1>2 DEF DecisionsSurvive
  <2> QED
    BY <2>1, <2>2, <2>3
<1>3. CASE RejectBuild \/ RejectSmoke
  <2>1. s' = Retry(s) /\ UNCHANGED <<intents, experiments>>
    BY <1>3 DEF RejectBuild, RejectSmoke, disk
  <2>2. /\ s' \in Sessions /\ s'.intent = s.intent /\ s'.said = <<>>
        /\ s'.pc \in {"emit", "exhausted"}
    BY <1>1, <2>1, RetryIs
  <2>3. TypeOK'
    BY <1>1, <2>1, <2>2 DEF TypeOK
  <2>4. WrittenSoFar' /\ SaidUntilEmitted' /\ DecisionsSurvive'
    BY <1>1, <2>2 DEF WrittenSoFar, SaidUntilEmitted, DecisionsSurvive, Written
  <2> QED
    BY <2>3, <2>4
<1>4. CASE Build
  <2>1. s' = [s EXCEPT !.pc = "smoke"] /\ UNCHANGED <<intents, experiments>>
    BY <1>4 DEF Build, disk
  <2>2. s' \in Sessions /\ s'.intent = s.intent /\ s'.said = <<>> /\ s'.pc = "smoke"
    BY <1>1, <2>1 DEF Sessions, PastDialog
  <2> QED
    BY <1>2, <2>1, <2>2 DEF TypeOK, PastDialog
<1>5. CASE Smoke
  <2>1. s' = [s EXCEPT !.pc = "persist", !.hash = "new"] /\ UNCHANGED <<intents, experiments>>
    BY <1>5 DEF Smoke, disk
  <2>2. /\ s' \in Sessions /\ s'.intent = s.intent /\ s'.said = <<>> /\ s'.pc = "persist"
        /\ s'.hash = "new"
    BY <1>1, <2>1 DEF Sessions, PastDialog
  <2> QED
    BY <1>2, <2>1, <2>2 DEF TypeOK, PastDialog
<1>6. CASE PersistIntent
  <2> DEFINE p == IF s.intent.spec THEN "experiment" ELSE "done"
  <2>1. /\ intents' = [intents EXCEPT ![n] = s.intent] /\ s' = [s EXCEPT !.pc = p]
        /\ UNCHANGED experiments /\ s.pc = "persist" /\ s.hash = "new"
    BY <1>6 DEF PersistIntent, WrittenSoFar
  <2>2. p \in {"experiment", "done"} /\ (p = "experiment" <=> s.intent.spec)
    BY <1>1
  <2> HIDE DEF p
  <2>3. /\ s' \in Sessions /\ s'.intent = s.intent /\ s'.said = <<>> /\ s'.pc = p
        /\ s'.hash = "new"
    BY <1>1, <2>1, <2>2 DEF Sessions, PastDialog
  <2>4. intents' \in [Names -> Intents \cup {NoIntent}] /\ intents'[n] = s.intent
    BY <1>1, <2>1 DEF TypeOK
  <2> QED
    BY <1>2, <2>1, <2>2, <2>3, <2>4 DEF TypeOK, PastDialog
<1>7. CASE PersistExperiment
  <2>1. /\ experiments' = [experiments EXCEPT ![n] = s.hash] /\ s' = [s EXCEPT !.pc = "done"]
        /\ UNCHANGED intents /\ s.pc = "experiment" /\ s.hash = "new" /\ intents[n] = s.intent
    BY <1>7 DEF PersistExperiment, WrittenSoFar
  <2>2. /\ s' \in Sessions /\ s'.intent = s.intent /\ s'.said = <<>> /\ s'.pc = "done"
        /\ s'.hash = "new"
    BY <1>1, <2>1 DEF Sessions, PastDialog
  <2>3. experiments' \in [Names -> Contents] /\ experiments'[n] = "new"
    BY <1>1, <2>1 DEF TypeOK, Contents
  <2> QED
    BY <1>2, <2>1, <2>2, <2>3 DEF TypeOK, PastDialog
<1> QED
  BY <1>3, <1>4, <1>5, <1>6, <1>7

\* The menu of an exhausted budget keeps the invariant.
LEMMA MenuInv ==
    ASSUME IInv, \/ RecordExhaustion
                 \/ \E k \in -1..MaxK : ExtendBudget(k)
                 \/ \E i \in Intents : Amend(i)
    PROVE  IInv'
<1> USE DEF IInv
<1>1. /\ s.pc \in {"exhausted", "menu"} /\ s \in Sessions /\ s.intent \in Intents
      /\ s.said = <<>> /\ UNCHANGED <<crates, intents, experiments, torn, sessions>>
  <2>1. s.pc \in {"exhausted", "menu"} /\ UNCHANGED <<crates, intents, experiments, torn, sessions>>
    BY DEF RecordExhaustion, ExtendBudget, Amend, Choose, disk
  <2> QED
    BY <2>1 DEF SaidUntilEmitted, TypeOK, WrittenSoFar, PastDialog
<1>2. ASSUME s' \in Sessions, s'.pc \in {"menu", "emit"}, s'.intent \in Intents, s'.said = <<>>,
             log' \in [Names -> Seq(Entries)]
      PROVE  IInv'
  <2>1. TypeOK'
    BY <1>1, <1>2 DEF TypeOK
  <2>2. WrittenSoFar' /\ SaidUntilEmitted' /\ DecisionsSurvive'
    BY <1>2 DEF WrittenSoFar, SaidUntilEmitted, DecisionsSurvive, Written
  <2> QED
    BY <2>1, <2>2
<1>3. CASE RecordExhaustion
  <2>1. /\ log' = Logged(s.at, Event("repair_budget_exhausted")) /\ s' = [s EXCEPT !.pc = "menu"]
    BY <1>3 DEF RecordExhaustion
  <2>2. s' \in Sessions /\ s'.pc = "menu" /\ s'.intent = s.intent /\ s'.said = s.said
    BY <1>1, <2>1 DEF Sessions, PastDialog
  <2>3. log' \in [Names -> Seq(Entries)]
    <3> DEFINE e == Event("repair_budget_exhausted")
    <3>1. e \in Seq(Entries)
      BY RemarkType
    <3>2. log' = log \/ log' = [log EXCEPT ![s.at] = log[s.at] \o e]
      BY <2>1 DEF Logged
    <3> HIDE DEF e
    <3>3. log \in [Names -> Seq(Entries)]
      BY DEF TypeOK
    <3>4. \A m \in Names : log[m] \o e \in Seq(Entries)
      BY <3>1, <3>3, ConcatProperties
    <3>5. CASE log' = [log EXCEPT ![s.at] = log[s.at] \o e]
      <4>1. ASSUME NEW m \in Names PROVE log'[m] \in Seq(Entries)
        BY <3>3, <3>4, <3>5
      <4> QED
        BY <3>3, <3>5, <4>1
    <3> QED
      BY <3>2, <3>3, <3>5
  <2> QED
    BY <1>1, <1>2, <2>2, <2>3
<1>4. /\ Again \in Sessions /\ Again.pc = "emit" /\ Again.intent = s.intent
      /\ Again.said = <<>>
  <2>1. s.menus + 1 \in Nat
    BY <1>1 DEF Sessions
  <2>2. Again = [s EXCEPT !.pc = "emit", !.attempt = 0, !.menus = s.menus + 1]
    BY DEF Again
  <2> QED
    BY <1>1, <2>1, <2>2 DEF Sessions, PastDialog
<1>5. CASE \E k \in -1..MaxK : ExtendBudget(k)
  <2>1. PICK k \in -1..MaxK : s' = IF k < 0 THEN Idle("idle") ELSE [Again EXCEPT !.budget = k]
    BY <1>5 DEF ExtendBudget, Choose
  <2>2. log' = log
    BY <1>5 DEF ExtendBudget, Choose
  <2>3. CASE k < 0
    BY <1>1, <2>1, <2>2, <2>3, IdleInv DEF TypeOK
  <2>4. CASE ~(k < 0)
    <3>1. k \in Nat
      BY <2>4, AuthorAssumption
    <3>2. /\ s' \in Sessions /\ s'.pc = "emit" /\ s'.intent = s.intent /\ s'.said = <<>>
      BY <1>4, <2>1, <2>4, <3>1 DEF Sessions
    <3> QED
      BY <1>1, <1>2, <2>2, <3>2 DEF TypeOK
  <2> QED
    BY <2>3, <2>4
<1>6. CASE \E i \in Intents : Amend(i)
  <2>1. PICK i \in Intents : s' = [Again EXCEPT !.intent = i]
    BY <1>6 DEF Amend, Choose
  <2>2. log' = log
    BY <1>6 DEF Amend, Choose
  <2>3. s' \in Sessions /\ s'.pc = "emit" /\ s'.intent = i /\ s'.said = <<>>
    BY <1>4, <2>1 DEF Sessions
  <2> QED
    BY <1>2, <2>2, <2>3 DEF TypeOK
<1> QED
  BY <1>3, <1>5, <1>6

-----------------------------------------------------------------------------
(* The theorems                                                            *)

\* The invariant is inductive.
THEOREM InductiveInvariant == Spec => []IInv
<1>1. IInv /\ [Next]_vars => IInv'
  <2> SUFFICES ASSUME IInv, [Next]_vars PROVE IInv'
    OBVIOUS
  <2>1. CASE \/ Start \/ Abort \/ AmendMalformed \/ Die
             \/ \E b \in Mappings : RecordUnreadable(b)
    <3>1. /\ \E p \in {"idle", "dialog"} : s' = Idle(p)
          /\ UNCHANGED <<crates, intents, experiments, log, torn>>
          /\ sessions' \in {sessions, sessions + 1}
      BY <2>1 DEF Start, Abort, AmendMalformed, Die, RecordUnreadable, Choose, disk
    <3> QED
      BY <3>1, IdleInv DEF IInv, TypeOK
  <2>2. CASE \E b \in Mappings :
                \/ Talk(b) \/ Malformed(b)
                \/ \E i \in Intents : Rename(b, i)
                \/ \E i \in Intents, verify \in BOOLEAN : Finalize(b, i, verify)
                \/ DieLogging(b)
    BY <2>2, DialogInv
  <2>3. CASE EmitMalformed \/ EmitFiles \/ DieWriting
    BY <2>3, EmitInv
  <2>4. CASE RejectBuild \/ Build \/ RejectSmoke \/ Smoke \/ PersistIntent \/ PersistExperiment
    BY <2>4, AttemptInv
  <2>5. CASE \/ RecordExhaustion
             \/ \E k \in -1..MaxK : ExtendBudget(k)
             \/ \E i \in Intents : Amend(i)
    BY <2>5, MenuInv
  <2>6. CASE UNCHANGED vars
    BY <2>6
    DEF vars, disk, IInv, TypeOK, WrittenSoFar, SaidUntilEmitted, DecisionsSurvive, Projection
  <2> QED
    BY <2>1, <2>2, <2>3, <2>4, <2>5, <2>6 DEF Next, Step, Fault
<1> QED
  BY <1>1, InitInv, PTL DEF Spec

\* A strategy that is reported is on disk, whole and of one emission, with its
\* intent and its experiment (AcceptedIsOnDisk).
THEOREM AcceptedAlwaysOnDisk == Spec => []AcceptedIsOnDisk
<1>1. IInv => AcceptedIsOnDisk
  BY DEF IInv, WrittenSoFar, AcceptedIsOnDisk, Written
<1> QED
  BY <1>1, InductiveInvariant, PTL

\* What the dialog has said of a field last is what the buffer or the record
\* shows (DecisionsSurvive).
THEOREM DecisionsAlwaysSurvive == Spec => []DecisionsSurvive
  BY InductiveInvariant, PTL DEF IInv
=============================================================================
