-------------------------- MODULE ProgressBus_proofs --------------------------
(***************************************************************************)
(* Proofs about the progress bus, for any phases, any runs and any number  *)
(* of begins and ticks.  The inductive invariant says in which call the    *)
(* main thread is and how far, which tick may be held back or on its way   *)
(* there, and what of the current phase of each path was shown.            *)
(***************************************************************************)
EXTENDS ProgressBus, SequenceTheorems, TLAPS

Paths == BlockPaths \cup {Account(r) : r \in Runs} \cup {Bars(r) : r \in Runs}
In == {Block(b) : b \in Range(stack)}

Release(p) == [do |-> "release", path |-> p]
Opening(p) == [do |-> "open", path |-> p]
Enter(b) == [do |-> "enter", block |-> b]
Drain(S) == [do |-> "drain", ticks |-> S]
Unwind(L) == [do |-> "unwind", paths |-> L]

\* What may be delivered of path p: the begin, the latest count, an end.
FirstOf(p) == Event("begin", p, 0, "none")
NextBegin(p) == [FirstOf(p) EXCEPT !.gen = @ + 1]
Latest(p) == Event("tick", p, said[p], "none")
EndOf(p, status) == Event("end", p, 0, status)

Events == [kind : {"begin", "tick", "end"}, path : BlockPaths, gen : Nat, current : Nat,
           status : {"none", "ok", "fail", "cancelled"}]

TypeOK ==
    /\ open \subseteq Paths /\ stack \in Seq(Blocks)
    /\ mode \in {"running", "raising", "draining", "interrupted", "ended"}
    /\ begun \in [BlockPaths -> Nat] /\ said \in [BlockPaths -> Nat]
    /\ shown \in [BlockPaths -> Seq(Events)]
    /\ pending \subseteq {Latest(p) : p \in BlockPaths}

\* What was shown of the current phase of a path.
Of(p) == {i \in DOMAIN shown[p] : shown[p][i].gen = begun[p]}
\* The current phase of a path has begun, and not ended, before the sinks.
Live(p) ==
    /\ shown[p] # <<>> /\ Last(shown[p]).gen = begun[p]
    /\ \E i \in Of(p) : shown[p][i].kind = "begin"
    /\ \A i \in Of(p) : shown[p][i].kind # "end"
\* The latest count of a path may be shown.
Due(p) == Live(p) /\ \A i \in Of(p) : shown[p][i].current <= said[p]
\* The latest count was shown, or there is none.
Counted(p) == said[p] > 0 => \E i \in Of(p) : shown[p][i].current = said[p]
Cancelled(p) == \E i \in Of(p) : shown[p][i].status = "cancelled"

ShownFits ==
    \A p \in BlockPaths : \A i \in DOMAIN shown[p] :
        /\ shown[p][i].gen <= begun[p] /\ shown[p][i].path = p
        /\ shown[p][i].status = "ok" => shown[p][i].kind = "end"

\* A tick held back is the latest of a phase that goes on; none is after an interrupt.
HeldIsDue ==
    /\ \A p \in BlockPaths : Held(p) # {} => Due(p)
    /\ mode \in {"interrupted", "ended"} => pending = {}

\* The blocks the main thread is in are open, and their counts seen or on their way.
BlocksGoOn ==
    /\ \A i, j \in DOMAIN stack : stack[i] = stack[j] => i = j
    /\ mode \in {"running", "raising"} => In \subseteq open
    /\ mode = "running" => \A p \in In :
          /\ Live(p) /\ \A i \in Of(p) : shown[p][i].current <= said[p]
          /\ Counted(p) \/ Held(p) # {} \/ todo = << Deliver(Latest(p)) >>

HeldIn(S) == \A e \in pending : e.path \in S
\* While the interrupt unwinds: what is left to close, what is left to cancel.
Unclosed(L) == open \cap BlockPaths \subseteq L
Uncancelled(L) == \A p \in In : p \in L \/ Cancelled(p)

(* The call the main thread is in *)
Resting ==
    /\ todo = <<>>
    /\ mode \in {"running", "raising"} => HeldIn(In)
    /\ mode = "draining" => pending = {} /\ Unclosed({}) /\ Uncancelled({})
Beginning ==
    /\ mode = "running" /\ HeldIn(In)
    /\ \E b \in Blocks \ Range(stack) :
        LET p == Block(b)
        IN  \/ todo = << Opening(p), Deliver(NextBegin(p)), Enter(b) >>
            \/ todo = << Deliver(FirstOf(p)), Enter(b) >> /\ Of(p) = {} /\ said[p] = 0 /\ p \in open
            \/ todo = << Enter(b) >> /\ Due(p) /\ said[p] = 0 /\ p \in open
Ticking ==
    /\ mode = "running" /\ HeldIn(In)
    /\ \E p \in In : todo = << Deliver(Latest(p)) >> /\ Held(p) = {}
Ending ==
    /\ mode \in {"running", "raising", "interrupted"}
    /\ \E b \in Blocks \ Range(stack), status \in {"ok", "fail"} :
        LET p == Block(b)
            e == EndOf(p, status)
        IN  /\ HeldIn(In \cup {p}) /\ (status = "ok" <=> mode = "running")
            /\ \/ /\ todo = << Release(p), Close(p), Deliver(e) >>
                  /\ status = "ok" => Counted(p) \/ Held(p) # {}
               \/ /\ todo = << Deliver(Latest(p)), Close(p), Deliver(e) >>
                  /\ Held(p) = {} /\ Due(p)
               \/ /\ todo \in { << Close(p), Deliver(e) >>, << Deliver(e) >> }
                  /\ Held(p) = {} /\ (status = "ok" => Counted(p))
Draining ==
    /\ mode = "draining"
    /\ \/ todo = << [do |-> "flush"], [do |-> "cancel"] >> /\ In \subseteq open
       \/ /\ pending = {} /\ In \subseteq open
          /\ \E S \in SUBSET {Latest(p) : p \in BlockPaths} :
                todo = << Drain(S), [do |-> "cancel"] >> /\ \A e \in S : Due(e.path)
       \/ todo = << [do |-> "cancel"] >> /\ pending = {} /\ In \subseteq open
Unwinding ==
    /\ mode = "draining" /\ pending = {}
    /\ \E L \in SUBSET Paths :
        \/ todo = << Unwind(L) >> /\ Unclosed(L) /\ Uncancelled(L)
        \/ \E p \in Paths \ BlockPaths :
              todo = << Close(p), Unwind(L) >> /\ Unclosed(L) /\ Uncancelled(L)
        \/ \E p \in BlockPaths :
              LET e == EndOf(p, "cancelled")
              IN  /\ Uncancelled(L \cup {p})
                  /\ \/ /\ todo \in { << Release(p), Close(p), Deliver(e), Unwind(L) >>,
                                      << Close(p), Deliver(e), Unwind(L) >> }
                        /\ Unclosed(L \cup {p})
                     \/ todo = << Deliver(e), Unwind(L) >> /\ Unclosed(L)
Closing == mode = "ended" /\ todo \in { << [do |-> "flush"] >>, << Drain({}) >> }

Doing == Resting \/ Beginning \/ Ticking \/ Ending \/ Draining \/ Unwinding \/ Closing

IInv == TypeOK /\ ShownFits /\ HeldIsDue /\ BlocksGoOn /\ Doing /\ TicksAreTrue

----------------------------------------------------------------------------
(* Sequences *)

\* What the main thread is at is the first of the steps put before the rest.
LEMMA Singles == ASSUME NEW x, NEW y PROVE <<x>> \o <<y>> = <<x, y>>
<1> DEFINE S == {x, y}
           r == <<x>> \o <<y>>
<1>1. <<x>> \in Seq(S) /\ <<y>> \in Seq(S)
  OBVIOUS
<1>2. r \in Seq(S) /\ Len(r) = 2 /\ r[1] = x /\ r[2] = y
  BY <1>1, ConcatProperties
<1> HIDE DEF r, S
<1>3. r = <<x, y>>
  BY <1>2
<1> QED
  BY <1>3 DEF r

\* Joined tuples, which the provers do not compute.
LEMMA OneTwo == ASSUME NEW x, NEW y, NEW z PROVE <<x>> \o <<y, z>> = <<x, y, z>>
<1> DEFINE S == {x, y, z}
           r == <<x>> \o <<y, z>>
<1>1. <<x>> \in Seq(S) /\ <<y, z>> \in Seq(S)
  OBVIOUS
<1>2. r \in Seq(S) /\ Len(r) = 3 /\ r[1] = x /\ r[2] = y /\ r[3] = z
  BY <1>1, ConcatProperties
<1> HIDE DEF r, S
<1>3. r = <<x, y, z>>
  BY <1>2
<1> QED
  BY <1>3 DEF r

\* The same of two and one.
LEMMA TwoOne == ASSUME NEW x, NEW y, NEW z PROVE <<x, y>> \o <<z>> = <<x, y, z>>
<1> DEFINE S == {x, y, z}
           r == <<x, y>> \o <<z>>
<1>1. <<x, y>> \in Seq(S) /\ <<z>> \in Seq(S)
  OBVIOUS
<1>2. r \in Seq(S) /\ Len(r) = 3 /\ r[1] = x /\ r[2] = y /\ r[3] = z
  BY <1>1, ConcatProperties
<1> HIDE DEF r, S
<1>3. r = <<x, y, z>>
  BY <1>2
<1> QED
  BY <1>3 DEF r

\* The same of three and one.
LEMMA ThreeOne == ASSUME NEW w, NEW x, NEW y, NEW z
                  PROVE <<w, x, y>> \o <<z>> = <<w, x, y, z>>
<1> DEFINE S == {w, x, y, z}
           r == <<w, x, y>> \o <<z>>
<1>1. <<w, x, y>> \in Seq(S) /\ <<z>> \in Seq(S)
  OBVIOUS
<1>2. r \in Seq(S) /\ Len(r) = 4 /\ r[1] = w /\ r[2] = x /\ r[3] = y /\ r[4] = z
  BY <1>1, ConcatProperties
<1> HIDE DEF r, S
<1>3. r = <<w, x, y, z>>
  BY <1>2
<1> QED
  BY <1>3 DEF r

\* What a step leaves of a call of one, two, three or four steps.
LEMMA Rests ==
    /\ <<>> \o <<>> = <<>>
    /\ \A w : /\ Head(<<w>>) = w /\ Tail(<<w>>) = <<>> /\ <<w>> # <<>>
              /\ <<w>> \o <<>> = <<w>> /\ <<>> \o <<w>> = <<w>>
    /\ \A w, x : /\ Head(<<w, x>>) = w /\ Tail(<<w, x>>) = <<x>> /\ <<w, x>> # <<>>
                 /\ <<w, x>> \o <<>> = <<w, x>> /\ <<>> \o <<w, x>> = <<w, x>>
    /\ \A w, x, y : /\ Head(<<w, x, y>>) = w /\ Tail(<<w, x, y>>) = <<x, y>>
                    /\ <<w, x, y>> # <<>> /\ <<>> \o <<w, x, y>> = <<w, x, y>>
    /\ \A w, x, y, z : /\ Head(<<w, x, y, z>>) = w /\ Tail(<<w, x, y, z>>) = <<x, y, z>>
                       /\ <<w, x, y, z>> # <<>>
                       /\ <<w, x, y, z>> \o <<>> = <<w, x, y, z>>
  OBVIOUS

\* A block entered is innermost; one left was the innermost.
LEMMA PushIs == ASSUME NEW s \in Seq(Blocks), NEW b \in Blocks \ Range(s),
                       \A i, j \in DOMAIN s : s[i] = s[j] => i = j,
                       NEW t, t = <<b>> \o s
                PROVE /\ t \in Seq(Blocks) /\ Range(t) = Range(s) \cup {b}
                      /\ \A i, j \in DOMAIN t : t[i] = t[j] => i = j
<1>1. /\ t \in Seq(Blocks) /\ Len(t) = Len(s) + 1 /\ t[1] = b
      /\ \A i \in 1..Len(s) : t[i + 1] = s[i]
  BY ConcatProperties
<1>2. \A i \in 2..Len(t) : i - 1 \in 1..Len(s) /\ t[i] = s[i - 1]
  BY <1>1
<1>3. \A i \in 1..Len(s) : s[i] # b
  BY DEF Range
<1>4. Range(t) = Range(s) \cup {b}
  <2>1. DOMAIN t = 1..Len(t) /\ DOMAIN s = 1..Len(s)
    BY <1>1
  <2>2. ASSUME NEW x \in Range(t) PROVE x \in Range(s) \cup {b}
    BY <1>1, <1>2, <2>1 DEF Range
  <2>3. ASSUME NEW x \in Range(s) PROVE x \in Range(t)
    <3>1. PICK i \in 1..Len(s) : x = s[i]
      BY <2>1 DEF Range
    <3>2. i + 1 \in 1..Len(t) /\ t[i + 1] = x
      BY <1>1, <3>1
    <3> QED
      BY <2>1, <3>2 DEF Range
  <2>4. b \in Range(t)
    BY <1>1, <2>1 DEF Range
  <2> QED
    BY <2>2, <2>3, <2>4
<1>5. ASSUME NEW i \in DOMAIN t, NEW j \in DOMAIN t, t[i] = t[j] PROVE i = j
  BY <1>1, <1>2, <1>3, <1>5
<1> QED
  BY <1>1, <1>4, <1>5

\* What is left of a stack without repetition once its top is popped.
LEMMA PopIs == ASSUME NEW s \in Seq(Blocks), s # <<>>,
                      \A i, j \in DOMAIN s : s[i] = s[j] => i = j,
                      NEW t, t = Tail(s)
               PROVE /\ t \in Seq(Blocks) /\ Head(s) \in Blocks \ Range(t)
                     /\ Head(s) \in Range(s) /\ Range(t) = Range(s) \ {Head(s)}
                     /\ \A i, j \in DOMAIN t : t[i] = t[j] => i = j
<1>1. /\ t \in Seq(Blocks) /\ Len(t) = Len(s) - 1 /\ Len(s) >= 1 /\ Head(s) = s[1]
      /\ \A i \in 1..Len(t) : t[i] = s[i + 1]
  OBVIOUS
<1>2. DOMAIN t = 1..Len(t) /\ DOMAIN s = 1..Len(s)
  BY <1>1
<1>3. Head(s) \in Blocks /\ Head(s) \in Range(s)
  BY <1>1, <1>2 DEF Range
<1>4. ASSUME NEW x \in Range(t) PROVE x \in Range(s) \ {Head(s)}
  <2>1. PICK i \in 1..Len(t) : x = t[i]
    BY <1>2 DEF Range
  <2>2. i + 1 \in DOMAIN s /\ i + 1 # 1 /\ 1 \in DOMAIN s /\ x = s[i + 1]
    BY <1>1, <1>2, <2>1
  <2> QED
    BY <1>1, <2>2 DEF Range
<1>5. ASSUME NEW x \in Range(s) \ {Head(s)} PROVE x \in Range(t)
  <2>1. PICK i \in 1..Len(s) : x = s[i]
    BY <1>2 DEF Range
  <2>2. i # 1
    BY <1>1, <2>1
  <2>3. i - 1 \in 1..Len(t) /\ t[i - 1] = x
    BY <1>1, <2>1, <2>2
  <2> QED
    BY <1>2, <2>3 DEF Range
<1>6. ASSUME NEW i \in DOMAIN t, NEW j \in DOMAIN t, t[i] = t[j] PROVE i = j
  BY <1>1, <1>2, <1>6
<1> QED
  BY <1>1, <1>3, <1>4, <1>5, <1>6

----------------------------------------------------------------------------
(* Paths and events *)

\* A block's path is its own, and no run's.
LEMMA PathsApart == /\ \A b, c : Block(b) = Block(c) => b = c
                    /\ \A b \in Blocks : Block(b) \in BlockPaths /\ Block(b) \in Paths
                    /\ \A b, r : Block(b) # Account(r) /\ Block(b) # Bars(r)
                    /\ \A r \in Runs : Account(r) \in Paths \ BlockPaths
                                       /\ Bars(r) \in Paths \ BlockPaths
                    /\ BlockPaths \subseteq Paths
  BY DEF Block, Account, Bars, BlockPaths, Paths

\* The events that the calls build are events, of their path and generation.
LEMMA EventsFit ==
    ASSUME TypeOK, NEW p \in BlockPaths
    PROVE /\ FirstOf(p) \in Events /\ Latest(p) \in Events
          /\ \A status \in {"ok", "fail", "cancelled"} : EndOf(p, status) \in Events
          /\ FirstOf(p).kind = "begin" /\ Latest(p).kind = "tick"
          /\ FirstOf(p).status = "none" /\ Latest(p).status = "none"
          /\ FirstOf(p).path = p /\ Latest(p).path = p
          /\ FirstOf(p).gen = begun[p] /\ Latest(p).gen = begun[p]
          /\ FirstOf(p).current = 0 /\ Latest(p).current = said[p]
          /\ \A s : EndOf(p, s).kind = "end" /\ EndOf(p, s).status = s /\ EndOf(p, s).path = p
                    /\ EndOf(p, s).gen = begun[p]
  BY DEF TypeOK, Events, FirstOf, Latest, EndOf, Event

\* What was shown is seen the same while nothing is shown, begun or counted.
LEMMA Same ==
    ASSUME UNCHANGED <<begun, said, shown>>
    PROVE /\ \A p : /\ Of(p)' = Of(p) /\ Live(p)' = Live(p) /\ Due(p)' = Due(p)
                    /\ Counted(p)' = Counted(p) /\ Cancelled(p)' = Cancelled(p)
                    /\ FirstOf(p)' = FirstOf(p) /\ NextBegin(p)' = NextBegin(p)
                    /\ Latest(p)' = Latest(p)
          /\ \A p, s : EndOf(p, s)' = EndOf(p, s)
          /\ ShownFits => ShownFits'
          /\ TicksAreTrue => TicksAreTrue'
  BY DEF Of, Live, Due, Counted, Cancelled, FirstOf, NextBegin, Latest, EndOf, Event,
         ShownFits, TicksAreTrue

\* An event that may be shown of its path, shown.
Showable(e) ==
    /\ e \in Events /\ e.gen = begun[e.path]
    /\ e.kind = "tick" => e = Latest(e.path) /\ Due(e.path)
    /\ e.status = "ok" => e.kind = "end" /\ Counted(e.path)

\* What one more event shown does to the invariants about what is shown.
LEMMA ShownIs ==
    ASSUME TypeOK, ShownFits, TicksAreTrue, NEW e, Showable(e), Show(e),
           UNCHANGED <<begun, said>>
    PROVE /\ shown' \in [BlockPaths -> Seq(Events)] /\ ShownFits' /\ TicksAreTrue'
          /\ \A q \in BlockPaths \ {e.path} :
                /\ Of(q)' = Of(q) /\ Live(q)' = Live(q) /\ Due(q)' = Due(q)
                /\ Counted(q)' = Counted(q) /\ Cancelled(q)' = Cancelled(q)
          /\ Counted(e.path) => Counted(e.path)'
          /\ Cancelled(e.path) \/ e.status = "cancelled" => Cancelled(e.path)'
          /\ e.kind = "tick" => Due(e.path)' /\ Counted(e.path)'
          /\ e = FirstOf(e.path) /\ Of(e.path) = {} /\ said[e.path] = 0 => Due(e.path)'
<1> PICK p : p = e.path
  OBVIOUS
<1> PICK n : n = Len(shown[p]) + 1
  OBVIOUS
<1>1. p \in BlockPaths /\ e \in Events /\ e.gen = begun[p]
  BY DEF Showable, Events
<1>2. shown[p] \in Seq(Events) /\ n \in Nat \ {0} /\ DOMAIN shown[p] = 1..(n - 1)
  BY <1>1 DEF TypeOK
<1>3. shown' = [shown EXCEPT ![p] = Append(shown[p], e)]
  BY DEF Show
<1>4. shown'[p] = Append(shown[p], e)
  BY <1>1, <1>3 DEF TypeOK
<1>5. /\ shown'[p] \in Seq(Events) /\ Len(shown'[p]) = n /\ shown'[p][n] = e
      /\ \A i \in 1..(n - 1) : shown'[p][i] = shown[p][i]
  BY <1>1, <1>2, <1>4
<1>6. DOMAIN shown'[p] = 1..n
  BY <1>5
<1>7. Last(shown[p])' = e /\ shown'[p] # <<>>
  BY <1>2, <1>5 DEF Last
<1>8. Of(p)' = Of(p) \cup {n} /\ n \notin Of(p) /\ Of(p) \subseteq 1..(n - 1)
  <2>1. Of(p)' = {i \in 1..n : shown'[p][i].gen = begun[p]}
    BY <1>6 DEF Of
  <2>2. Of(p) = {i \in 1..(n - 1) : shown[p][i].gen = begun[p]}
    BY <1>2 DEF Of
  <2>3. \A i : i \in 1..n <=> i \in 1..(n - 1) \/ i = n
    BY <1>2
  <2>4. n \notin 1..(n - 1)
    BY <1>2
  <2>5. shown'[p][n].gen = begun[p]
    BY <1>1, <1>5
  <2>6. \A i \in 1..(n - 1) : shown'[p][i].gen = shown[p][i].gen
    BY <1>5
  <2> QED
    BY <2>1, <2>2, <2>3, <2>4, <2>5, <2>6
<1>9. shown' \in [BlockPaths -> Seq(Events)]
  BY <1>1, <1>3, <1>4, <1>5 DEF TypeOK
<1>10. \A q \in BlockPaths \ {p} : shown'[q] = shown[q] /\ Last(shown[q])' = Last(shown[q])
  BY <1>1, <1>3 DEF TypeOK, Last
<1>11. ASSUME NEW q \in BlockPaths \ {p}
       PROVE /\ Of(q)' = Of(q) /\ Live(q)' = Live(q) /\ Due(q)' = Due(q)
             /\ Counted(q)' = Counted(q) /\ Cancelled(q)' = Cancelled(q)
  BY <1>10 DEF Of, Live, Due, Counted, Cancelled
<1>12. \A i \in Of(p) : i \in Of(p)' /\ shown'[p][i] = shown[p][i]
  BY <1>5, <1>8
<1>13. n \in Of(p)'
  BY <1>8
<1>14. Counted(p) => Counted(p)'
  BY <1>12 DEF Counted
<1>15. Cancelled(p) \/ e.status = "cancelled" => Cancelled(p)'
  BY <1>5, <1>12, <1>13 DEF Cancelled
<1>16. said[p] \in Nat
  BY <1>1 DEF TypeOK
<1>17. ASSUME e.kind = "tick" PROVE e = Latest(p) /\ Due(p) /\ e.current = said[p]
  BY <1>1, <1>17, EventsFit DEF Showable
<1>18. ASSUME e.kind = "tick" PROVE Due(p)' /\ Counted(p)'
  <2>1. Due(p) /\ e.current = said[p]
    BY <1>17, <1>18
  <2>2. Live(p)'
    BY <1>1, <1>5, <1>7, <1>8, <1>12, <1>18, <2>1, SMTT(30) DEF Live, Due
  <2>3. \A i \in Of(p)' : shown'[p][i].current <= said[p]
    BY <1>5, <1>8, <1>12, <1>16, <2>1, SMTT(30) DEF Due
  <2> QED
    BY <1>5, <1>13, <2>1, <2>2, <2>3 DEF Due, Counted
<1>19. ASSUME e = FirstOf(p), Of(p) = {}, said[p] = 0 PROVE Due(p)'
  <2>1. Of(p)' = {n} /\ e.kind = "begin" /\ e.current = 0
    BY <1>1, <1>8, <1>19, EventsFit
  <2> QED
    <3>1. shown'[p][n] = e /\ Last(shown[p])' = e
      BY <1>5, <1>7
    <3>2. \A i \in Of(p)' : shown'[p][i] = e
      BY <2>1, <3>1
    <3>3. e.kind = "begin" /\ e.kind # "end" /\ e.current = 0 /\ said'[p] = 0 /\ n \in Of(p)'
          /\ e.gen = begun'[p] /\ shown'[p] # <<>>
      BY <1>1, <1>7, <1>19, <2>1
    <3>4. /\ shown'[p] # <<>> /\ Last(shown[p])'.gen = begun'[p]
          /\ \E i \in Of(p)' : shown'[p][i].kind = "begin"
      BY <3>1, <3>3
    <3>5. \A i \in Of(p)' : shown'[p][i].kind # "end" /\ shown'[p][i].current <= said'[p]
      BY <3>2, <3>3
    <3> QED
      BY <3>4, <3>5, Zenon DEF Due, Live
<1>20. ShownFits'
  <2> SUFFICES ASSUME NEW q \in BlockPaths, NEW i \in DOMAIN shown'[q]
               PROVE /\ shown'[q][i].gen <= begun[q] /\ shown'[q][i].path = q
                     /\ shown'[q][i].status = "ok" => shown'[q][i].kind = "end"
    BY DEF ShownFits
  <2>1. CASE q # p
    BY <1>10, <2>1 DEF ShownFits
  <2>2. CASE q = p /\ i \in 1..(n - 1)
    BY <1>2, <1>5, <2>2 DEF ShownFits
  <2>3. CASE q = p /\ i = n
    BY <1>1, <1>5, <2>3 DEF Showable, TypeOK
  <2> QED
    BY <1>2, <1>6, <2>1, <2>2, <2>3
<1>21. TicksAreTrue'
  <2> SUFFICES ASSUME NEW b \in Blocks, NEW q, q = Block(b)
               PROVE /\ \A i \in DOMAIN shown'[q] : shown'[q][i].kind = "tick" =>
                         /\ \E j \in 1..i : /\ shown'[q][j].kind = "begin"
                                            /\ shown'[q][j].gen = shown'[q][i].gen
                         /\ \A j \in 1..i : shown'[q][j].gen = shown'[q][i].gen =>
                                /\ shown'[q][j].kind # "end"
                                /\ shown'[q][j].current <= shown'[q][i].current
                     /\ shown'[q] # <<>> /\ Last(shown[q])'.status = "ok" /\ said[q] > 0 =>
                         \E i \in DOMAIN shown'[q] : /\ shown'[q][i].gen = begun[q]
                                                     /\ shown'[q][i].current = said[q]
    BY DEF TicksAreTrue
  <2>1. q \in BlockPaths
    BY DEF BlockPaths
  <2>2. CASE q # p
    BY <1>10, <2>1, <2>2 DEF TicksAreTrue
  <2>3. CASE q = p
    <3>1. ASSUME NEW i \in 1..(n - 1), shown'[q][i].kind = "tick"
          PROVE /\ \E j \in 1..i : /\ shown'[q][j].kind = "begin"
                                   /\ shown'[q][j].gen = shown'[q][i].gen
                /\ \A j \in 1..i : shown'[q][j].gen = shown'[q][i].gen =>
                       /\ shown'[q][j].kind # "end"
                       /\ shown'[q][j].current <= shown'[q][i].current
      <4>1. \A j \in 1..i : j \in 1..(n - 1) /\ shown'[q][j] = shown[q][j]
        BY <1>2, <1>5, <2>3
      <4>2. i \in DOMAIN shown[q] /\ shown'[q][i] = shown[q][i] /\ i \in 1..i
        BY <1>2, <2>3, <1>5
      <4> QED
        BY <3>1, <4>1, <4>2 DEF TicksAreTrue
    <3>2. ASSUME e.kind = "tick"
          PROVE /\ \E j \in 1..n : shown'[q][j].kind = "begin" /\ shown'[q][j].gen = e.gen
                /\ \A j \in 1..n : shown'[q][j].gen = e.gen =>
                       shown'[q][j].kind # "end" /\ shown'[q][j].current <= e.current
      <4>1. Due(p)' /\ e.current = said[p]
        BY <1>17, <1>18, <3>2
      <4>2. \A j \in 1..n : shown'[q][j].gen = e.gen => j \in Of(p)'
        BY <1>1, <1>6, <2>3 DEF Of
      <4>3. \A j \in Of(p)' : j \in 1..n /\ shown'[q][j].gen = e.gen
        BY <1>1, <1>6, <2>3 DEF Of
      <4> QED
        BY <2>3, <4>1, <4>2, <4>3 DEF Due, Live
    <3>3. ASSUME e.status = "ok", said[p] > 0
          PROVE \E i \in 1..n : shown'[q][i].gen = begun[q] /\ shown'[q][i].current = said[q]
      <4>1. Counted(p)'
        BY <1>14, <3>3 DEF Showable
      <4>2. PICK i \in Of(p)' : shown'[p][i].current = said[p]
        BY <3>3, <4>1 DEF Counted
      <4> QED
        BY <1>6, <2>3, <4>2 DEF Of
    <3>4. \A i \in 1..n : i \in 1..(n - 1) \/ i = n
      BY <1>2
    <3>5. shown'[q][n] = e /\ DOMAIN shown'[q] = 1..n /\ Last(shown[q])' = e
      BY <1>5, <1>6, <1>7, <2>3
    <3>6. ASSUME NEW i \in 1..n, shown'[q][i].kind = "tick"
          PROVE /\ \E j \in 1..i : /\ shown'[q][j].kind = "begin"
                                   /\ shown'[q][j].gen = shown'[q][i].gen
                /\ \A j \in 1..i : shown'[q][j].gen = shown'[q][i].gen =>
                       /\ shown'[q][j].kind # "end"
                       /\ shown'[q][j].current <= shown'[q][i].current
      BY <3>1, <3>2, <3>4, <3>5, <3>6, SMTT(30)
    <3>7. \A i \in DOMAIN shown'[q] : shown'[q][i].kind = "tick" =>
             /\ \E j \in 1..i : /\ shown'[q][j].kind = "begin"
                                /\ shown'[q][j].gen = shown'[q][i].gen
             /\ \A j \in 1..i : shown'[q][j].gen = shown'[q][i].gen =>
                    /\ shown'[q][j].kind # "end"
                    /\ shown'[q][j].current <= shown'[q][i].current
      BY <3>5, <3>6
    <3>8. Last(shown[q])'.status = "ok" /\ said[q] > 0 =>
             \E i \in DOMAIN shown'[q] : /\ shown'[q][i].gen = begun[q]
                                         /\ shown'[q][i].current = said[q]
      BY <2>3, <3>3, <3>5
    <3> QED
      BY <3>7, <3>8
  <2> QED
    BY <2>2, <2>3
<1> QED
  BY <1>9, <1>11, <1>14, <1>15, <1>18, <1>19, <1>20, <1>21

----------------------------------------------------------------------------
(* Steps *)

\* What the steps are called.
LEMMA Kinds == \A p, b, e, S, L :
    /\ Release(p).do = "release" /\ Opening(p).do = "open" /\ Close(p).do = "close"
    /\ Enter(b).do = "enter" /\ Deliver(e).do = "deliver"
    /\ Drain(S).do = "drain" /\ Unwind(L).do = "unwind"
    /\ Release(p).path = p /\ Opening(p).path = p /\ Close(p).path = p
    /\ Deliver(e).event = e /\ Drain(S).ticks = S /\ Unwind(L).paths = L
  BY DEF Release, Opening, Close, Enter, Deliver, Drain, Unwind

\* The first steps of the calls the main thread may be in.
LEMMA Steps ==
    /\ Resting => Idle
    /\ Beginning => ~Idle /\ Head(todo).do \in {"open", "deliver", "enter"}
    /\ Ticking => ~Idle /\ Head(todo).do = "deliver"
    /\ Ending => ~Idle /\ Head(todo).do \in {"release", "close", "deliver"}
    /\ Draining => ~Idle /\ Head(todo).do \in {"flush", "drain", "cancel"}
    /\ Unwinding => ~Idle /\ Head(todo).do \in {"unwind", "release", "close", "deliver"}
    /\ Closing => ~Idle /\ Head(todo).do \in {"flush", "drain"}
<1> USE DEF Idle, Release, Opening, Enter, Drain, Unwind, Deliver, Close
<1>1. Resting => Idle
  BY DEF Resting
<1>2. Beginning => ~Idle /\ Head(todo).do \in {"open", "deliver", "enter"}
  BY DEF Beginning
<1>3. Ticking => ~Idle /\ Head(todo).do = "deliver"
  BY DEF Ticking
<1>4. Ending => ~Idle /\ Head(todo).do \in {"release", "close", "deliver"}
  BY DEF Ending
<1>5. Draining => ~Idle /\ Head(todo).do \in {"flush", "drain", "cancel"}
  BY DEF Draining
<1>6. Unwinding => ~Idle /\ Head(todo).do \in {"unwind", "release", "close", "deliver"}
  <2> HAVE Unwinding
  <2>1. \E L, p, e : todo \in { << Unwind(L) >>, << Close(p), Unwind(L) >>,
                               << Release(p), Close(p), Deliver(e), Unwind(L) >>,
                               << Close(p), Deliver(e), Unwind(L) >>,
                               << Deliver(e), Unwind(L) >> }
    <3> USE DEF Unwinding
    <3> HIDE DEF Idle, Release, Opening, Enter, Drain, Unwind, Deliver, Close
    <3> QED
      BY Zenon
  <2> QED
    BY <2>1
<1>7. Closing => ~Idle /\ Head(todo).do \in {"flush", "drain"}
  BY DEF Closing
<1> QED
  BY <1>1, <1>2, <1>3, <1>4, <1>5, <1>6, <1>7

\* Where a block that ends, or the cancelling of one, has come to.
LEMMA EndingAt ==
    ASSUME Ending
    PROVE /\ mode \in {"running", "raising", "interrupted"}
          /\ \E b \in Blocks \ Range(stack), status \in {"ok", "fail"} : \E p, e :
                /\ p = Block(b) /\ e = EndOf(p, status)
                /\ HeldIn(In \cup {p}) /\ (status = "ok" <=> mode = "running")
                /\ \/ /\ Head(todo).do = "release"
                      /\ todo = << Release(p), Close(p), Deliver(e) >>
                      /\ status = "ok" => Counted(p) \/ Held(p) # {}
                   \/ /\ Head(todo).do = "deliver"
                      /\ todo = << Deliver(Latest(p)), Close(p), Deliver(e) >>
                      /\ Held(p) = {} /\ Due(p)
                   \/ /\ Head(todo).do = "close" /\ todo = << Close(p), Deliver(e) >>
                      /\ Held(p) = {} /\ (status = "ok" => Counted(p))
                   \/ /\ Head(todo).do = "deliver" /\ todo = << Deliver(e) >>
                      /\ Held(p) = {} /\ (status = "ok" => Counted(p))
<1>1. PICK b \in Blocks \ Range(stack), status \in {"ok", "fail"} :
          LET p == Block(b)
              e == EndOf(p, status)
          IN  /\ HeldIn(In \cup {p}) /\ (status = "ok" <=> mode = "running")
              /\ \/ /\ todo = << Release(p), Close(p), Deliver(e) >>
                    /\ status = "ok" => Counted(p) \/ Held(p) # {}
                 \/ /\ todo = << Deliver(Latest(p)), Close(p), Deliver(e) >>
                    /\ Held(p) = {} /\ Due(p)
                 \/ /\ todo \in { << Close(p), Deliver(e) >>, << Deliver(e) >> }
                    /\ Held(p) = {} /\ (status = "ok" => Counted(p))
  BY DEF Ending
<1> PICK p : p = Block(b)
  OBVIOUS
<1> PICK e : e = EndOf(p, status)
  OBVIOUS
<1>2. CASE todo = << Release(p), Close(p), Deliver(e) >>
           /\ (status = "ok" => Counted(p) \/ Held(p) # {})
  <2>1. Head(todo).do = "release"
    BY <1>2, Kinds, Rests
  <2> QED
    BY <1>1, <1>2, <2>1 DEF Ending
<1>3. CASE /\ todo = << Deliver(Latest(p)), Close(p), Deliver(e) >>
           /\ Held(p) = {} /\ Due(p)
  <2>1. Head(todo).do = "deliver"
    BY <1>3, Kinds, Rests
  <2> QED
    BY <1>1, <1>3, <2>1 DEF Ending
<1>4. CASE /\ todo = << Close(p), Deliver(e) >>
           /\ Held(p) = {} /\ (status = "ok" => Counted(p))
  <2>1. Head(todo).do = "close"
    BY <1>4, Kinds, Rests
  <2> QED
    BY <1>1, <1>4, <2>1 DEF Ending
<1>5. CASE /\ todo = << Deliver(e) >>
           /\ Held(p) = {} /\ (status = "ok" => Counted(p))
  <2>1. Head(todo).do = "deliver"
    BY <1>5, Kinds, Rests
  <2> QED
    BY <1>1, <1>5, <2>1 DEF Ending
<1> QED
  BY <1>1, <1>2, <1>3, <1>4, <1>5

\* Where an unwinding can be, by the head of what is still to do.
LEMMA UnwindingAt ==
    ASSUME Unwinding
    PROVE /\ mode = "draining" /\ pending = {}
          /\ \E L \in SUBSET Paths : \E p, e :
              \/ /\ Head(todo).do = "unwind" /\ todo = << Unwind(L) >>
                 /\ Unclosed(L) /\ Uncancelled(L)
              \/ /\ Head(todo).do = "close" /\ todo = << Close(p), Unwind(L) >>
                 /\ p \in Paths \ BlockPaths /\ Unclosed(L) /\ Uncancelled(L)
              \/ /\ p \in BlockPaths /\ e = EndOf(p, "cancelled") /\ Uncancelled(L \cup {p})
                 /\ \/ /\ Head(todo).do = "release"
                       /\ todo = << Release(p), Close(p), Deliver(e), Unwind(L) >>
                       /\ Unclosed(L \cup {p})
                    \/ /\ Head(todo).do = "close"
                       /\ todo = << Close(p), Deliver(e), Unwind(L) >>
                       /\ Unclosed(L \cup {p})
                    \/ /\ Head(todo).do = "deliver"
                       /\ todo = << Deliver(e), Unwind(L) >> /\ Unclosed(L)
<1>1. PICK L \in SUBSET Paths :
          \/ todo = << Unwind(L) >> /\ Unclosed(L) /\ Uncancelled(L)
          \/ \E p \in Paths \ BlockPaths :
                todo = << Close(p), Unwind(L) >> /\ Unclosed(L) /\ Uncancelled(L)
          \/ \E p \in BlockPaths :
                LET e == EndOf(p, "cancelled")
                IN  /\ Uncancelled(L \cup {p})
                    /\ \/ /\ todo \in { << Release(p), Close(p), Deliver(e), Unwind(L) >>,
                                        << Close(p), Deliver(e), Unwind(L) >> }
                          /\ Unclosed(L \cup {p})
                       \/ todo = << Deliver(e), Unwind(L) >> /\ Unclosed(L)
  BY DEF Unwinding
<1>2. CASE todo = << Unwind(L) >> /\ Unclosed(L) /\ Uncancelled(L)
  <2>1. Head(todo).do = "unwind"
    BY <1>2, Kinds, Rests
  <2> QED
    BY <1>2, <2>1 DEF Unwinding
<1>3. ASSUME NEW p \in Paths \ BlockPaths, todo = << Close(p), Unwind(L) >>,
             Unclosed(L), Uncancelled(L)
      PROVE Head(todo).do = "close"
  BY <1>3, Kinds, Rests
<1>4. ASSUME NEW p \in BlockPaths, NEW e,
             todo = << Release(p), Close(p), Deliver(e), Unwind(L) >>
      PROVE Head(todo).do = "release"
  BY <1>4, Kinds, Rests
<1>5. ASSUME NEW p \in BlockPaths, NEW e, todo = << Close(p), Deliver(e), Unwind(L) >>
      PROVE Head(todo).do = "close"
  BY <1>5, Kinds, Rests
<1>6. ASSUME NEW e, todo = << Deliver(e), Unwind(L) >>
      PROVE Head(todo).do = "deliver"
  BY <1>6, Kinds, Rests
<1>7. CASE \E p \in Paths \ BlockPaths :
              todo = << Close(p), Unwind(L) >> /\ Unclosed(L) /\ Uncancelled(L)
  BY <1>3, <1>7 DEF Unwinding
<1>8. ASSUME NEW p \in BlockPaths, NEW e, e = EndOf(p, "cancelled"), Uncancelled(L \cup {p}),
             \/ /\ todo \in { << Release(p), Close(p), Deliver(e), Unwind(L) >>,
                              << Close(p), Deliver(e), Unwind(L) >> }
                /\ Unclosed(L \cup {p})
             \/ todo = << Deliver(e), Unwind(L) >> /\ Unclosed(L)
      PROVE \/ /\ Head(todo).do = "release"
               /\ todo = << Release(p), Close(p), Deliver(e), Unwind(L) >>
               /\ Unclosed(L \cup {p})
            \/ /\ Head(todo).do = "close"
               /\ todo = << Close(p), Deliver(e), Unwind(L) >>
               /\ Unclosed(L \cup {p})
            \/ /\ Head(todo).do = "deliver"
               /\ todo = << Deliver(e), Unwind(L) >> /\ Unclosed(L)
  BY <1>4, <1>5, <1>6, <1>8
<1> QED
  BY <1>1, <1>2, <1>7, <1>8 DEF Unwinding

\* A step that shows, begins and counts nothing, and holds back nothing more.
LEMMA Quiet ==
    ASSUME IInv, UNCHANGED <<begun, said, shown>>, pending' \subseteq pending,
           open' \subseteq Paths, stack' \in Seq(Blocks),
           mode' \in {"running", "raising", "draining", "interrupted", "ended"}
    PROVE /\ TypeOK' /\ ShownFits' /\ TicksAreTrue'
          /\ \A p \in BlockPaths : Held(p)' \subseteq Held(p) /\ (Held(p)' # {} => Due(p)')
          /\ pending = {} => pending' = {}
<1>1. \A p \in BlockPaths : Held(p)' \subseteq Held(p)
  BY DEF Held
<1>2. TypeOK'
  BY Same DEF IInv, TypeOK
<1> QED
  BY <1>1, <1>2, Same DEF IInv, HeldIsDue

\* A step of the runs, or of the clock: nothing of the blocks is touched.
LEMMA Elsewhere ==
    ASSUME IInv, UNCHANGED <<pending, stack, mode, todo, begun, said, shown>>,
           open' \subseteq Paths, open' \cap BlockPaths = open \cap BlockPaths
    PROVE IInv'
<1>1. TypeOK' /\ ShownFits' /\ TicksAreTrue'
  BY Quiet DEF IInv, TypeOK
<1>2. /\ \A p : Held(p)' = Held(p)
      /\ \A S : HeldIn(S)' = HeldIn(S)
      /\ In' = In /\ In \subseteq BlockPaths
  BY DEF Held, HeldIn, In, IInv, TypeOK, BlockPaths, Range
<1>3. \A p \in BlockPaths : (p \in open') = (p \in open)
  OBVIOUS
<1>4. HeldIsDue'
  BY <1>2, Same DEF IInv, HeldIsDue
<1>5. BlocksGoOn'
  BY <1>2, <1>3, Same DEF IInv, BlocksGoOn
<1>6. \A L : Unclosed(L)' = Unclosed(L) /\ Uncancelled(L)' = Uncancelled(L)
  BY <1>2, Same DEF Unclosed, Uncancelled
<1>7. Doing'
  <2>1. CASE Resting
    BY <1>2, <1>6, <2>1 DEF Resting, Doing
  <2>2. CASE Beginning
    BY <1>2, <1>3, <2>2, Same, PathsApart DEF Beginning, Doing
  <2>3. CASE Ticking
    BY <1>2, <2>3, Same DEF Ticking, Doing
  <2>4. CASE Ending
    BY <1>2, <2>4, Same DEF Ending, Doing
  <2>5. CASE Draining
    BY <1>2, <1>3, <2>5, Same DEF Draining, Doing
  <2>6. CASE Unwinding
    BY <1>6, <2>6, Same DEF Unwinding, Doing
  <2>7. CASE Closing
    BY <2>7 DEF Closing, Doing
  <2> QED
    BY <2>1, <2>2, <2>3, <2>4, <2>5, <2>6, <2>7 DEF IInv, Doing
<1> QED
  BY <1>1, <1>4, <1>5, <1>7 DEF IInv

\* An exception in a block: what is shown and held back stays.
LEMMA ExceptionKeeps == ASSUME IInv, Raise PROVE IInv'
<1>1. TypeOK' /\ ShownFits' /\ TicksAreTrue'
  BY Quiet DEF Raise, IInv, TypeOK
<1>2. (\A p : Held(p)' = Held(p)) /\ In' = In /\ HeldIn(In)' = HeldIn(In)
  BY DEF Raise, Held, HeldIn, In
<1>3. HeldIsDue'
  BY <1>2, Same DEF Raise, IInv, HeldIsDue
<1>4. BlocksGoOn'
  BY <1>2 DEF Raise, IInv, BlocksGoOn
<1>5. Resting
  BY Steps DEF Raise, IInv, Doing
<1>6. Doing'
  BY <1>2, <1>5 DEF Raise, Resting, Doing, Idle
<1> QED
  BY <1>1, <1>3, <1>4, <1>6 DEF IInv

\* An interrupt drops what was under way: what is to do is a flush and the cancelling.
LEMMA InterruptKeeps == ASSUME IInv, Interrupt PROVE IInv'
<1>1. TypeOK' /\ ShownFits' /\ TicksAreTrue'
  BY Quiet DEF Interrupt, IInv, TypeOK
<1>2. (\A p : Held(p)' = Held(p)) /\ In' = In
  BY DEF Interrupt, Held, In
<1>3. HeldIsDue'
  BY <1>2, Same DEF Interrupt, IInv, HeldIsDue
<1>4. BlocksGoOn' /\ In' \subseteq open'
  BY <1>2 DEF Interrupt, IInv, BlocksGoOn
<1>5. Doing'
  BY <1>4 DEF Interrupt, Draining, Doing
<1> QED
  BY <1>1, <1>3, <1>4, <1>5 DEF IInv

\* The drain is over and KeyboardInterrupt is raised.
LEMMA PropagateKeeps == ASSUME IInv, Propagate PROVE IInv'
<1>1. TypeOK' /\ ShownFits' /\ TicksAreTrue'
  BY Quiet DEF Propagate, IInv, TypeOK
<1>2. \A p : Held(p)' = Held(p)
  BY DEF Propagate, Held
<1>3. Resting
  BY Steps DEF Propagate, IInv, Doing
<1>4. HeldIsDue'
  BY <1>2, <1>3, Same DEF Propagate, IInv, HeldIsDue, Resting
<1>5. BlocksGoOn'
  BY DEF Propagate, IInv, BlocksGoOn
<1>6. Doing'
  BY <1>3 DEF Propagate, Resting, Doing
<1> QED
  BY <1>1, <1>4, <1>5, <1>6 DEF IInv

\* An interrupt after the drain raises where it comes.
LEMMA InterruptAgainKeeps == ASSUME IInv, InterruptAgain PROVE IInv'
<1>1. TypeOK' /\ ShownFits' /\ TicksAreTrue'
  BY Quiet DEF InterruptAgain, IInv, TypeOK
<1>2. \A p : Held(p)' = Held(p)
  BY DEF InterruptAgain, Held
<1>3. HeldIsDue'
  BY <1>2, Same DEF InterruptAgain, IInv, HeldIsDue
<1>4. BlocksGoOn'
  BY DEF InterruptAgain, IInv, BlocksGoOn
<1>5. Doing'
  BY DEF InterruptAgain, Resting, Doing
<1> QED
  BY <1>1, <1>3, <1>4, <1>5 DEF IInv

\* The session ends with a flush.
LEMMA EndSessionKeeps == ASSUME IInv, EndSession PROVE IInv'
<1>1. TypeOK' /\ ShownFits' /\ TicksAreTrue'
  BY Quiet DEF EndSession, IInv, TypeOK
<1>2. In = {}
  BY DEF EndSession, In, Range
<1>3. Resting
  BY Steps DEF EndSession, IInv, Doing
<1>4. pending = {}
  BY <1>2, <1>3 DEF EndSession, Resting, HeldIn, IInv, HeldIsDue
<1>5. HeldIsDue'
  BY <1>4 DEF EndSession, HeldIsDue, Held
<1>6. BlocksGoOn'
  BY DEF EndSession, IInv, BlocksGoOn
<1>7. Doing'
  BY DEF EndSession, Closing, Doing
<1> QED
  BY <1>1, <1>5, <1>6, <1>7 DEF IInv

\* flush takes the pending ticks.
LEMMA FlushKeeps == ASSUME IInv, FlushTicks PROVE IInv'
<1>1. TypeOK' /\ ShownFits' /\ TicksAreTrue'
  BY Quiet DEF FlushTicks, IInv, TypeOK
<1>2. HeldIsDue' /\ pending' = {}
  BY DEF FlushTicks, HeldIsDue, Held
<1>3. In' = In
  BY DEF FlushTicks, In
<1>4. Draining \/ Closing
  BY Steps DEF FlushTicks, At, IInv, Doing
<1>5. CASE Draining
  <2>1. mode = "draining" /\ mode' = "draining"
    BY <1>5 DEF Draining, FlushTicks
  <2>2. todo = << [do |-> "flush"], [do |-> "cancel"] >> /\ In \subseteq open
    BY <1>5 DEF Draining, FlushTicks, At, Drain
  <2>3. Then(<< Drain(pending) >>)
    BY DEF FlushTicks, Drain
  <2>4. todo' = << Drain(pending), [do |-> "cancel"] >>
    BY <2>2, <2>3, Rests, Singles DEF Then
  <2>5. pending \in SUBSET {Latest(p) : p \in BlockPaths}
        /\ \A p : Latest(p)' = Latest(p)
    BY Same DEF FlushTicks, IInv, TypeOK
  <2>6. ASSUME NEW e \in pending PROVE Due(e.path)'
    <3>1. PICK p \in BlockPaths : e = Latest(p)
      BY <2>5
    <3>2. e.path = p
      BY <3>1 DEF Latest, Event
    <3>3. e \in Held(p)
      BY <3>2 DEF Held
    <3> QED
      BY <3>2, <3>3, Same DEF FlushTicks, IInv, HeldIsDue
  <2>7. BlocksGoOn'
    BY <2>1 DEF FlushTicks, IInv, BlocksGoOn
  <2>8. Draining'
    <3>1. In' \subseteq open'
      BY <1>3, <2>2 DEF FlushTicks
    <3>2. \E S \in SUBSET {Latest(p)' : p \in BlockPaths} :
              todo' = << Drain(S), [do |-> "cancel"] >> /\ \A e \in S : Due(e.path)'
      BY <2>4, <2>5, <2>6
    <3> QED
      BY <1>2, <2>1, <3>1, <3>2 DEF Draining, Drain
  <2> QED
    BY <1>1, <1>2, <2>7, <2>8 DEF IInv, Doing
<1>6. CASE Closing
  <2>1. todo = << [do |-> "flush"] >> /\ mode = "ended" /\ mode' = "ended"
    BY <1>6 DEF Closing, FlushTicks, At, Drain
  <2>2. pending = {}
    BY <2>1 DEF IInv, HeldIsDue
  <2>3. todo' = << Drain({}) >>
    BY <2>1, <2>2, Rests DEF FlushTicks, Then, Drain
  <2>4. BlocksGoOn'
    BY <2>1 DEF FlushTicks, IInv, BlocksGoOn
  <2>5. Closing'
    BY <2>1, <2>3 DEF Closing, Drain
  <2> QED
    BY <1>1, <1>2, <2>4, <2>5 DEF IInv, Doing
<1> QED
  BY <1>4, <1>5, <1>6

\* cancel_all_open takes the paths that are open at its first step.
LEMMA CancelKeeps == ASSUME IInv, CancelAllOpen PROVE IInv'
<1>1. TypeOK' /\ ShownFits' /\ TicksAreTrue'
  BY Quiet DEF CancelAllOpen, IInv, TypeOK
<1>2. (\A p : Held(p)' = Held(p)) /\ In' = In
  BY DEF CancelAllOpen, Held, In
<1>3. HeldIsDue'
  BY <1>2, Same DEF CancelAllOpen, IInv, HeldIsDue
<1>4. Draining
  BY Steps DEF CancelAllOpen, At, IInv, Doing
<1>5. todo = << [do |-> "cancel"] >> /\ pending = {} /\ In \subseteq open /\ mode = "draining"
  BY <1>4 DEF Draining, CancelAllOpen, At, Drain
<1>6. BlocksGoOn'
  BY <1>5 DEF CancelAllOpen, IInv, BlocksGoOn
<1>7. todo' = << Unwind(open) >>
  BY <1>5, Rests DEF CancelAllOpen, Then, Unwind
<1>8. open \in SUBSET Paths /\ UNCHANGED <<open, pending, mode>>
  BY DEF IInv, TypeOK, CancelAllOpen
<1>9. \E L \in SUBSET Paths : todo' = << Unwind(L) >> /\ Unclosed(L)' /\ Uncancelled(L)'
  <2>1. PICK L : L = open
    OBVIOUS
  <2>2. Unclosed(L)' /\ Uncancelled(L)'
    BY <1>2, <1>5, <1>8, <2>1 DEF Unclosed, Uncancelled
  <2> QED
    BY <1>7, <1>8, <2>1, <2>2
<1>10. Unwinding'
  BY <1>5, <1>8, <1>9 DEF Unwinding, Unwind
<1> QED
  BY <1>1, <1>3, <1>6, <1>10 DEF IInv, Doing

\* A block begins: its phase is to be opened and shown.
LEMMA EnterKeeps == ASSUME IInv, EnterBlock PROVE IInv'
<1>1. TypeOK' /\ ShownFits' /\ TicksAreTrue'
  BY Quiet DEF EnterBlock, IInv, TypeOK
<1>2. (\A p : Held(p)' = Held(p)) /\ In' = In /\ HeldIn(In)' = HeldIn(In)
  BY DEF EnterBlock, Held, HeldIn, In
<1>3. HeldIsDue'
  BY <1>2, Same DEF EnterBlock, IInv, HeldIsDue
<1>4. Resting /\ mode = "running" /\ mode' = "running"
  BY Steps DEF EnterBlock, IInv, Doing
<1>5. BlocksGoOn'
  BY <1>2, <1>4, Same DEF EnterBlock, IInv, BlocksGoOn, Idle
<1>6. PICK b \in Blocks \ Range(stack) :
          todo' = Begin(Block(b)) \o << [do |-> "enter", block |-> b] >>
  BY DEF EnterBlock
<1>7. todo' = << Opening(Block(b)), Deliver(NextBegin(Block(b))), Enter(b) >>
  BY <1>6, TwoOne DEF Begin, Opening, Enter, NextBegin, FirstOf
<1>8. Beginning'
  <2>1. b \in Blocks \ Range(stack)'
    BY DEF EnterBlock
  <2>2. todo' = << Opening(Block(b)), Deliver(NextBegin(Block(b))'), Enter(b) >>
    BY <1>7, Same DEF EnterBlock
  <2> QED
    BY <1>2, <1>4, <2>1, <2>2 DEF Resting, Beginning, Opening, Deliver, Enter
<1> QED
  BY <1>1, <1>3, <1>5, <1>8 DEF IInv, Doing

\* A block whose begin is out is entered.
LEMMA InBlockKeeps == ASSUME IInv, InBlock PROVE IInv'
<1>1. Beginning /\ mode = "running" /\ mode' = "running" /\ HeldIn(In)
  BY Steps DEF InBlock, At, IInv, Doing, Beginning
<1>2. PICK b \in Blocks \ Range(stack) :
          todo = << Enter(b) >> /\ Due(Block(b)) /\ said[Block(b)] = 0 /\ Block(b) \in open
  BY <1>1 DEF Beginning, InBlock, At, Opening, Deliver
<1>3. stack' = << b >> \o stack /\ todo' = <<>>
  BY <1>2, Rests DEF InBlock, Then, Enter
<1>4. stack \in Seq(Blocks) /\ \A i, j \in DOMAIN stack : stack[i] = stack[j] => i = j
  BY DEF IInv, TypeOK, BlocksGoOn
<1>5. /\ stack' \in Seq(Blocks) /\ Range(stack') = Range(stack) \cup {b}
      /\ \A i, j \in DOMAIN stack' : stack'[i] = stack'[j] => i = j
  BY <1>3, <1>4, PushIs
<1>6. TypeOK' /\ ShownFits' /\ TicksAreTrue'
  BY <1>5, Quiet DEF InBlock, IInv, TypeOK
<1>7. (\A p : Held(p)' = Held(p)) /\ In' = In \cup {Block(b)}
  BY <1>5 DEF InBlock, Held, In
<1>8. HeldIsDue'
  BY <1>7, Same DEF InBlock, IInv, HeldIsDue
<1>9. BlocksGoOn'
  <2>1. In' \subseteq open'
    BY <1>1, <1>2, <1>7 DEF InBlock, IInv, BlocksGoOn
  <2>2. ASSUME NEW p \in In'
        PROVE /\ Live(p)' /\ \A i \in Of(p)' : shown'[p][i].current <= said'[p]
              /\ Counted(p)' \/ Held(p)' # {}
    <3>1. CASE p = Block(b)
      BY <1>2, <3>1, Same DEF InBlock, Due, Counted
    <3>2. CASE p \in In
      <4>1. << Enter(b) >> # << Deliver(Latest(p)) >>
        BY DEF Enter, Deliver
      <4> QED
        BY <1>1, <1>2, <1>7, <3>2, <4>1, Same DEF InBlock, IInv, BlocksGoOn
    <3> QED
      BY <1>7, <3>1, <3>2
  <2> QED
    BY <1>5, <2>1, <2>2 DEF BlocksGoOn
<1>10. Resting'
  BY <1>1, <1>3, <1>7 DEF InBlock, Resting, HeldIn
<1> QED
  BY <1>6, <1>8, <1>9, <1>10 DEF IInv, Doing

\* A block is left, by its end or by an exception.
LEMMA LeaveKeeps == ASSUME IInv, LeaveBlock PROVE IInv'
<1>1. Resting /\ mode' = mode /\ mode \in {"running", "raising", "interrupted"}
  BY Steps DEF LeaveBlock, IInv, Doing
<1>2. stack \in Seq(Blocks) /\ \A i, j \in DOMAIN stack : stack[i] = stack[j] => i = j
  BY DEF IInv, TypeOK, BlocksGoOn
<1>3. PICK b : b = Head(stack)
  OBVIOUS
<1>4. /\ stack' \in Seq(Blocks) /\ b \in Blocks \ Range(stack') /\ b \in Range(stack)
      /\ Range(stack') = Range(stack) \ {b}
      /\ \A i, j \in DOMAIN stack' : stack'[i] = stack'[j] => i = j
  BY <1>2, <1>3, PopIs DEF LeaveBlock
<1>5. PICK status \in {"ok", "fail"} :
          /\ status = "ok" <=> mode = "running"
          /\ todo' = End(Block(b), status)
  BY <1>1, <1>3 DEF LeaveBlock
<1>6. TypeOK' /\ ShownFits' /\ TicksAreTrue'
  BY <1>4, Quiet DEF LeaveBlock, IInv, TypeOK
<1>7. /\ \A p : Held(p)' = Held(p)
      /\ In' \subseteq In /\ Block(b) \in In /\ In = In' \cup {Block(b)}
  BY <1>4 DEF LeaveBlock, Held, In
<1>8. HeldIsDue'
  BY <1>7, Same DEF LeaveBlock, IInv, HeldIsDue
<1>9. todo = <<>>
  BY <1>1 DEF Resting
<1>10. BlocksGoOn'
  BY <1>1, <1>4, <1>7, <1>9, Same DEF LeaveBlock, IInv, BlocksGoOn
<1>11. Ending'
  <2>1. todo' = << Release(Block(b)), Close(Block(b)), Deliver(EndOf(Block(b), status)') >>
    BY <1>5, Same DEF LeaveBlock, End, Release, EndOf
  <2>2. status = "ok" => Counted(Block(b))' \/ Held(Block(b))' # {}
    <3>1. <<>> # << Deliver(Latest(Block(b))) >>
      OBVIOUS
    <3> QED
      BY <1>5, <1>7, <1>9, <3>1, Same DEF LeaveBlock, IInv, BlocksGoOn
  <2>3. HeldIn(In \cup {Block(b)})'
    <3>1. mode = "interrupted" => pending = {}
      BY DEF IInv, HeldIsDue
    <3>2. \A e \in pending : e.path \in In
      BY <1>1, <3>1 DEF Resting, HeldIn
    <3> QED
      BY <1>7, <3>2 DEF HeldIn, LeaveBlock
  <2> QED
    BY <1>1, <1>4, <1>5, <2>1, <2>2, <2>3 DEF Ending, Release, Close, Deliver
<1> QED
  BY <1>6, <1>8, <1>10, <1>11 DEF IInv, Doing

\* The drain cancels one more of the open paths.
LEMMA UnwindKeeps == ASSUME IInv, UnwindPhase PROVE IInv'
<1>1. TypeOK' /\ ShownFits' /\ TicksAreTrue'
  BY Quiet DEF UnwindPhase, IInv, TypeOK
<1>2. (\A p : Held(p)' = Held(p)) /\ In' = In
  BY DEF UnwindPhase, Held, In
<1>3. HeldIsDue'
  BY <1>2, Same DEF UnwindPhase, IInv, HeldIsDue
<1>4. Unwinding /\ mode = "draining" /\ mode' = "draining" /\ pending = {} /\ pending' = {}
  BY Steps DEF UnwindPhase, At, IInv, Doing, Unwinding
<1>5. BlocksGoOn'
  BY <1>2, <1>4 DEF UnwindPhase, IInv, BlocksGoOn
<1>6. PICK L \in SUBSET Paths : todo = << Unwind(L) >> /\ Unclosed(L) /\ Uncancelled(L)
  <2>1. Head(todo).do = "unwind"
    BY DEF UnwindPhase, At
  <2> QED
    BY <1>4, <2>1, UnwindingAt
<1>7. Head(todo).paths = L /\ Tail(todo) = <<>>
  BY <1>6, Rests DEF Unwind
<1>8. \A S : Unclosed(S)' = Unclosed(S) /\ Uncancelled(S)' = Uncancelled(S)
  BY <1>2, Same DEF UnwindPhase, Unclosed, Uncancelled
<1>9. CASE L = {} /\ Then(<<>>)
  <2>1. todo' = <<>>
    BY <1>7, <1>9, Rests DEF Then
  <2> QED
    BY <1>1, <1>3, <1>4, <1>5, <1>6, <1>8, <1>9, <2>1 DEF Resting, IInv, Doing
<1>10. ASSUME NEW p \in L,
              Then((IF p \in BlockPaths THEN End(p, "cancelled") ELSE << Close(p) >>)
                      \o << [do |-> "unwind", paths |-> L \ {p}] >>)
       PROVE IInv'
  <2> PICK M : M = L \ {p}
    OBVIOUS
  <2>1. M \in SUBSET Paths /\ p \in Paths /\ L = M \cup {p}
    OBVIOUS
  <2>2. CASE p \notin BlockPaths
    <3>1. Then(<< Close(p), Unwind(M) >>)
      BY <1>10, <2>2, Singles DEF Unwind
    <3>2. todo' = << Close(p), Unwind(M) >>
      <4>1. PICK x, y : x = Close(p) /\ y = Unwind(M)
        OBVIOUS
      <4>2. todo' = <<x, y>> \o <<>>
        BY <1>7, <3>1, <4>1 DEF Then
      <4>3. <<x, y>> \o <<>> = <<x, y>>
        BY Rests
      <4> QED
        BY <4>1, <4>2, <4>3
    <3>3. Unclosed(M) /\ Uncancelled(M)
      BY <1>6, <2>1, <2>2, PathsApart DEF Unclosed, Uncancelled, In, IInv, TypeOK, Range
    <3>4. Unwinding'
      BY <1>4, <1>8, <2>1, <2>2, <3>2, <3>3 DEF Unwinding, Close, Unwind
    <3> QED
      BY <1>1, <1>3, <1>5, <3>4 DEF IInv, Doing
  <2>3. CASE p \in BlockPaths
    <3> PICK e : e = EndOf(p, "cancelled")
      OBVIOUS
    <3>1. Then(<< Release(p), Close(p), Deliver(e), Unwind(M) >>)
      BY <1>10, <2>3, ThreeOne DEF Unwind, End, EndOf, Release
    <3>2. todo' = << Release(p), Close(p), Deliver(e), Unwind(M) >>
      <4>1. todo' = << Release(p), Close(p), Deliver(e), Unwind(M) >> \o Tail(todo)
        BY <3>1 DEF Then
      <4>2. << Release(p), Close(p), Deliver(e), Unwind(M) >> \o <<>>
              = << Release(p), Close(p), Deliver(e), Unwind(M) >>
        BY Rests
      <4> QED
        BY <1>7, <4>1, <4>2
    <3>3. Unclosed(M \cup {p})' /\ Uncancelled(M \cup {p})'
      BY <1>6, <1>8, <2>1
    <3>4. e = EndOf(p, "cancelled")'
      BY Same DEF UnwindPhase
    <3>5. Unwinding'
      BY <1>4, <2>1, <2>3, <3>2, <3>3, <3>4 DEF Unwinding, Release, Close, Deliver, Unwind
    <3> QED
      BY <1>1, <1>3, <1>5, <3>5 DEF IInv, Doing
  <2> QED
    BY <2>2, <2>3
<1> QED
  BY <1>7, <1>9, <1>10 DEF UnwindPhase

\* A phase is closed before its end is delivered.
LEMMA CloseKeeps == ASSUME IInv, ClosePhase PROVE IInv'
<1>1. TypeOK' /\ ShownFits' /\ TicksAreTrue'
  BY Quiet DEF ClosePhase, IInv, TypeOK
<1>2. (\A p : Held(p)' = Held(p)) /\ In' = In /\ (\A S : HeldIn(S)' = HeldIn(S))
  BY DEF ClosePhase, Held, HeldIn, In
<1>3. HeldIsDue'
  BY <1>2, Same DEF ClosePhase, IInv, HeldIsDue
<1>4. Ending \/ Unwinding
  BY Steps DEF ClosePhase, At, IInv, Doing
<1>5. CASE Ending
  <2>1. PICK b \in Blocks \ Range(stack), status \in {"ok", "fail"} :
            /\ mode \in {"running", "raising", "interrupted"}
            /\ HeldIn(In \cup {Block(b)}) /\ (status = "ok" <=> mode = "running")
            /\ todo = << Close(Block(b)), Deliver(EndOf(Block(b), status)) >>
            /\ Held(Block(b)) = {} /\ (status = "ok" => Counted(Block(b)))
    <3>1. Head(todo).do = "close"
      BY DEF ClosePhase, At
    <3> QED
      BY <1>5, <3>1, EndingAt
  <2>2. open' = open \ {Block(b)} /\ todo' = << Deliver(EndOf(Block(b), status)) >>
    BY <2>1, Rests DEF ClosePhase, Then, Close
  <2>3. Block(b) \notin In
    BY <2>1, PathsApart DEF In
  <2>4. BlocksGoOn'
    <3>1. \A p : todo # << Deliver(Latest(p)) >>
      BY <2>1
    <3> QED
      BY <1>2, <2>2, <2>3, <3>1, Same DEF ClosePhase, IInv, BlocksGoOn
  <2>5. Ending'
    <3>1. todo' = << Deliver(EndOf(Block(b), status)') >>
      BY <2>2, Same DEF ClosePhase
    <3>2. Held(Block(b))' = {} /\ (status = "ok" => Counted(Block(b))')
      BY <1>2, <2>1, Same DEF ClosePhase
    <3>3. HeldIn(In \cup {Block(b)})' /\ (status = "ok" <=> mode' = "running")
          /\ b \in Blocks \ Range(stack)' /\ mode' \in {"running", "raising", "interrupted"}
      BY <1>2, <2>1 DEF ClosePhase, HeldIn
    <3> QED
      BY <3>1, <3>2, <3>3 DEF Ending, Deliver
  <2> QED
    BY <1>1, <1>3, <2>4, <2>5 DEF IInv, Doing
<1>6. CASE Unwinding
  <2>1. mode = "draining" /\ mode' = "draining" /\ pending = {} /\ pending' = {}
    BY <1>6 DEF Unwinding, ClosePhase
  <2>2. BlocksGoOn'
    BY <1>2, <2>1 DEF ClosePhase, IInv, BlocksGoOn
  <2>3. \A S : Uncancelled(S)' = Uncancelled(S)
    BY <1>2, Same DEF ClosePhase, Uncancelled
  <2>4. PICK L \in SUBSET Paths :
            \/ \E p \in Paths \ BlockPaths :
                  todo = << Close(p), Unwind(L) >> /\ Unclosed(L) /\ Uncancelled(L)
            \/ \E p \in BlockPaths :
                  /\ todo = << Close(p), Deliver(EndOf(p, "cancelled")), Unwind(L) >>
                  /\ Unclosed(L \cup {p}) /\ Uncancelled(L \cup {p})
    <3>1. Head(todo).do = "close"
      BY DEF ClosePhase, At
    <3> QED
      BY <1>6, <3>1, UnwindingAt
  <2>5. ASSUME NEW p \in Paths \ BlockPaths,
               todo = << Close(p), Unwind(L) >>, Unclosed(L), Uncancelled(L)
        PROVE Unwinding'
    <3>1. open' = open \ {p} /\ todo' = << Unwind(L) >>
      BY <2>5, Rests DEF ClosePhase, Then, Close
    <3>2. Unclosed(L)' /\ Uncancelled(L)'
      BY <2>3, <2>5, <3>1 DEF Unclosed
    <3> QED
      BY <2>1, <3>1, <3>2 DEF Unwinding, Unwind
  <2>6. ASSUME NEW p \in BlockPaths,
               todo = << Close(p), Deliver(EndOf(p, "cancelled")), Unwind(L) >>,
               Unclosed(L \cup {p}), Uncancelled(L \cup {p})
        PROVE Unwinding'
    <3>1. open' = open \ {p} /\ todo' = << Deliver(EndOf(p, "cancelled")), Unwind(L) >>
      BY <2>6, Rests DEF ClosePhase, Then, Close
    <3>2. Unclosed(L)' /\ Uncancelled(L \cup {p})'
      BY <2>3, <2>6, <3>1 DEF Unclosed
    <3>3. todo' = << Deliver(EndOf(p, "cancelled")'), Unwind(L) >>
      BY <3>1, Same DEF ClosePhase
    <3> QED
      BY <2>1, <2>6, <3>2, <3>3 DEF Unwinding, Deliver, Unwind
  <2>7. Unwinding'
    BY <2>4, <2>5, <2>6
  <2> QED
    BY <1>1, <1>3, <2>2, <2>7 DEF IInv, Doing
<1> QED
  BY <1>4, <1>5, <1>6

\* The tick held back for a path goes out before the path's end.
LEMMA ReleaseKeeps == ASSUME IInv, ReleaseTick PROVE IInv'
<1>1. /\ TypeOK' /\ ShownFits' /\ TicksAreTrue'
      /\ \A p \in BlockPaths : Held(p)' \subseteq Held(p) /\ (Held(p)' # {} => Due(p)')
      /\ pending = {} => pending' = {}
  BY Quiet DEF ReleaseTick, IInv, TypeOK
<1>2. In' = In
  BY DEF ReleaseTick, In
<1>3. HeldIsDue'
  BY <1>1 DEF ReleaseTick, IInv, HeldIsDue
<1>4. Ending \/ Unwinding
  BY Steps DEF ReleaseTick, At, IInv, Doing
<1>5. CASE Ending
  <2>1. PICK b \in Blocks \ Range(stack), status \in {"ok", "fail"} :
            /\ mode \in {"running", "raising", "interrupted"}
            /\ HeldIn(In \cup {Block(b)}) /\ (status = "ok" <=> mode = "running")
            /\ todo = << Release(Block(b)), Close(Block(b)), Deliver(EndOf(Block(b), status)) >>
            /\ status = "ok" => Counted(Block(b)) \/ Held(Block(b)) # {}
    <3>1. Head(todo).do = "release"
      BY DEF ReleaseTick, At
    <3> QED
      BY <1>5, <3>1, EndingAt
  <2> PICK p : p = Block(b)
    OBVIOUS
  <2> PICK e : e = EndOf(p, status)
    OBVIOUS
  <2>2. Head(todo).path = p /\ Tail(todo) = << Close(p), Deliver(e) >>
    BY <2>1, Rests DEF Release
  <2>3. pending' = pending \ Held(p)
    BY <2>2 DEF ReleaseTick
  <2>4. p \notin In /\ p \in BlockPaths
    BY <2>1, PathsApart DEF In
  <2>5. Held(p)' = {} /\ (\A q : q # p => Held(q)' = Held(q)) /\ HeldIn(In \cup {p})'
    BY <1>2, <2>1, <2>3 DEF Held, HeldIn
  <2>6. BlocksGoOn'
    <3>1. \A q : todo # << Deliver(Latest(q)) >>
      BY <2>1
    <3> QED
      BY <1>2, <2>4, <2>5, <3>1, Same DEF ReleaseTick, IInv, BlocksGoOn
  <2>7. e = EndOf(p, status)'
    BY Same DEF ReleaseTick
  <2>8. mode' = mode /\ b \in Blocks \ Range(stack)'
    BY DEF ReleaseTick
  <2>9. CASE Held(p) = {}
    <3>1. Then(<<>>)
      BY <2>2, <2>9 DEF ReleaseTick
    <3>2. todo' = << Close(p), Deliver(e) >>
      BY <2>2, <3>1, Rests DEF Then
    <3>3. status = "ok" => Counted(p)'
      BY <2>1, <2>9, Same DEF ReleaseTick
    <3>4. Ending'
      BY <2>1, <2>5, <2>7, <2>8, <3>2, <3>3 DEF Ending, Close, Deliver
    <3> QED
      BY <1>1, <1>3, <2>6, <3>4 DEF IInv, Doing
  <2>10. CASE Held(p) # {}
    <3>1. PICK t \in Held(p) : Then(<< Deliver(t) >>)
      BY <2>2, <2>10 DEF ReleaseTick
    <3>2. t = Latest(p)
      BY EventsFit DEF IInv, TypeOK, Held
    <3>3. todo' = << Deliver(Latest(p)), Close(p), Deliver(e) >>
      BY <2>2, <3>1, <3>2, OneTwo DEF Then
    <3>4. Due(p)' /\ Latest(p)' = Latest(p)
      BY <2>4, <2>10, Same DEF ReleaseTick, IInv, HeldIsDue
    <3>5. Ending'
      BY <2>1, <2>5, <2>7, <2>8, <3>3, <3>4 DEF Ending, Close, Deliver
    <3> QED
      BY <1>1, <1>3, <2>6, <3>5 DEF IInv, Doing
  <2> QED
    BY <2>9, <2>10
<1>6. CASE Unwinding
  <2>1. mode = "draining" /\ mode' = "draining" /\ pending = {} /\ pending' = {}
    BY <1>1, <1>6 DEF Unwinding, ReleaseTick
  <2>2. BlocksGoOn'
    BY <1>2, <2>1 DEF ReleaseTick, IInv, BlocksGoOn
  <2>3. PICK L \in SUBSET Paths, p \in BlockPaths :
            /\ todo = << Release(p), Close(p), Deliver(EndOf(p, "cancelled")), Unwind(L) >>
            /\ Unclosed(L \cup {p}) /\ Uncancelled(L \cup {p})
    <3>1. Head(todo).do = "release"
      BY DEF ReleaseTick, At
    <3> QED
      BY <1>6, <3>1, UnwindingAt
  <2>4. todo' = << Close(p), Deliver(EndOf(p, "cancelled")), Unwind(L) >>
    <3>1. Head(todo).path = p
          /\ Tail(todo) = << Close(p), Deliver(EndOf(p, "cancelled")), Unwind(L) >>
      BY <2>3, Rests DEF Release
    <3>2. Held(p) = {}
      BY <2>1 DEF Held
    <3>3. Then(<<>>)
      BY <3>1, <3>2 DEF ReleaseTick
    <3> QED
      BY <3>1, <3>3, Rests DEF Then
  <2>5. Unclosed(L \cup {p})' /\ Uncancelled(L \cup {p})'
    BY <1>2, <2>3, Same DEF ReleaseTick, Unclosed, Uncancelled
  <2>6. todo' = << Close(p), Deliver(EndOf(p, "cancelled")'), Unwind(L) >>
    BY <2>4, Same DEF ReleaseTick
  <2>7. Unwinding'
    BY <2>1, <2>5, <2>6 DEF Unwinding, Close, Deliver, Unwind
  <2> QED
    BY <1>1, <1>3, <2>2, <2>7 DEF IInv, Doing
<1> QED
  BY <1>4, <1>5, <1>6

\* A phase is opened before its first event.
LEMMA OpenKeeps == ASSUME IInv, OpenPhase PROVE IInv'
<1>1. Beginning
  BY Steps DEF OpenPhase, At, IInv, Doing
<1>2. PICK b \in Blocks \ Range(stack) :
          todo = << Opening(Block(b)), Deliver(NextBegin(Block(b))), Enter(b) >>
  <2>1. Head(todo).do = "open"
    BY DEF OpenPhase, At
  <2>2. \A e, c : /\ Head(<< Deliver(e), Enter(c) >>).do = "deliver"
                  /\ Head(<< Enter(c) >>).do = "enter"
    BY Kinds, Rests
  <2> QED
    BY <1>1, <2>1, <2>2 DEF Beginning
<1> PICK p : p = Block(b)
  OBVIOUS
<1>3. todo = << Opening(p), Deliver(NextBegin(p)), Enter(b) >>
  BY <1>2
<1>4. mode = "running" /\ HeldIn(In) /\ p \in BlockPaths /\ p \notin In
  BY <1>1, <1>3, PathsApart DEF Beginning, In
<1>5. Head(todo).path = p /\ Tail(todo) = << Deliver(NextBegin(p)), Enter(b) >>
  BY <1>3, Kinds, Rests
<1>6. todo' = << Deliver(NextBegin(p)), Enter(b) >>
  <2>1. todo' = <<>> \o Tail(todo)
    BY DEF OpenPhase, Then
  <2> QED
    BY <1>5, <2>1, Rests
<1>7. /\ open' = open \cup {p} /\ todo' = << Deliver(NextBegin(p)), Enter(b) >>
      /\ begun' = [begun EXCEPT ![p] = begun[p] + 1] /\ said' = [said EXCEPT ![p] = 0]
      /\ UNCHANGED <<pending, stack, mode, run, shown>>
  BY <1>5, <1>6 DEF OpenPhase
<1>8. /\ begun \in [BlockPaths -> Nat] /\ said \in [BlockPaths -> Nat]
      /\ shown \in [BlockPaths -> Seq(Events)]
  BY DEF IInv, TypeOK
<1>9. /\ begun'[p] = begun[p] + 1 /\ begun[p] \in Nat /\ said'[p] = 0
      /\ \A q \in BlockPaths \ {p} : begun'[q] = begun[q] /\ said'[q] = said[q]
      /\ begun' \in [BlockPaths -> Nat] /\ said' \in [BlockPaths -> Nat]
  BY <1>4, <1>7, <1>8
<1>10. \A q : Held(q)' = Held(q)
  BY <1>7 DEF Held
<1>11. In' = In /\ HeldIn(In)' /\ Held(p) = {} /\ In \subseteq BlockPaths
  BY <1>4, <1>7 DEF In, HeldIn, Held, BlockPaths, Range, IInv, TypeOK
<1>12. ASSUME NEW q \in BlockPaths \ {p}
       PROVE /\ Of(q)' = Of(q) /\ Live(q)' = Live(q) /\ Due(q)' = Due(q)
             /\ Counted(q)' = Counted(q) /\ Latest(q)' = Latest(q)
  BY <1>7, <1>9 DEF Of, Live, Due, Counted, Latest, Event
<1>13. FirstOf(p)' = NextBegin(p)
  BY <1>9 DEF FirstOf, NextBegin, Event
<1>14. Of(p)' = {}
  <2>1. ASSUME NEW i \in DOMAIN shown[p]
        PROVE shown[p][i].gen <= begun[p] /\ shown[p][i].gen \in Nat
    <3>1. shown[p] \in Seq(Events)
      BY <1>4, <1>8
    <3>2. shown[p][i] \in Events
      BY <3>1, ElementOfSeq
    <3> QED
      BY <1>4, <3>2 DEF IInv, ShownFits, Events
  <2>2. \A i \in DOMAIN shown'[p] : shown'[p][i].gen # begun'[p]
    BY <1>7, <1>9, <2>1
  <2> QED
    BY <2>2 DEF Of
<1>15. TypeOK'
  <2>1. pending' \subseteq {Latest(q)' : q \in BlockPaths}
    <3>1. ASSUME NEW e \in pending PROVE \E q \in BlockPaths : e = Latest(q)'
      <4>1. PICK q \in BlockPaths : e = Latest(q)
        BY DEF IInv, TypeOK
      <4>2. e.path = q
        BY <4>1 DEF Latest, Event
      <4>3. q # p
        BY <1>11, <4>2 DEF Held
      <4> QED
        BY <1>12, <4>1, <4>3
    <3> QED
      BY <1>7, <3>1
  <2>2. open' \subseteq Paths
    BY <1>4, <1>7, PathsApart DEF IInv, TypeOK
  <2> QED
    BY <1>7, <1>9, <2>1, <2>2 DEF IInv, TypeOK
<1>16. ShownFits'
  <2> SUFFICES ASSUME NEW q \in BlockPaths, NEW i \in DOMAIN shown[q]
               PROVE shown[q][i].gen <= begun'[q]
    BY <1>7 DEF IInv, ShownFits
  <2>1. shown[q][i].gen \in Nat /\ shown[q][i].gen <= begun[q]
    <3>1. shown[q] \in Seq(Events)
      BY <1>8
    <3>2. shown[q][i] \in Events
      BY <3>1, ElementOfSeq
    <3> QED
      BY <3>2 DEF IInv, ShownFits, Events
  <2>2. begun[q] \in Nat /\ (begun'[q] = begun[q] \/ begun'[q] = begun[q] + 1)
    BY <1>8, <1>9
  <2> QED
    BY <2>1, <2>2
<1>17. TicksAreTrue'
  <2>1. \A c \in Blocks : Block(c) \in BlockPaths
    BY PathsApart
  <2>2. \A q \in BlockPaths : said'[q] > 0 => said'[q] = said[q] /\ begun'[q] = begun[q]
    BY <1>9
  <2> QED
    BY <1>7, <2>1, <2>2 DEF IInv, TicksAreTrue
<1>18. HeldIsDue'
  BY <1>7, <1>10, <1>11, <1>12 DEF IInv, HeldIsDue
<1>19. BlocksGoOn'
  <2>1. \A q : todo # << Deliver(Latest(q)) >>
    BY <1>3
  <2>2. \A q \in In : q \in BlockPaths \ {p}
    BY <1>4, <1>11
  <2>3. \A i, j \in DOMAIN stack : stack[i] = stack[j] => i = j
    BY DEF IInv, BlocksGoOn
  <2>4. In \subseteq open'
    BY <1>4, <1>7 DEF IInv, BlocksGoOn
  <2>5. ASSUME NEW q \in In
        PROVE /\ Live(q)' /\ \A i \in Of(q)' : shown'[q][i].current <= said'[q]
              /\ Counted(q)' \/ Held(q)' # {}
    BY <1>4, <1>7, <1>9, <1>10, <1>12, <2>1, <2>2 DEF IInv, BlocksGoOn
  <2> QED
    BY <1>7, <1>11, <2>3, <2>4, <2>5 DEF BlocksGoOn
<1>20. Beginning'
  <2>1. todo' = << Deliver(FirstOf(p)'), Enter(b) >> /\ p \in open'
    BY <1>7, <1>13
  <2>2. mode' = "running" /\ HeldIn(In)' /\ b \in Blocks \ Range(stack)'
    BY <1>4, <1>7, <1>11
  <2> QED
    BY <1>3, <1>9, <1>14, <2>1, <2>2 DEF Beginning, Deliver, Enter
<1> QED
  BY <1>15, <1>16, <1>17, <1>18, <1>19, <1>20 DEF IInv, Doing

\* An event shown, while the dictionaries and the blocks stay as they are.
LEMMA ShowKeeps ==
    ASSUME IInv, NEW e, Showable(e), Show(e), UNCHANGED <<open, pending, stack, mode, begun, said>>,
           Held(e.path) = {} \/ e.kind = "tick",
           mode = "running" =>
               /\ e.path \notin In \/ e.kind = "tick"
               /\ \A q \in In \ {e.path} : todo # << Deliver(Latest(q)) >>
    PROVE TypeOK' /\ ShownFits' /\ TicksAreTrue' /\ HeldIsDue' /\ BlocksGoOn'
<1>1. (\A q : Held(q)' = Held(q) /\ Latest(q)' = Latest(q)) /\ In' = In /\ In \subseteq BlockPaths
  BY DEF Held, In, BlockPaths, Range, IInv, TypeOK, Latest, Event
<1>2. e.path \in BlockPaths
  BY DEF Showable, Events
<1>3. TypeOK'
  BY <1>1, ShownIs DEF IInv, TypeOK
<1>4. ShownFits' /\ TicksAreTrue'
  BY ShownIs DEF IInv
<1>5. ASSUME NEW q \in BlockPaths \ {e.path}
      PROVE /\ Of(q)' = Of(q) /\ Live(q)' = Live(q) /\ Due(q)' = Due(q)
            /\ Counted(q)' = Counted(q) /\ shown'[q] = shown[q]
  BY <1>2, ShownIs DEF IInv, Show, TypeOK
<1>6. e.kind = "tick" => Due(e.path)' /\ Counted(e.path)'
  BY ShownIs DEF IInv
<1>7. HeldIsDue'
  BY <1>1, <1>5, <1>6 DEF IInv, HeldIsDue
<1>8. BlocksGoOn'
  <2>1. ASSUME mode = "running", NEW q \in In
        PROVE /\ Live(q)' /\ \A i \in Of(q)' : shown'[q][i].current <= said'[q]
              /\ Counted(q)' \/ Held(q)' # {}
    <3>1. CASE q = e.path
      BY <1>6, <2>1, <3>1 DEF Due
    <3>2. CASE q # e.path
      BY <1>1, <1>5, <2>1, <3>2 DEF IInv, BlocksGoOn
    <3> QED
      BY <3>1, <3>2
  <2>2. /\ \A i, j \in DOMAIN stack : stack[i] = stack[j] => i = j
        /\ mode \in {"running", "raising"} => In \subseteq open
    BY DEF IInv, BlocksGoOn
  <2> QED
    BY <1>1, <2>1, <2>2 DEF BlocksGoOn
<1> QED
  BY <1>3, <1>4, <1>7, <1>8

\* An event reaches the subscribers, whichever call it belongs to.
LEMMA DeliverKeeps == ASSUME IInv, DeliverEvent PROVE IInv'
<1>1. Head(todo).do = "deliver" /\ todo # <<>>
  BY DEF DeliverEvent, At, Idle
<1>2. UNCHANGED <<open, pending, recent, stack, mode, run, begun, said>>
  BY DEF DeliverEvent
<1>3. (\A q : Held(q)' = Held(q)) /\ In' = In /\ (\A S : HeldIn(S)' = HeldIn(S))
  BY <1>2 DEF Held, In, HeldIn
<1>4. Beginning \/ Ticking \/ Ending \/ Unwinding
  BY <1>1, Steps DEF IInv, Doing, Idle
<1>5. CASE Beginning
  <2>1. PICK b \in Blocks \ Range(stack) :
            /\ todo = << Deliver(FirstOf(Block(b))), Enter(b) >> /\ Of(Block(b)) = {}
            /\ said[Block(b)] = 0 /\ Block(b) \in open
    <3>1. \A x, y, c : /\ Head(<< Opening(x), y, Enter(c) >>).do = "open"
                       /\ Head(<< Enter(c) >>).do = "enter"
      BY Kinds, Rests
    <3> QED
      BY <1>1, <1>5, <3>1 DEF Beginning
  <2> PICK p : p = Block(b)
    OBVIOUS
  <2> PICK e : e = FirstOf(p)
    OBVIOUS
  <2>2. mode = "running" /\ HeldIn(In) /\ p \in BlockPaths /\ p \notin In
    BY <1>5, <2>1, PathsApart DEF Beginning, In
  <2>3. e.path = p /\ Showable(e) /\ Held(p) = {}
    <3>1. Held(p) = {}
      BY <2>2 DEF Held, HeldIn
    <3> QED
      BY <2>2, <3>1, EventsFit DEF IInv, Showable
  <2>4. Show(e) /\ todo' = << Enter(b) >>
    <3>1. Head(todo).event = e /\ Tail(todo) = << Enter(b) >>
      BY <2>1, Kinds, Rests
    <3>2. todo' = <<>> \o Tail(todo)
      BY DEF DeliverEvent, Then
    <3> QED
      BY <3>1, <3>2, Rests DEF DeliverEvent
  <2>5. \A q : todo # << Deliver(Latest(q)) >>
    BY <2>1
  <2>6. TypeOK' /\ ShownFits' /\ TicksAreTrue' /\ HeldIsDue' /\ BlocksGoOn'
    BY <1>2, <2>2, <2>3, <2>4, <2>5, ShowKeeps
  <2>7. Due(p)'
    BY <1>2, <2>1, <2>3, <2>4, ShownIs DEF IInv
  <2>8. Beginning'
    BY <1>2, <1>3, <2>1, <2>2, <2>4, <2>7 DEF Beginning, Enter
  <2> QED
    BY <2>6, <2>8 DEF IInv, Doing
<1>6. CASE Ticking
  <2>1. PICK p \in In : todo = << Deliver(Latest(p)) >> /\ Held(p) = {}
    BY <1>6 DEF Ticking
  <2> PICK e : e = Latest(p)
    OBVIOUS
  <2>2. mode = "running" /\ HeldIn(In) /\ p \in BlockPaths
    BY <1>6 DEF Ticking, In, BlockPaths, Range, IInv, TypeOK
  <2>3. e.path = p /\ Showable(e) /\ e.kind = "tick"
    BY <2>1, <2>2, EventsFit DEF IInv, Showable, BlocksGoOn, Due
  <2>4. Show(e) /\ todo' = <<>>
    <3>1. Head(todo).event = e /\ Tail(todo) = <<>>
      BY <2>1, Kinds, Rests
    <3>2. todo' = <<>> \o Tail(todo)
      BY DEF DeliverEvent, Then
    <3> QED
      BY <3>1, <3>2, Rests DEF DeliverEvent
  <2>5. ASSUME NEW q \in In \ {p} PROVE todo # << Deliver(Latest(q)) >>
    <3>1. Latest(q).path = q
      BY DEF Latest, Event
    <3>2. << Deliver(Latest(q)) >> = << Deliver(e) >> => Latest(q) = e
      BY Kinds, Rests
    <3> QED
      BY <2>1, <2>3, <3>1, <3>2
  <2>6. TypeOK' /\ ShownFits' /\ TicksAreTrue' /\ HeldIsDue' /\ BlocksGoOn'
    BY <1>2, <2>3, <2>4, <2>5, ShowKeeps
  <2>7. Resting'
    BY <1>2, <1>3, <2>2, <2>4 DEF Resting
  <2> QED
    BY <2>6, <2>7 DEF IInv, Doing
<1>7. CASE Ending
  <2>1. PICK b \in Blocks \ Range(stack), status \in {"ok", "fail"} : \E p, e :
            /\ p = Block(b) /\ e = EndOf(p, status)
            /\ HeldIn(In \cup {p}) /\ (status = "ok" <=> mode = "running")
            /\ Held(p) = {}
            /\ \/ todo = << Deliver(Latest(p)), Close(p), Deliver(e) >> /\ Due(p)
               \/ todo = << Deliver(e) >> /\ (status = "ok" => Counted(p))
    <3>1. PICK b \in Blocks \ Range(stack), status \in {"ok", "fail"} : \E p, e :
            /\ p = Block(b) /\ e = EndOf(p, status)
            /\ HeldIn(In \cup {p}) /\ (status = "ok" <=> mode = "running")
            /\ \/ /\ Head(todo).do = "release"
                  /\ todo = << Release(p), Close(p), Deliver(e) >>
                  /\ status = "ok" => Counted(p) \/ Held(p) # {}
               \/ /\ Head(todo).do = "deliver"
                  /\ todo = << Deliver(Latest(p)), Close(p), Deliver(e) >>
                  /\ Held(p) = {} /\ Due(p)
               \/ /\ Head(todo).do = "close" /\ todo = << Close(p), Deliver(e) >>
                  /\ Held(p) = {} /\ (status = "ok" => Counted(p))
               \/ /\ Head(todo).do = "deliver" /\ todo = << Deliver(e) >>
                  /\ Held(p) = {} /\ (status = "ok" => Counted(p))
      BY ONLY <1>7, EndingAt
    <3> PICK p, e :
            /\ p = Block(b) /\ e = EndOf(p, status)
            /\ HeldIn(In \cup {p}) /\ (status = "ok" <=> mode = "running")
            /\ Held(p) = {}
            /\ \/ todo = << Deliver(Latest(p)), Close(p), Deliver(e) >> /\ Due(p)
               \/ todo = << Deliver(e) >> /\ (status = "ok" => Counted(p))
      BY ONLY <1>1, <3>1
    <3> QED
      OBVIOUS
  <2> PICK p, e :
            /\ p = Block(b) /\ e = EndOf(p, status)
            /\ HeldIn(In \cup {p}) /\ (status = "ok" <=> mode = "running")
            /\ Held(p) = {}
            /\ \/ todo = << Deliver(Latest(p)), Close(p), Deliver(e) >> /\ Due(p)
               \/ todo = << Deliver(e) >> /\ (status = "ok" => Counted(p))
    BY <2>1
  <2>2. p \in BlockPaths /\ p \notin In /\ mode \in {"running", "raising", "interrupted"}
    BY <1>7, <2>1, PathsApart, EndingAt DEF In
  <2>3. \A q : Latest(q).kind = "tick" /\ Latest(q).path = q
    BY DEF Latest, Event
  <2>4. CASE todo = << Deliver(Latest(p)), Close(p), Deliver(e) >> /\ Due(p)
    <3> PICK t : t = Latest(p)
      OBVIOUS
    <3>1. t.path = p /\ Showable(t) /\ t.kind = "tick"
      BY <2>2, <2>4, EventsFit DEF IInv, Showable
    <3>2. Show(t) /\ todo' = << Close(p), Deliver(e) >>
      <4>1. Head(todo).event = t /\ Tail(todo) = << Close(p), Deliver(e) >>
        BY <2>4, Kinds, Rests
      <4>2. todo' = <<>> \o Tail(todo)
        BY DEF DeliverEvent, Then
      <4> QED
        BY <4>1, <4>2, Rests DEF DeliverEvent
    <3>3. \A q : todo # << Deliver(Latest(q)) >>
      BY <2>4
    <3>4. TypeOK' /\ ShownFits' /\ TicksAreTrue' /\ HeldIsDue' /\ BlocksGoOn'
      BY <1>2, <3>1, <3>2, <3>3, ShowKeeps
    <3>5. Counted(p)' /\ e = EndOf(p, status)'
      BY <1>2, <3>1, <3>2, ShownIs DEF IInv, EndOf, Event
    <3>6. Ending'
      BY <1>2, <1>3, <2>1, <2>2, <3>2, <3>5 DEF Ending, Close, Deliver
    <3> QED
      BY <3>4, <3>6 DEF IInv, Doing
  <2>5. CASE todo = << Deliver(e) >> /\ (status = "ok" => Counted(p))
    <3>1. e.path = p /\ e.kind = "end" /\ Showable(e)
      BY <2>2, <2>5, EventsFit DEF IInv, Showable
    <3>2. Show(e) /\ todo' = <<>>
      <4>1. Head(todo).event = e /\ Tail(todo) = <<>>
        BY <2>5, Kinds, Rests
      <4>2. todo' = <<>> \o Tail(todo)
        BY DEF DeliverEvent, Then
      <4> QED
        BY <4>1, <4>2, Rests DEF DeliverEvent
    <3>3. ASSUME NEW q PROVE todo # << Deliver(Latest(q)) >>
      <4>1. << Deliver(Latest(q)) >> = << Deliver(e) >> => Latest(q) = e
        BY Kinds, Rests
      <4> QED
        BY <2>3, <2>5, <3>1, <4>1
    <3>4. TypeOK' /\ ShownFits' /\ TicksAreTrue' /\ HeldIsDue' /\ BlocksGoOn'
      BY <1>2, <2>1, <2>2, <3>1, <3>2, <3>3, ShowKeeps
    <3>5. HeldIn(In)
      BY <2>1 DEF HeldIn, Held
    <3>6. Resting'
      BY <1>2, <1>3, <2>2, <3>2, <3>5 DEF Resting
    <3> QED
      BY <3>4, <3>6 DEF IInv, Doing
  <2> QED
    BY <2>1, <2>4, <2>5
<1>8. CASE Unwinding
  <2>1. mode = "draining" /\ pending = {}
    BY <1>8, UnwindingAt
  <2>2. PICK L \in SUBSET Paths, p \in BlockPaths :
            /\ todo = << Deliver(EndOf(p, "cancelled")), Unwind(L) >>
            /\ Unclosed(L) /\ Uncancelled(L \cup {p})
    BY <1>1, <1>8, UnwindingAt
  <2> PICK e : e = EndOf(p, "cancelled")
    OBVIOUS
  <2>3. /\ e.path = p /\ e.kind = "end" /\ e.status = "cancelled" /\ Showable(e)
        /\ Held(p) = {}
    BY <2>1, EventsFit DEF IInv, Showable, Held
  <2>4. Show(e) /\ todo' = << Unwind(L) >>
    <3>1. Head(todo).event = e /\ Tail(todo) = << Unwind(L) >>
      BY <2>2, Kinds, Rests
    <3>2. todo' = <<>> \o Tail(todo)
      BY DEF DeliverEvent, Then
    <3> QED
      BY <3>1, <3>2, Rests DEF DeliverEvent
  <2>5. TypeOK' /\ ShownFits' /\ TicksAreTrue' /\ HeldIsDue' /\ BlocksGoOn'
    BY <1>2, <2>1, <2>3, <2>4, ShowKeeps
  <2>6. Uncancelled(L)'
    <3>1. /\ Cancelled(p)'
          /\ \A q \in BlockPaths \ {p} : Cancelled(q)' = Cancelled(q)
      BY <1>2, <2>3, <2>4, ShownIs DEF IInv
    <3>2. In \subseteq BlockPaths
      BY DEF In, BlockPaths, Range, IInv, TypeOK
    <3> QED
      BY <1>3, <2>2, <3>1, <3>2 DEF Uncancelled
  <2>7. Unclosed(L)' /\ mode' = "draining" /\ pending' = {}
    BY <1>2, <2>1, <2>2 DEF Unclosed
  <2>8. Unwinding'
    BY <2>4, <2>6, <2>7 DEF Unwinding, Unwind
  <2> QED
    BY <2>5, <2>8 DEF IInv, Doing
<1> QED
  BY <1>4, <1>5, <1>6, <1>7, <1>8

\* A flush delivers the ticks it took, one after the other.
LEMMA DrainKeeps == ASSUME IInv, DrainTick PROVE IInv'
<1>1. Head(todo).do = "drain" /\ todo # <<>>
  BY DEF DrainTick, At, Idle
<1>2. UNCHANGED <<open, pending, recent, stack, mode, run, begun, said>>
  BY DEF DrainTick
<1>3. Draining \/ Closing
  BY <1>1, Steps DEF IInv, Doing, Idle
<1>4. CASE Draining
  <2>1. PICK S \in SUBSET {Latest(p) : p \in BlockPaths} :
            todo = << Drain(S), [do |-> "cancel"] >> /\ \A e \in S : Due(e.path)
    <3>1. /\ Head(<< [do |-> "flush"], [do |-> "cancel"] >>).do = "flush"
          /\ Head(<< [do |-> "cancel"] >>).do = "cancel"
      BY Rests
    <3> QED
      BY <1>1, <1>4, <3>1 DEF Draining
  <2>2. Head(todo).ticks = S /\ Tail(todo) = << [do |-> "cancel"] >>
    BY <2>1, Kinds, Rests
  <2>3. mode = "draining" /\ pending = {} /\ In \subseteq open
    <3>1. Head(<< [do |-> "flush"], [do |-> "cancel"] >>).do = "flush"
      BY Rests
    <3> QED
      BY <1>1, <1>4, <3>1 DEF Draining
  <2>4. In' = In
    BY <1>2 DEF In
  <2>5. CASE S = {} /\ Then(<<>>) /\ UNCHANGED shown
    <3>1. todo' = << [do |-> "cancel"] >>
      <4>1. todo' = <<>> \o Tail(todo)
        BY <2>5 DEF Then
      <4> QED
        BY <2>2, <4>1, Rests
    <3>2. TypeOK' /\ ShownFits' /\ TicksAreTrue'
      BY <1>2, <2>5, Quiet DEF IInv, TypeOK
    <3>3. HeldIsDue' /\ BlocksGoOn'
      BY <1>2, <2>3 DEF HeldIsDue, Held, IInv, BlocksGoOn
    <3>4. Draining'
      BY <1>2, <2>3, <2>4, <3>1 DEF Draining
    <3> QED
      BY <3>2, <3>3, <3>4 DEF IInv, Doing
  <2>6. ASSUME NEW e \in S, Show(e), Then(<< [do |-> "drain", ticks |-> S \ {e}] >>)
        PROVE IInv'
    <3>1. PICK p \in BlockPaths : e = Latest(p)
      BY <2>1
    <3>2. e.path = p /\ e.kind = "tick" /\ Showable(e)
      BY <2>1, <3>1, EventsFit DEF IInv, Showable
    <3>3. TypeOK' /\ ShownFits' /\ TicksAreTrue' /\ HeldIsDue' /\ BlocksGoOn'
      BY <1>2, <2>3, <2>6, <3>2, ShowKeeps
    <3> PICK T : T = S \ {e}
      OBVIOUS
    <3>4. todo' = << Drain(T), [do |-> "cancel"] >>
      <4>1. todo' = << Drain(T) >> \o Tail(todo)
        BY <2>6 DEF Then, Drain
      <4> QED
        BY <2>2, <4>1, Singles
    <3>5. \A t \in T : Due(t.path)'
      <4>1. Due(p)' /\ \A q \in BlockPaths \ {p} : Due(q)' = Due(q)
        BY <1>2, <2>6, <3>2, ShownIs DEF IInv
      <4>2. \A t \in T : t.path \in BlockPaths
        BY <2>1 DEF Latest, Event
      <4> QED
        BY <2>1, <4>1, <4>2
    <3>6. T \in SUBSET {Latest(q)' : q \in BlockPaths}
      BY <1>2, <2>1 DEF Latest, Event
    <3>7. Draining'
      BY <1>2, <2>3, <2>4, <3>4, <3>5, <3>6 DEF Draining, Drain
    <3> QED
      BY <3>3, <3>7 DEF IInv, Doing
  <2> QED
    BY <2>2, <2>5, <2>6 DEF DrainTick
<1>5. CASE Closing
  <2>1. todo = << Drain({}) >> /\ mode = "ended"
    <3>1. Head(<< [do |-> "flush"] >>).do = "flush"
      BY Rests
    <3> QED
      BY <1>1, <1>5, <3>1 DEF Closing
  <2>2. Head(todo).ticks = {} /\ Tail(todo) = <<>>
    BY <2>1, Kinds, Rests
  <2>3. Then(<<>>) /\ UNCHANGED shown
    BY <2>2 DEF DrainTick
  <2>4. todo' = <<>>
    BY <2>2, <2>3, Rests DEF Then
  <2>5. TypeOK' /\ ShownFits' /\ TicksAreTrue'
    BY <1>2, <2>3, Quiet DEF IInv, TypeOK
  <2>6. HeldIsDue' /\ BlocksGoOn'
    BY <1>2, <2>1 DEF HeldIsDue, Held, IInv, BlocksGoOn
  <2>7. Resting'
    BY <1>2, <2>1, <2>4 DEF Resting
  <2> QED
    BY <2>5, <2>6, <2>7 DEF IInv, Doing
<1> QED
  BY <1>3, <1>4, <1>5

\* A tick is coalesced, held back or shown at once.
LEMMA TickKeeps == ASSUME IInv, Tick PROVE IInv'
<1>1. Resting /\ mode = "running" /\ todo = <<>>
  BY Steps DEF Tick, IInv, Doing, Idle
<1>2. PICK b \in Range(stack), current \in 1..MaxTicks :
          LET p == Block(b)
              event == Event("tick", p, current, "none")
          IN  /\ p \in open /\ current > said[p]
              /\ said' = [said EXCEPT ![p] = current]
              /\ \/ /\ p \in recent
                    /\ pending' = IF \E e \in Held(p) : e.current >= current THEN pending
                                  ELSE (pending \ Held(p)) \cup {event}
                    /\ UNCHANGED <<recent, todo>>
                 \/ /\ p \notin recent
                    /\ pending' = pending \ Held(p)
                    /\ recent' = recent \cup {p}
                    /\ todo' = << Deliver(event) >>
  BY DEF Tick
<1>3. UNCHANGED <<open, stack, mode, run, begun, shown>>
  BY DEF Tick
<1> PICK p : p = Block(b)
  OBVIOUS
<1> PICK event : event = Event("tick", p, current, "none")
  OBVIOUS
<1>4. p \in In /\ In \subseteq BlockPaths /\ In' = In /\ HeldIn(In) /\ current \in Nat
  BY <1>1, <1>3 DEF In, BlockPaths, Range, IInv, TypeOK, Resting, BoundsAssumption
<1>5. /\ said \in [BlockPaths -> Nat] /\ said'[p] = current /\ current > said[p]
      /\ said' \in [BlockPaths -> Nat]
      /\ \A q \in BlockPaths \ {p} : said'[q] = said[q]
  BY <1>2, <1>4 DEF IInv, TypeOK
<1>6. event = Latest(p)' /\ event.path = p /\ event.kind = "tick" /\ event.current = current
  BY <1>3, <1>5 DEF Latest, Event
<1>7. ASSUME NEW q \in BlockPaths \ {p}
      PROVE /\ Due(q)' = Due(q) /\ Counted(q)' = Counted(q) /\ Latest(q)' = Latest(q)
  BY <1>3, <1>5 DEF Of, Live, Due, Counted, Latest, Event
<1>8. \A q : Of(q)' = Of(q) /\ Live(q)' = Live(q)
  BY <1>3 DEF Of, Live
<1>9. Live(p) /\ \A i \in Of(p) : shown[p][i].current <= said[p]
  BY <1>1, <1>4 DEF IInv, BlocksGoOn
<1>10. Due(p)'
  <2>1. \A i \in Of(p) : shown[p][i].current \in Nat
    <3>1. shown[p] \in Seq(Events)
      BY <1>4 DEF IInv, TypeOK
    <3>2. \A i \in DOMAIN shown[p] : shown[p][i] \in Events
      BY <3>1, ElementOfSeq
    <3> QED
      BY <3>2 DEF Of, Events
  <2>2. \A i \in Of(p) : shown[p][i].current <= current
    BY <1>4, <1>5, <1>9, <2>1
  <2> QED
    BY <1>3, <1>5, <1>8, <1>9, <2>2 DEF Due
<1>11. \A e \in Held(p) : e.current = said[p]
  BY EventsFit DEF IInv, TypeOK, Held
<1>12. ~ \E e \in Held(p) : e.current >= current
  BY <1>4, <1>5, <1>11
<1>13. /\ pending' \subseteq (pending \ Held(p)) \cup {event}
       /\ \/ event \in pending' /\ todo' = <<>>
          \/ pending' = pending \ Held(p) /\ todo' = << Deliver(event) >>
  BY <1>1, <1>2, <1>12
<1>14. \A e \in pending \ Held(p) : e.path \in In \ {p} /\ e = Latest(e.path)'
  <2> SUFFICES ASSUME NEW e \in pending \ Held(p)
               PROVE e.path \in In \ {p} /\ e = Latest(e.path)'
    OBVIOUS
  <2>1. e.path \in In /\ e.path # p
    BY <1>4 DEF HeldIn, Held
  <2>2. PICK q \in BlockPaths : e = Latest(q)
    BY DEF IInv, TypeOK
  <2>3. e.path = q
    BY <2>2 DEF Latest, Event
  <2> QED
    BY <1>7, <2>1, <2>2, <2>3
<1>15. TypeOK'
  <2>1. pending' \subseteq {Latest(q)' : q \in BlockPaths}
    BY <1>4, <1>6, <1>13, <1>14
  <2> QED
    BY <1>3, <1>5, <2>1 DEF IInv, TypeOK
<1>16. ShownFits'
  BY <1>3 DEF IInv, ShownFits
<1>17. \A q : q # p => Held(q)' = Held(q)
  BY <1>2, <1>6, <1>12 DEF Held
<1>18. HeldIn(In)'
  BY <1>4, <1>6, <1>13, <1>14 DEF HeldIn
<1>19. HeldIsDue'
  BY <1>1, <1>3, <1>7, <1>10, <1>17 DEF IInv, HeldIsDue
<1>20. TicksAreTrue'
  <2>1. Last(shown[p]).status # "ok"
    <3>1. PICK n : n = Len(shown[p])
      OBVIOUS
    <3>2. shown[p] \in Seq(Events) /\ shown[p] # <<>>
      BY <1>4, <1>9 DEF IInv, TypeOK, Live
    <3>3. n \in DOMAIN shown[p] /\ Last(shown[p]) = shown[p][n]
      BY <3>1, <3>2 DEF Last
    <3>4. n \in Of(p)
      BY <1>9, <3>3 DEF Of, Live
    <3> QED
      BY <1>4, <1>9, <3>3, <3>4 DEF IInv, ShownFits, Live
  <2>2. \A c \in Blocks : Block(c) \in BlockPaths
    BY PathsApart
  <2>3. /\ \A q \in BlockPaths \ {p} : said'[q] = said[q]
        /\ begun' = begun /\ shown' = shown
    BY <1>3, <1>5
  <2> QED
    BY <2>1, <2>2, <2>3 DEF IInv, TicksAreTrue
<1>21. BlocksGoOn'
  <2>1. ASSUME NEW q \in In
        PROVE /\ Live(q)' /\ \A i \in Of(q)' : shown'[q][i].current <= said'[q]
              /\ Counted(q)' \/ Held(q)' # {} \/ todo' = << Deliver(Latest(q)') >>
    <3>1. CASE q = p
      BY <1>6, <1>10, <1>13, <3>1 DEF Due, Held
    <3>2. CASE q # p
      <4>1. Counted(q) \/ Held(q) # {}
        BY <1>1 DEF IInv, BlocksGoOn
      <4>2. Live(q) /\ \A i \in Of(q) : shown[q][i].current <= said[q]
        BY <1>1 DEF IInv, BlocksGoOn
      <4> QED
        BY <1>3, <1>4, <1>5, <1>7, <1>8, <1>17, <3>2, <4>1, <4>2
    <3> QED
      BY <3>1, <3>2
  <2>2. /\ \A i, j \in DOMAIN stack : stack[i] = stack[j] => i = j
        /\ In \subseteq open
    BY <1>1 DEF IInv, BlocksGoOn
  <2> QED
    BY <1>3, <1>4, <2>1, <2>2 DEF BlocksGoOn, Deliver
<1>22. Doing'
  <2>1. CASE todo' = <<>>
    BY <1>1, <1>3, <1>18, <2>1 DEF Resting, Doing
  <2>2. CASE pending' = pending \ Held(p) /\ todo' = << Deliver(event) >>
    <3>1. Held(p)' = {}
      BY <2>2 DEF Held
    <3>2. todo' = << Deliver(Latest(p)') >>
      BY <1>6, <2>2
    <3> QED
      BY <1>1, <1>3, <1>4, <1>18, <3>1, <3>2 DEF Ticking, Doing, Deliver
  <2> QED
    BY <1>13, <2>1, <2>2
<1> QED
  BY <1>15, <1>16, <1>19, <1>20, <1>21, <1>22 DEF IInv

----------------------------------------------------------------------------
(* The theorems *)

\* A new bus: nothing is open, held back or shown.
LEMMA InitHolds == Init => IInv
<1> SUFFICES ASSUME Init PROVE IInv
  OBVIOUS
<1>1. TypeOK
  BY DEF Init, TypeOK
<1>2. In = {} /\ \A p : Held(p) = {}
  BY DEF Init, In, Range, Held
<1>3. ShownFits /\ TicksAreTrue
  BY PathsApart DEF Init, ShownFits, TicksAreTrue
<1>4. HeldIsDue /\ BlocksGoOn
  BY <1>2 DEF Init, HeldIsDue, BlocksGoOn
<1>5. Resting
  BY DEF Init, Resting, HeldIn
<1> QED
  BY <1>1, <1>3, <1>4, <1>5 DEF IInv, Doing

\* Every step keeps the invariant.
LEMMA NextHolds == IInv /\ [Next]_vars => IInv'
<1> SUFFICES ASSUME IInv, [Next]_vars PROVE IInv'
  OBVIOUS
<1>1. ASSUME NEW r \in Runs, BeginRun(r) \/ BeginBars(r) \/ EndBars(r) \/ EndRun(r)
      PROVE IInv'
  <2>1. UNCHANGED <<pending, stack, mode, todo, begun, said, shown>>
    BY <1>1 DEF BeginRun, BeginBars, EndBars, EndRun, Report
  <2>2. PICK p \in {Account(r), Bars(r)} : open' \in {open \cup {p}, open \ {p}}
    BY <1>1 DEF BeginRun, BeginBars, EndBars, EndRun, Report
  <2>3. open' \subseteq Paths /\ open' \cap BlockPaths = open \cap BlockPaths
    BY <2>2, PathsApart DEF IInv, TypeOK
  <2> QED
    BY <2>1, <2>3, Elsewhere
<1>2. CASE WindowElapses
  BY <1>2, Elsewhere DEF WindowElapses, IInv, TypeOK
<1>3. CASE UNCHANGED vars
  BY <1>3, Elsewhere DEF vars, IInv, TypeOK
<1>4. CASE Finished
  BY <1>3, <1>4 DEF Finished
<1> QED
  BY <1>1, <1>2, <1>3, <1>4, OpenKeeps, ReleaseKeeps, CloseKeeps, DeliverKeeps, FlushKeeps,
     DrainKeeps, CancelKeeps, UnwindKeeps, EnterKeeps, InBlockKeeps, TickKeeps, LeaveKeeps,
     ExceptionKeeps, InterruptKeeps, PropagateKeeps, InterruptAgainKeeps, EndSessionKeeps
     DEF Next

\* At every moment the main thread is in one of the calls above, at the step
\* its call has come to, and what is held back or on its way there is the latest
\* tick of a phase that goes on.
THEOREM InductiveInvariant == Spec => []IInv
<1>1. Init => IInv
  BY InitHolds
<1>2. IInv /\ [Next]_vars => IInv'
  BY NextHolds
<1> QED
  BY <1>1, <1>2, PTL DEF Spec

\* No tick comes out of its phase or out of order, and no phase that ends in
\* order loses its last one: for any phases, runs, ticks and interrupts.
THEOREM TicksAlwaysTrue == Spec => []TicksAreTrue
<1>1. IInv => TicksAreTrue
  BY DEF IInv
<1> QED
  BY <1>1, InductiveInvariant, PTL

\* When the interrupt goes on, nothing is held back, every block the main
\* thread was in has been shown its end, and no block's path is open.
THEOREM DrainAlwaysComplete == Spec => []DrainIsComplete
<1>1. IInv => DrainIsComplete
  <2> SUFFICES ASSUME IInv, mode = "draining", Idle PROVE DrainIsComplete
    BY DEF DrainIsComplete
  <2>1. Resting
    BY Steps DEF IInv, Doing
  <2>2. pending = {} /\ Unclosed({}) /\ Uncancelled({})
    BY <2>1 DEF Resting
  <2>3. ASSUME NEW b \in Range(stack)
        PROVE \E i \in DOMAIN shown[Block(b)] :
                  /\ shown[Block(b)][i].gen = begun[Block(b)]
                  /\ shown[Block(b)][i].status = "cancelled"
    <3>1. Cancelled(Block(b))
      BY <2>2 DEF Uncancelled, In
    <3> QED
      BY <3>1 DEF Cancelled, Of
  <2> QED
    BY <2>2, <2>3 DEF DrainIsComplete, Unclosed
<1> QED
  BY <1>1, InductiveInvariant, PTL
=============================================================================
