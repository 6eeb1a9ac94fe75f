----------------------------- MODULE ProgressBus -----------------------------
(***************************************************************************)
(* The progress bus (progress/bus.py) with those who use it: the main      *)
(* thread, which brackets its work in nested phases (context.py) and ticks *)
(* inside them, the threads of the coordinator, whose lines the bridge     *)
(* turns into events and emits on the thread they come on (bridge.py), and *)
(* the interrupt, whose handler runs between any two steps of the main     *)
(* thread (cli.py, _progress_session).                                     *)
(*                                                                         *)
(* A call of the main thread is a sequence of steps, `todo`, between which *)
(* other threads run: what it reads and writes of the bus's dictionaries,  *)
(* and each delivery.  `shown` is what a sink got, path by path, so that   *)
(* the order in which a dictionary gives its paths cannot be told: the     *)
(* dictionaries are sets.  Time is whether less than COALESCE_WINDOW_SECS  *)
(* passed since the last tick (`recent`).  An event carries the number of  *)
(* its phase's begin, `gen`, which the code does not have.  Of the runs    *)
(* only what they do to the bus's dictionaries is kept, one step for each  *)
(* event: their events are delivered as they come.                         *)
(***************************************************************************)
EXTENDS Integers, Sequences, FiniteSets, FiniteSetsExt, SequencesExt

CONSTANTS
    Blocks,         \* the phases the main thread may bracket
    Runs,           \* the runs of a batch
    MaxBegins, MaxTicks

ASSUME BoundsAssumption == MaxBegins \in Nat /\ MaxTicks \in Nat

VARIABLES
    open,           \* the paths in _open
    pending,        \* the events in _pending_tick
    recent,         \* the open paths ticked within the window
    stack,          \* the phase blocks the main thread is in, innermost first
    mode,           \* of the main thread
    todo,           \* what is left of the call it is in
    run,            \* where the account of each run is
    begun,          \* how often each path was begun
    said,           \* the highest count the source gave since
    shown           \* the events of each path that were delivered
vars == <<open, pending, recent, stack, mode, todo, run, begun, said, shown>>

Account(r) == <<"run", r>>
Bars(r) == <<"bars", r>>
Block(b) == <<"block", b>>
BlockPaths == {Block(b) : b \in Blocks}

Event(kind, p, current, status) ==
    [kind |-> kind, path |-> p, gen |-> begun[p], current |-> current, status |-> status]
Held(p) == {e \in pending : e.path = p}

\* The steps of emit for the boundaries of a phase
Deliver(event) == [do |-> "deliver", event |-> event]
Close(p) == [do |-> "close", path |-> p]
Begin(p) == << [do |-> "open", path |-> p],
               Deliver([Event("begin", p, 0, "none") EXCEPT !.gen = @ + 1]) >>
\* Mutant: the pending tick of a phase that ends is not released.
EndKeeping(p, status) == << Close(p), Deliver(Event("end", p, 0, status)) >>
End(p, status) ==
    << [do |-> "release", path |-> p], Close(p), Deliver(Event("end", p, 0, status)) >>

Init ==
    /\ open = {} /\ pending = {} /\ recent = {}
    /\ stack = <<>> /\ mode = "running" /\ todo = <<>>
    /\ run = [r \in Runs |-> "queued"]
    /\ begun = [p \in BlockPaths |-> 0] /\ said = [p \in BlockPaths |-> 0]
    /\ shown = [p \in BlockPaths |-> <<>>]

Idle == todo = <<>>
\* The main thread is at a step of this kind.
At(do) == ~Idle /\ Head(todo).do = do
Then(steps) == todo' = steps \o Tail(todo)
Show(event) == shown' = [shown EXCEPT ![event.path] = Append(@, event)]

(***************************************************************************)
(* The steps of the bus                                                    *)
(***************************************************************************)
OpenPhase ==
    /\ At("open")
    /\ LET p == Head(todo).path
       IN  /\ open' = open \cup {p} /\ recent' = recent \ {p}
           /\ begun' = [begun EXCEPT ![p] = @ + 1] /\ said' = [said EXCEPT ![p] = 0]
    /\ Then(<<>>)
    /\ UNCHANGED <<pending, stack, mode, run, shown>>

\* The pending tick of a phase that ends goes out before the end does.
ReleaseTick ==
    /\ At("release")
    /\ LET held == Held(Head(todo).path)
       IN  /\ pending' = pending \ held
           /\ IF held = {} THEN Then(<<>>) ELSE \E e \in held : Then(<< Deliver(e) >>)
    /\ UNCHANGED <<open, recent, stack, mode, run, begun, said, shown>>

ClosePhase ==
    /\ At("close")
    /\ open' = open \ {Head(todo).path}
    /\ Then(<<>>)
    /\ UNCHANGED <<pending, recent, stack, mode, run, begun, said, shown>>

\* _deliver; what a sink raises stays there.
DeliverEvent ==
    /\ At("deliver")
    /\ Show(Head(todo).event) /\ Then(<<>>)
    /\ UNCHANGED <<open, pending, recent, stack, mode, run, begun, said>>

\* flush takes the pending ticks ...
FlushTicks ==
    /\ At("flush")
    /\ Then(<< [do |-> "drain", ticks |-> pending] >>) /\ pending' = {}
    /\ UNCHANGED <<open, recent, stack, mode, run, begun, said, shown>>
\* ... and delivers one after the other.
DrainTick ==
    /\ At("drain")
    /\ LET left == Head(todo).ticks
       IN  \/ left = {} /\ Then(<<>>) /\ UNCHANGED shown
           \/ \E e \in left : Show(e) /\ Then(<< [do |-> "drain", ticks |-> left \ {e}] >>)
    /\ UNCHANGED <<open, pending, recent, stack, mode, run, begun, said>>

\* Mutant: only one of the open phases is ended.
CancelOneOpen ==
    /\ At("cancel")
    /\ \E S \in SUBSET open :
        /\ Cardinality(S) = IF open = {} THEN 0 ELSE 1
        /\ Then(<< [do |-> "unwind", paths |-> S] >>)
    /\ UNCHANGED <<open, pending, recent, stack, mode, run, begun, said, shown>>

\* cancel_all_open: the paths open at its first step, each ended in turn
CancelAllOpen ==
    /\ At("cancel")
    /\ Then(<< [do |-> "unwind", paths |-> open] >>)
    /\ UNCHANGED <<open, pending, recent, stack, mode, run, begun, said, shown>>
UnwindPhase ==
    /\ At("unwind")
    /\ LET left == Head(todo).paths
       IN  \/ left = {} /\ Then(<<>>)
           \/ \E p \in left :
                Then((IF p \in BlockPaths THEN End(p, "cancelled") ELSE << Close(p) >>)
                        \o << [do |-> "unwind", paths |-> left \ {p}] >>)
    /\ UNCHANGED <<open, pending, recent, stack, mode, run, begun, said, shown>>

WindowElapses ==
    /\ \E p \in recent : recent' = recent \ {p}
    /\ UNCHANGED <<open, pending, stack, mode, todo, run, begun, said, shown>>

(***************************************************************************)
(* The main thread: phase, tick_phase, _progress_session                   *)
(***************************************************************************)
MayBegin == MapThenSumSet(LAMBDA c : begun[Block(c)], Blocks) < MaxBegins
\* A block is entered once the begin is out: an exception before is not its.
EnterBlock ==
    /\ mode = "running" /\ Idle /\ MayBegin
    /\ \E b \in Blocks \ Range(stack) :
        todo' = Begin(Block(b)) \o << [do |-> "enter", block |-> b] >>
    /\ UNCHANGED <<open, pending, recent, stack, mode, run, begun, said, shown>>

InBlock ==
    /\ At("enter")
    /\ stack' = << Head(todo).block >> \o stack
    /\ Then(<<>>)
    /\ UNCHANGED <<open, pending, recent, mode, run, begun, said, shown>>

\* tick: held back within the window, and kept if it counts higher
Tick ==
    /\ mode = "running" /\ Idle
    /\ \E b \in Range(stack), current \in 1..MaxTicks :
        LET p == Block(b)
            event == Event("tick", p, current, "none")
        IN  /\ p \in open /\ current > said[p]
            /\ said' = [said EXCEPT ![p] = current]
            /\ \/ /\ p \in recent
                  /\ pending' = IF \E e \in Held(p) : e.current >= current THEN pending
                                ELSE (pending \ Held(p)) \cup {event}
                  /\ UNCHANGED <<recent, todo>>
               \/ /\ p \notin recent
                  /\ pending' = pending \ Held(p)
                  /\ recent' = recent \cup {p}
                  /\ todo' = << Deliver(event) >>
    /\ UNCHANGED <<open, stack, mode, run, begun, shown>>

\* A block is left, by its end or by the exception that unwinds it.
LeaveBlock ==
    /\ mode \in {"running", "raising", "interrupted"} /\ Idle /\ stack # <<>>
    /\ todo' = End(Block(Head(stack)), IF mode = "running" THEN "ok" ELSE "fail")
    /\ stack' = Tail(stack)
    /\ UNCHANGED <<open, pending, recent, mode, run, begun, said, shown>>

Raise ==
    /\ mode = "running" /\ Idle /\ stack # <<>>
    /\ mode' = "raising"
    /\ UNCHANGED <<open, pending, recent, stack, todo, run, begun, said, shown>>

\* The handler cuts into whatever the main thread does, which is not resumed.
Interrupt ==
    /\ mode \in {"running", "raising"}
    /\ mode' = "draining"
    /\ todo' = << [do |-> "flush"], [do |-> "cancel"] >>
    /\ UNCHANGED <<open, pending, recent, stack, run, begun, said, shown>>
\* It restores the handler before it and raises KeyboardInterrupt.
Propagate ==
    /\ mode = "draining" /\ Idle
    /\ mode' = "interrupted"
    /\ UNCHANGED <<open, pending, recent, stack, todo, run, begun, said, shown>>
\* From then on an interrupt raises where it comes.
InterruptAgain ==
    /\ mode = "interrupted" /\ ~Idle
    /\ todo' = <<>>
    /\ UNCHANGED <<open, pending, recent, stack, mode, run, begun, said, shown>>

\* The session ends: flush, and nothing else.
EndSession ==
    /\ mode \in {"running", "raising", "interrupted"} /\ Idle /\ stack = <<>>
    /\ mode' = "ended"
    /\ todo' = << [do |-> "flush"] >>
    /\ UNCHANGED <<open, pending, recent, stack, run, begun, said, shown>>

(***************************************************************************)
(* A run of the batch: the coordinator accounts for it, its worker for its *)
(* bars; the worker's lines are drained before the run is reported.        *)
(***************************************************************************)
Report(r, from, to, paths) ==
    /\ run[r] \in from /\ run' = [run EXCEPT ![r] = to]
    /\ open' = paths
    /\ UNCHANGED <<pending, recent, stack, mode, todo, begun, said, shown>>

BeginRun(r) == Report(r, {"queued"}, "running", open \cup {Account(r)})
BeginBars(r) == Report(r, {"running"}, "bars", open \cup {Bars(r)})
EndBars(r) == Report(r, {"bars"}, "drained", open \ {Bars(r)})
\* The worker may be killed, or report an error, at any point.
EndRun(r) ==
    Report(r, {"running", "bars", "drained"}, "ended", open \ {Account(r)})

Finished == mode = "ended" /\ UNCHANGED vars

Next ==
    \/ OpenPhase \/ ReleaseTick \/ ClosePhase \/ DeliverEvent
    \/ FlushTicks \/ DrainTick \/ CancelAllOpen \/ UnwindPhase \/ WindowElapses
    \/ EnterBlock \/ InBlock \/ Tick \/ LeaveBlock \/ Raise
    \/ Interrupt \/ Propagate \/ InterruptAgain \/ EndSession
    \/ \E r \in Runs : BeginRun(r) \/ BeginBars(r) \/ EndBars(r) \/ EndRun(r)
    \/ Finished

Spec == Init /\ [][Next]_vars

----------------------------------------------------------------------------
\* A tick held back comes out in its own phase or not at all: after the begin
\* it was made under, before any end of that phase, also where the same path is
\* begun again, and never behind one that counted higher (tick, flush, emit).
\* And a phase that ends in order has shown how far it got, however short it
\* was and however its ticks fell into the windows (emit, PhaseEnd).
TicksAreTrue ==
    \A b \in Blocks :
        LET events == shown[Block(b)]
        IN  /\ \A i \in DOMAIN events : events[i].kind = "tick" =>
                /\ \E j \in 1..i : events[j].kind = "begin" /\ events[j].gen = events[i].gen
                /\ \A j \in 1..i : events[j].gen = events[i].gen =>
                    events[j].kind # "end" /\ events[j].current <= events[i].current
            /\ events # <<>> /\ Last(events).status = "ok" /\ said[Block(b)] > 0 =>
                \E i \in DOMAIN events :
                    events[i].gen = begun[Block(b)] /\ events[i].current = said[Block(b)]

\* When the interrupt goes on to the teardown, the sinks have seen every tick
\* still held back and the end of every block the main thread is in; what is
\* open then was opened by a run meanwhile (_on_sigint, cancel_all_open).
DrainIsComplete ==
    mode = "draining" /\ Idle =>
        /\ pending = {}
        /\ \A b \in Range(stack) : \E i \in DOMAIN shown[Block(b)] :
            LET e == shown[Block(b)][i]
            IN  e.gen = begun[Block(b)] /\ e.status = "cancelled"
        /\ open \cap BlockPaths = {}
=============================================================================
