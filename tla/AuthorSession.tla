--------------------------- MODULE AuthorSession ---------------------------
(***************************************************************************)
(* The author command (author.py, author_decisions.py, cli.py), one        *)
(* session after another over the same crates directory: a dialog locks    *)
(* decisions into an append-only record and ends with an intent; then      *)
(* files are emitted, built and smoke-tested under a repair budget, and    *)
(* when the budget is spent a menu lets the operator amend, extend or      *)
(* abort.                                                                  *)
(*                                                                         *)
(* What the language model says, whether a crate builds and what its smoke *)
(* run shows are inputs.  What is in a crate is known by the emission it   *)
(* came with: "new" for the latest of all, "old" for any other, "mixed"    *)
(* when the files are not of one.                                          *)
(***************************************************************************)
EXTENDS Integers, Sequences, FiniteSets

CONSTANTS
    Names,          \* crate names
    Mechanisms,     \* values of mechanism_summary
    Specs,          \* whether intents hold an experiment_spec: {TRUE}, {FALSE} or both
    NoName,         \* no crate: None of the code
    MaxTurns,       \* run_intent_dialog(max_turns)
    KRepair,        \* --k-repair-emit
    MaxK,           \* bound: the budgets an operator types at the menu
    MaxMenus,       \* bound: menus of a session answered otherwise than by abort
    MaxSessions     \* bound: sessions

ASSUME AuthorAssumption ==
    /\ NoName \notin Names /\ Specs \subseteq BOOLEAN
    /\ MaxTurns \in Nat \ {0} /\ KRepair \in Nat /\ MaxK \in Nat
    /\ MaxMenus \in Nat /\ MaxSessions \in Nat

VARIABLES
    crates,         \* Cargo.toml, src/lib.rs and smoke.toml of each crate directory
    intents,        \* intent.toml of each
    experiments,    \* experiment.yaml of each, by the emission it came with
    log,            \* .author/decisions.jsonl of each: its events
    torn,           \* whether the last line of a log is cut off
    s,              \* the running session, in memory
    sessions        \* sessions so far

disk == <<crates, intents, experiments>>
vars == <<crates, intents, experiments, log, torn, s, sessions>>

Contents == {"none", "old", "new", "mixed"}
Aged(content) == IF content = "new" THEN "old" ELSE content
Intents == [name : Names, mechanism : Mechanisms, spec : Specs]
NoIntent == [name |-> NoName]

(***************************************************************************)
(* The record: typed events, replayed so that the last one of a field wins *)
(***************************************************************************)
Fields == {"crate_name", "mechanism_summary"}
ValuesOf(f) == IF f = "crate_name" THEN Names ELSE Mechanisms
Mappings ==
    UNION {{b \in [F -> Names \cup Mechanisms] : \A f \in F : b[f] \in ValuesOf(f)} :
               F \in SUBSET Fields}

IsDecision(e) == e.type \in {"decision_locked", "decision_amended"}
Project(events) ==
    LET At(f) == {j \in DOMAIN events : IsDecision(events[j]) /\ events[j].field = f}
    IN  [f \in {g \in Fields : At(g) # {}} |->
            events[CHOOSE j \in At(f) : \A k \in At(f) : k <= j].value]

Event(t) == <<[type |-> t]>>
Decision(t, f, v) == <<[type |-> t, field |-> f, value |-> v]>>
Updated(old, new) ==
    [f \in DOMAIN old \cup DOMAIN new |-> IF f \in DOMAIN new THEN new[f] ELSE old[f]]

\* What the operator is shown and the model is told: the record, or the buffer.
Projection == IF s.at = NoName THEN s.pending ELSE Project(log[s.at])

InOrder(events) == events["crate_name"] \o events["mechanism_summary"]

\* The events a block adds to a record, a new one or the one that is open.
FirstEvents(decisions) ==
    Event("dialog_started")
    \o InOrder([f \in Fields |->
                    IF f \in DOMAIN decisions
                    THEN Decision("decision_locked", f, decisions[f]) ELSE <<>>])
DiffEvents(current, block) ==
    InOrder([f \in Fields |->
        IF f \notin DOMAIN block THEN <<>>
        ELSE IF f \notin DOMAIN current
             THEN Decision("decision_locked", f, block[f])
             ELSE IF current[f] # block[f]
                  THEN Decision("decision_amended", f, block[f]) ELSE <<>>])

BufferedBlock(block) == block
Buffered(block) == Updated(s.pending, block)
Opens(block) == s.at = NoName /\ "crate_name" \in DOMAIN Buffered(block)
RecordAfter(block) == IF Opens(block) THEN Buffered(block)["crate_name"] ELSE s.at
EventsOf(block) ==
    IF Opens(block) THEN FirstEvents(Buffered(block))
    ELSE IF s.at = NoName THEN <<>> ELSE DiffEvents(Project(log[s.at]), block)

\* The session after a block has been ingested.
Ingested(block) ==
    [s EXCEPT !.at = RecordAfter(block),
              !.pending = IF s.at # NoName THEN @
                          ELSE IF Opens(block) THEN <<>> ELSE Buffered(block),
              !.said = Updated(@, block)]

Logged(name, events) ==
    IF name = NoName THEN log ELSE [log EXCEPT ![name] = @ \o events]

(***************************************************************************)
(* Sessions                                                                *)
(***************************************************************************)
Fresh ==
    [pc |-> "idle", turn |-> 0, at |-> NoName, pending |-> <<>>, said |-> <<>>,
     intent |-> NoIntent, budget |-> KRepair,
     attempt |-> 0, hash |-> "none", menus |-> 0]
Idle(pc) == [Fresh EXCEPT !.pc = pc]

Init ==
    /\ crates = [n \in Names |-> "none"]
    /\ intents = [n \in Names |-> NoIntent]
    /\ experiments = [n \in Names |-> "none"]
    /\ log = [n \in Names |-> <<>>]
    /\ torn = [n \in Names |-> FALSE]
    /\ s = Fresh
    /\ sessions = 0

Start ==
    /\ s.pc \in {"idle", "done"} /\ sessions < MaxSessions
    /\ s' = Idle("dialog")
    /\ sessions' = sessions + 1
    /\ UNCHANGED <<disk, log, torn>>

(***************************************************************************)
(* The dialog: one answer of the model.  Its decisions are ingested first, *)
(* then an intent block, if it has one, ends the dialog.                   *)
(***************************************************************************)
Readable(block) == Opens(block) => ~torn[RecordAfter(block)]

\* A crate is there when a manifest or a source is; a record alone is none.
IsBaseline(n) == crates[n] # "none"

\* The record of an earlier session cannot be parsed: DecisionRecordError.
RecordUnreadable(block) ==
    /\ s.pc = "dialog" /\ ~Readable(block)
    /\ s' = Idle("idle")
    /\ UNCHANGED <<disk, log, torn, sessions>>

Answer(block, events, next) ==
    /\ s.pc = "dialog" /\ Readable(block)
    /\ log' = Logged(RecordAfter(block), EventsOf(block) \o events)
    /\ s' = next
    /\ UNCHANGED <<disk, torn, sessions>>

\* No intent yet: the operator replies, or the turns are spent (DialogError).
Talk(block) ==
    Answer(block, <<>>, IF s.turn + 1 = MaxTurns THEN Idle("idle")
                        ELSE [Ingested(block) EXCEPT !.turn = @ + 1])

\* An intent block that does not parse: DialogError, and the command ends.
Malformed(block) == Answer(block, <<>>, Idle("idle"))

\* The name collides and the operator wants another: _RenameRequestedError
\* is not caught anywhere.
Rename(block, i) ==
    /\ IsBaseline(i.name)
    /\ Answer(block, <<>>, Idle("idle"))

\* With --verify batch an intent without experiment_spec ends the command.
Finalize(block, i, verify) ==
    Answer(block, Event("intent_finalized"),
           IF verify /\ ~i.spec THEN Idle("idle")
           ELSE [Ingested(block) EXCEPT !.pc = "emit", !.intent = i])

(***************************************************************************)
(* Emit, write, build, smoke: run_stage_with_repair over validate          *)
(***************************************************************************)
\* Mutant: a failed attempt does not count.
RetryUncounted(session) ==
    IF session.attempt < session.budget
    THEN [session EXCEPT !.pc = "emit"] ELSE [session EXCEPT !.pc = "exhausted"]
Retry(session) ==
    IF session.attempt < session.budget
    THEN [session EXCEPT !.pc = "emit", !.attempt = @ + 1]
    ELSE [session EXCEPT !.pc = "exhausted"]

\* The next emission: what was the latest is so no more, and the crate of the
\* intent holds `content`.
Emission(content, next) ==
    /\ s.pc = "emit"
    /\ crates' = [[n \in Names |-> Aged(crates[n])] EXCEPT ![s.intent.name] = content]
    /\ experiments' = [n \in Names |-> Aged(experiments[n])]
    /\ s' = [next EXCEPT !.said = <<>>]
    /\ UNCHANGED <<intents, log, torn, sessions>>

\* No sections, or a required file missing: nothing is written.
EmitMalformed == Emission(Aged(crates[s.intent.name]), Retry(s))

\* The files emitted replace those there.  Other files that an earlier
\* emission left, or that this one means to DELETE, stay.
EmitFilesOnce ==
    Emission(IF IsBaseline(s.intent.name) THEN Aged(crates[s.intent.name]) ELSE "new",
             [s EXCEPT !.pc = "build"])
EmitFiles == Emission("new", [s EXCEPT !.pc = "build"])

\* Manifest, lint and build say no, or the build raises.
RejectBuild ==
    /\ s.pc = "build"
    /\ s' = Retry(s)
    /\ UNCHANGED <<disk, log, torn, sessions>>

Build ==
    /\ s.pc = "build"
    /\ s' = [s EXCEPT !.pc = "smoke"]
    /\ UNCHANGED <<disk, log, torn, sessions>>

\* smoke.toml does not parse, the run fails or the runner raises.
RejectSmoke ==
    /\ s.pc = "smoke"
    /\ s' = Retry(s)
    /\ UNCHANGED <<disk, log, torn, sessions>>

Smoke ==
    /\ s.pc = "smoke"
    /\ s' = [s EXCEPT !.pc = "persist", !.hash = "new"]
    /\ UNCHANGED <<disk, log, torn, sessions>>

PersistIntent ==
    /\ s.pc = "persist"
    /\ intents' = [intents EXCEPT ![s.intent.name] = s.intent]
    /\ s' = [s EXCEPT !.pc = IF s.intent.spec THEN "experiment" ELSE "done"]
    /\ UNCHANGED <<crates, experiments, log, torn, sessions>>

PersistExperiment ==
    /\ s.pc = "experiment"
    /\ experiments' = [experiments EXCEPT ![s.intent.name] = s.hash]
    /\ s' = [s EXCEPT !.pc = "done"]
    /\ UNCHANGED <<crates, intents, log, torn, sessions>>

(***************************************************************************)
(* The budget is spent: run_author_session and the menu                    *)
(***************************************************************************)
RecordExhaustion ==
    /\ s.pc = "exhausted"
    /\ log' = Logged(s.at, Event("repair_budget_exhausted"))
    /\ s' = [s EXCEPT !.pc = "menu"]
    /\ UNCHANGED <<disk, torn, sessions>>

Choose(next) ==
    /\ s.pc = "menu"
    /\ s' = next
    /\ UNCHANGED <<disk, log, torn, sessions>>

Again == [s EXCEPT !.pc = "emit", !.attempt = 0, !.menus = @ + 1]

Abort == Choose(Idle("idle"))

\* A negative budget runs no attempt, and the missing last one is an
\* IndexError.
ExtendBudget(k) ==
    /\ s.menus < MaxMenus
    /\ Choose(IF k < 0 THEN Idle("idle")
              ELSE [Again EXCEPT !.budget = k])

\* Suggest an alternative, or edit a decision: the model returns a whole
\* intent, of which nothing but the baseline is kept.
Amend(i) ==
    /\ s.menus < MaxMenus
    /\ Choose([Again EXCEPT !.intent = i])

\* No intent block, or one that does not parse: DialogError is not caught.
AmendMalformed ==
    /\ s.menus < MaxMenus
    /\ Choose(Idle("idle"))

(***************************************************************************)
(* Failures                                                                *)
(***************************************************************************)
Running == s.pc \notin {"idle", "done"}

\* The process dies, or a call without a handler raises: lint, a client, a
\* write.
Die ==
    /\ Running
    /\ s' = Idle("idle")
    /\ UNCHANGED <<disk, log, torn, sessions>>

\* While it appends, after some of the events and maybe a part of the next.
DieLogging(block) ==
    /\ s.pc = "dialog" /\ Readable(block) /\ EventsOf(block) # <<>>
    /\ \E n \in 0..Len(EventsOf(block)) - 1, cut \in BOOLEAN :
          /\ log' = Logged(RecordAfter(block), SubSeq(EventsOf(block), 1, n))
          /\ torn' = [torn EXCEPT ![RecordAfter(block)] = cut]
    /\ s' = Idle("idle")
    /\ UNCHANGED <<disk, sessions>>

\* While it writes the files of an emission: none, some or all are there.
DieWriting ==
    /\ s.pc = "emit"
    /\ \E content \in {Aged(crates[s.intent.name]), "mixed", "new"} :
          Emission(content, Idle("idle"))

----------------------------------------------------------------------------
Step ==
    \/ \E b \in Mappings :
          \/ RecordUnreadable(b) \/ Talk(b) \/ Malformed(b)
          \/ \E i \in Intents : Rename(b, i)
          \/ \E i \in Intents, verify \in BOOLEAN : Finalize(b, i, verify)
    \/ EmitMalformed \/ EmitFiles
    \/ RejectBuild \/ Build \/ RejectSmoke \/ Smoke
    \/ PersistIntent \/ PersistExperiment
    \/ RecordExhaustion
    \/ Abort \/ AmendMalformed
    \/ \E k \in -1..MaxK : ExtendBudget(k)
    \/ \E i \in Intents : Amend(i)

Fault ==
    \/ Die
    \/ \E b \in Mappings : DieLogging(b)
    \/ DieWriting

Next == Start \/ Step \/ Fault

Spec == Init /\ [][Next]_vars
\* The loop is sequential code whose calls return; the operator answers.
FairSpec == Spec /\ WF_vars(Step)

----------------------------------------------------------------------------
\* A session that reports a strategy (AuthoredStrategy) leaves in the crate the
\* sources whose artifact it names, all of one emission, the intent they were
\* emitted for and the experiment that came with it; whatever attempts,
\* amendments and other sessions wrote there before (author_strategy).
AcceptedIsOnDisk ==
    s.pc = "done" =>
        /\ s.hash = "new" /\ crates[s.intent.name] = "new"
        /\ intents[s.intent.name] = s.intent
        /\ s.intent.spec => experiments[s.intent.name] = "new"

\* No decision of the dialog is lost: what was said last of a field is what the
\* buffer or the record shows, whether it was said before the record could be
\* opened, was amended, or met the record of an earlier session
\* (run_intent_dialog, _ingest_decisions, DecisionRecord.project).
DecisionsSurvive ==
    s.pc \in {"dialog", "emit"} =>
        \A f \in DOMAIN s.said : f \in DOMAIN Projection /\ Projection[f] = s.said[f]

\* Every session comes to an end once the operator stops asking for more
\* (max_turns, k_repair).
EverySessionEnds == Running ~> ~Running
=============================================================================
