------------------------------ MODULE DemoData ------------------------------
(***************************************************************************)
(* The command seed_demo (ads/management/commands/seed_demo.py): it fills  *)
(* an empty site with demonstration records, remembers each one by a mark  *)
(* (a row of the admin log that belongs to the demonstration administrator)*)
(* and with --flush takes the marked records away again.                   *)
(*                                                                         *)
(* A run is one transaction under an advisory lock: runs follow each other,*)
(* the visitors of the site do not wait for them.  The command reads what  *)
(* is committed and its own writes; nothing of it shows before the commit. *)
(***************************************************************************)
EXTENDS Integers, Sequences

\* One demonstration record of each sort is kept, named by its key after MARKER.
DemoAccounts == {"admin", "user1", "user2"}
Keys == DemoAccounts \cup {"ad", "review", "question", "answer", "thread", "private"}

\* Records of visitors.  The demonstration accounts act as visitors too: ownAd is by
\* user1, ownThread is the pair (ad, user2) of the demonstration thread, ownMessage
\* is user2's in it.  log is what the admin log keeps of work done as "admin".
Foreign == {"otherReview", "otherAnswer", "otherThread", "ownAd", "ownThread", "ownMessage", "log"}
Records == Keys \cup Foreign

CONSTANTS
    NoRecord,   \* the record of a key without a mark
    MaxVisits   \* bound: what visitors do during one run

ASSUME DemoAssumption == NoRecord \notin Records /\ MaxVisits \in Nat

\* The foreign keys; every one of them is on_delete=CASCADE.
Refs == [r \in Records |->
    CASE r \in DemoAccounts -> {}
      [] r = "ad" -> {"user1"}
      [] r \in {"review", "question"} -> {"ad", "user2"}
      [] r = "answer" -> {"ad", "question", "user1"}
      [] r = "thread" -> {"ad", "user2"}
      [] r = "private" -> {"thread", "user2"}
      [] r = "otherReview" -> {"ad"}
      [] r = "otherAnswer" -> {"ad", "question"}
      [] r = "otherThread" -> {"ad"}
      [] r = "ownAd" -> {"user1"}
      [] r = "ownThread" -> {"ad", "user2"}
      [] r = "ownMessage" -> {"thread", "user2"}
      [] r = "log" -> {"admin"}]

ReferredBy == [r \in Records |-> {q \in Records : r \in Refs[q]}]

VARIABLES
    rows,   \* the committed records
    marks,  \* key -> the record its mark names, NoRecord without a mark; committed
    run,    \* the command: mode, what is left to do, its own writes
    lost    \* history: the records seed has left beside a new administrator without their
            \* marks, which went with the one that was deleted while it was running

demoVars == <<rows, marks, run, lost>>

----------------------------------------------------------------------------
NoMarks == [k \in Keys |-> NoRecord]

\* todo: the keys left; gone, added: rows deleted and created by the run; marks: the
\* marks as it sees them; entries: self.entries, the marks it read at first and those it has
\* made.  History: visits, what visitors have done since it began; late, the records they have
\* committed since the last check; bereft, the administrator was deleted under it.
NoRun ==
    [ mode |-> "none", pc |-> "idle", todo |-> {}, gone |-> {}, added |-> {},
      marks |-> NoMarks, entries |-> NoMarks,
      visits |-> 0, late |-> {}, bereft |-> FALSE ]

View == (rows \ run.gone) \cup run.added

\* Rows a deletion takes with it.  Three rounds reach the longest chain of Refs.
Closure(set, within) ==
    LET More(s) == s \cup (within \cap UNION {ReferredBy[r] : r \in s})
    IN  More(More(More(set)))

DemoInit ==
    /\ rows = {}
    /\ marks = NoMarks
    /\ run = NoRun
    /\ lost = {}

SeedOrder == <<"admin", "user1", "user2", "ad", "review", "question", "answer", "thread", "private">>

\* Mutant of FlushOrder: the administrator goes before the users (4 and 5 swapped).
FlushAdminBeforeUsers == <<"private", "thread", "answer", "review", "question", "ad", "admin", "user2", "user1">>

\* The sort key of flush; for equal keys the latest mark first.
FlushOrder == <<"private", "thread", "answer", "review", "question", "ad", "user2", "user1", "admin">>

\* The key whose turn it is.
Comes(k) ==
    LET order == IF run.mode = "seed" THEN SeedOrder ELSE FlushOrder
    IN  /\ k \in run.todo
        /\ \E i \in DOMAIN order : order[i] = k /\ \A h \in 1..(i - 1) : order[h] \notin run.todo

\* pg_advisory_xact_lock and the reading of the marks.
StartSeed ==
    /\ run.mode = "none"
    /\ run' = [NoRun EXCEPT !.mode = "seed", !.pc = "next", !.todo = Keys,
                            !.marks = marks, !.entries = marks]
    /\ UNCHANGED <<rows, marks, lost>>

StartFlush ==
    /\ run.mode = "none"
    /\ run' = [NoRun EXCEPT !.mode = "flush", !.pc = "next", !.marks = marks, !.entries = marks,
                            !.todo = {k \in Keys : marks[k] # NoRecord}]
    /\ UNCHANGED <<rows, marks, lost>>

\* Any error, and any row a visitor has taken away under the command, undoes it all.
RollBackRun ==
    /\ run.mode # "none"
    /\ run' = NoRun
    /\ UNCHANGED <<rows, marks, lost>>

\* The foreign keys are deferred: they are checked here, on what others committed too.
CommitRun ==
    /\ run.pc = "next" /\ run.todo = {}
    /\ \A r \in View : Refs[r] \subseteq View
    /\ (\E k \in Keys : run.marks[k] # NoRecord) => "admin" \in View
    /\ rows' = View
    /\ marks' = run.marks
    /\ run' = NoRun
    /\ lost' = CASE "admin" \notin View -> {}
                 [] "admin" \in View /\ run.bereft -> (View \cap Keys) \ run.added
                 [] OTHER -> lost \cap View

(***************************************************************************)
(* seed: one step for each record.                                         *)
(***************************************************************************)
\* Mutant of Existing: a record is known by its name alone, whoever has made it.
FoundByName(k) == k \in View

\* existing: by the entry, whatever has become of it in the table meanwhile.
Existing(k) == run.entries[k] # NoRecord /\ run.entries[k] \in View

Created(k) ==
    /\ run' = [run EXCEPT !.added = @ \cup {k}, !.marks[k] = k, !.entries[k] = k, !.todo = @ \ {k}]
    /\ UNCHANGED <<rows, marks, lost>>

Passed(k) ==
    /\ run' = [run EXCEPT !.todo = @ \ {k}]
    /\ UNCHANGED <<rows, marks, lost>>

SeedStep ==
    /\ run.mode = "seed"
    /\ \E k \in Keys :
           /\ Comes(k)
           /\ \/ Existing(k) /\ Passed(k)
              \* An account of that address without a mark: CommandError, see RollBackRun.
              \/ ~ Existing(k) /\ k \in DemoAccounts /\ k \notin View /\ Created(k)
              \/ ~ Existing(k) /\ k \notin DemoAccounts \cup {"thread", "private"} /\ Created(k)

\* `continue': a conversation the pair has begun itself gets no mark and no messages.
FoundThread == [run EXCEPT !.todo = @ \ {"thread", "private"}]

\* seed_threads, with get_or_create.  Without the advertisement or the conversation it
\* needs the step fails, see RollBackRun.
SeedThread ==
    /\ run.mode = "seed"
    /\ \E k \in {"thread", "private"} :
           /\ Comes(k) /\ ~ Existing(k)
           /\ \/ k = "thread" /\ "ad" \in View /\ {"thread", "ownThread"} \cap View = {} /\ Created(k)
              \/ /\ k = "thread" /\ "ad" \in View /\ {"thread", "ownThread"} \cap View # {}
                 /\ run' = FoundThread
                 /\ UNCHANGED <<rows, marks, lost>>
              \/ k = "private" /\ "thread" \in View /\ Created(k)

(***************************************************************************)
(* flush: for each mark, a check and then the deletion.                    *)
(***************************************************************************)
\* Mutant of Dependent: the answers to a question are not asked for.
AnswersIgnored(o) ==
    \E r \in View : o \in Refs[r] /\ r # "log" /\ ~ (o = "question" /\ r \in {"answer", "otherAnswer"})

\* What flush asks the tables of the site; it does not ask the admin log.
Dependent(o) == \E r \in View : o \in Refs[r] /\ r # "log"

\* The administrator is kept while one more mark is left.
OwnsMarks(k) == k = "admin" /\ \E j \in Keys \ {k} : run.marks[j] # NoRecord

CheckMarked ==
    /\ run.mode = "flush" /\ run.pc = "next"
    /\ \E k \in Keys :
           LET o == run.entries[k]
           IN  /\ Comes(k)
               /\ run' = CASE o \notin View -> [run EXCEPT !.marks[k] = NoRecord, !.todo = @ \ {k}]
                           [] o \in View /\ (Dependent(o) \/ OwnsMarks(k)) -> [run EXCEPT !.todo = @ \ {k}]
                           [] OTHER -> [run EXCEPT !.pc = "delete"]
    /\ UNCHANGED <<rows, marks, lost>>

\* obj.delete() collects what depends on the record now.
DeleteMarked ==
    /\ run.pc = "delete"
    /\ \E k \in Keys :
           LET taken == Closure({run.entries[k]}, View)
           IN  /\ Comes(k)
               /\ run' = [run EXCEPT !.pc = "next", !.todo = @ \ {k}, !.late = {},
                                     !.gone = @ \cup (taken \cap rows),
                                     !.marks = IF "admin" \in taken THEN NoMarks ELSE [@ EXCEPT ![k] = NoRecord]]
    /\ UNCHANGED <<rows, marks, lost>>

(***************************************************************************)
(* The site.  What needs a row the run has deleted waits for its commit.   *)
(***************************************************************************)
\* Bound: MaxVisits.
MayVisit == run.mode # "none" => run.visits < MaxVisits

Visit(written, bereft, runMarks) ==
    /\ run' = IF run.mode = "none" THEN run
              ELSE [run EXCEPT !.visits = @ + 1, !.late = @ \cup written, !.bereft = @ \/ bereft,
                               !.marks = runMarks]

Write(r) ==
    /\ MayVisit
    /\ r \in Foreign \ rows
    /\ Refs[r] \subseteq rows \ run.gone
    /\ r = "ownThread" => "thread" \notin rows \cup run.added
    /\ rows' = rows \cup {r}
    /\ Visit(IF run.pc = "delete" THEN {r} ELSE {}, FALSE, run.marks)
    /\ UNCHANGED <<marks, lost>>

\* The deletion of the administrator waits for a run that has replaced or removed a
\* mark, and takes every mark but those the run has added itself.
MarksFree ==
    run.mode # "none" => \A k \in Keys : marks[k] = NoRecord \/ (k \notin run.added /\ run.marks[k] = marks[k])
OwnMarks == [k \in Keys |-> IF k \in run.added THEN run.marks[k] ELSE NoRecord]

\* An owner or an administrator deletes.  Conversations and messages go only with
\* their advertisement; the admin pages refuse an account that has any.
Remove(r) ==
    LET taken == Closure({r}, rows)
        talks == {"thread", "private", "otherThread", "ownThread", "ownMessage"}
    IN  /\ MayVisit
        /\ r \in rows \ (talks \cup {"log"})
        /\ taken \cap run.gone = {}
        /\ r \in DemoAccounts => taken \cap talks = {}
        /\ "admin" \in taken => MarksFree
        /\ rows' = rows \ taken
        /\ marks' = IF "admin" \in taken THEN NoMarks ELSE marks
        /\ Visit({}, "admin" \in taken, IF "admin" \in taken THEN OwnMarks ELSE run.marks)
        /\ lost' = IF "admin" \in taken THEN {} ELSE lost \ taken

DemoNext ==
    \/ StartSeed \/ SeedStep \/ SeedThread \/ StartFlush \/ CheckMarked \/ DeleteMarked \/ CommitRun \/ RollBackRun
    \/ \E r \in Foreign : Write(r)
    \/ \E r \in Records : Remove(r)

DemoSpec == DemoInit /\ [][DemoNext]_demoVars

----------------------------------------------------------------------------
(* Properties.                                                             *)

\* While the administrator is there a demonstration record keeps its mark, by which a
\* second run and flush find it; no visitor's record is ever marked, not even a
\* conversation the command came upon; and no run makes a record again that is there.
\* Excepted are the records of a site whose administrator was deleted under a run of
\* seed: it goes by the marks it has read, makes him anew and leaves the rest unmarked.
MarksNameDemoRecords ==
    /\ \A k \in Keys : marks[k] \in {k, NoRecord}
    /\ "admin" \in rows => \A k \in (rows \cap Keys) \ lost : marks[k] = k
    /\ run.added \cap rows = {}

Marks == [Keys -> Records \cup {NoRecord}]
Run == [ mode : {"none", "seed", "flush"}, pc : {"idle", "next", "delete"}, todo : SUBSET Keys,
         gone : SUBSET Records, added : SUBSET Keys, marks : Marks, entries : Marks,
         visits : 0..MaxVisits, late : SUBSET Foreign, bereft : BOOLEAN ]

\* The variables keep their types, and marks name what they should.
DemoTypeOK ==
    /\ rows \subseteq Records
    /\ marks \in Marks
    /\ run \in Run
    /\ run.gone \subseteq rows
    /\ lost \subseteq rows \cap Keys
    /\ MarksNameDemoRecords

\* flush takes only what the command has made: the dependent rows it asks for are
\* all its deletion can take along, whatever visitors did before its check.  Lost
\* are records they commit between the check and the deletion, and the rest of the
\* administrator's log.
FlushSparesVisitors ==
    [][(run'.gone \ run.gone) \cap Foreign \subseteq run.late \cup {"log"}]_demoVars

Needed(set) == LET More(s) == s \cup UNION {Refs[r] : r \in s} IN More(More(More(set)))

\* Undisturbed, flush keeps the mark of nothing it could have taken: its order comes to
\* every marked record after what hangs on it, and to the administrator after the last
\* mark, so that he stays for another mark only.
FlushLeavesOnlyWhatIsNeeded ==
    run.mode = "flush" /\ run.visits = 0 /\ run.todo = {} =>
        LET kept == {k \in Keys : run.marks[k] # NoRecord}
        IN  \A k \in kept : k \in Needed(rows \cap (Foreign \ {"log"})) \/ (k = "admin" /\ kept # {"admin"})

----------------------------------------------------------------------------
(* Why they hold.                                                          *)

\* seed deletes nothing and flush makes nothing.
Modes ==
    /\ run.mode = "none" <=> run.pc = "idle"
    /\ run.pc = "delete" => run.mode = "flush"
    /\ run.mode = "seed" => run.gone = {}
    /\ run.mode = "flush" => run.added = {}

\* Of the pair (ad, user2) there is one conversation, and a message needs its own.
OneThread ==
    /\ ~ ("ownThread" \in rows /\ "thread" \in rows \cup run.added)
    /\ "private" \in rows => "thread" \in rows

\* Every record has what it refers to; one without a mark refers to none with a mark.
Referred ==
    /\ \A r \in rows : Refs[r] \subseteq rows
    /\ \A k \in rows \cap Keys : marks[k] = NoRecord => \A j \in Refs[k] : marks[j] = NoRecord
    /\ run.mode # "none" => \A k \in rows \cap Keys :
           run.entries[k] = NoRecord => \A j \in Refs[k] : run.entries[j] = NoRecord

\* What the run has made is marked, and so is what it will leave of the rest, but for
\* what it has not come to yet and what an administrator took the marks of.
RunMarks ==
    /\ \A k \in Keys : run.marks[k] \in {k, NoRecord} /\ run.entries[k] \in {k, NoRecord}
    /\ run.mode = "flush" => \A k \in run.todo : run.entries[k] = k
    /\ \A k \in run.added : run.marks[k] = k /\ run.entries[k] = k
    /\ run.mode = "seed" /\ "admin" \in run.todo => run.todo = Keys
    /\ run.mode # "none" /\ "admin" \in View =>
           \A k \in (rows \ run.gone) \cap Keys :
               run.marks[k] = k \/ k \in lost \/ run.bereft \/ (run.mode = "seed" /\ k \in run.todo)

\* The marks the run has not touched are those it has read, or went with the administrator.
ReadMarks ==
    /\ run.mode = "seed" =>
           \/ \A k \in Keys \ run.added : run.marks[k] = run.entries[k]
           \/ run.bereft /\ \A k \in Keys \ run.added : run.marks[k] = NoRecord
    /\ run.mode = "flush" =>
           /\ \A k \in Keys : run.marks[k] \in {run.entries[k], NoRecord}
           /\ \/ \A k \in (rows \ run.gone) \cap Keys : run.marks[k] = run.entries[k]
              \/ \A k \in Keys : run.marks[k] = NoRecord

\* seed passes an account only by its entry.
AccountsKnown ==
    run.mode = "seed" => \A a \in DemoAccounts \cap rows : a \in run.todo \/ run.entries[a] = a

\* Between the check of a record and its deletion only late records come to need it.
CheckedIsFree ==
    run.pc = "delete" =>
        \A k \in Keys : Comes(k) => \A r \in View : k \in Refs[r] => r \in run.late \cup {"log"}

\* The marks go with the administrator.  Undisturbed, flush keeps no mark it has come
\* to but of what a visitor's record needs.
KeptAreNeeded ==
    /\ "admin" \notin rows => \A k \in Keys : marks[k] = NoRecord
    /\ run.mode = "flush" /\ run.visits = 0 =>
           /\ run.late = {}
           /\ "admin" \notin View => \A k \in Keys : run.marks[k] = NoRecord
           /\ \A k \in Keys \ (run.todo \cup {"admin"}) :
                  run.marks[k] # NoRecord => k \in Needed(rows \cap (Foreign \ {"log"}))
           /\ "admin" \notin run.todo /\ run.marks["admin"] # NoRecord =>
                  run.todo = {} /\ \E j \in Keys \ {"admin"} : run.marks[j] # NoRecord

DemoInductive ==
    /\ DemoTypeOK /\ Modes /\ OneThread /\ Referred /\ RunMarks /\ ReadMarks /\ AccountsKnown
    /\ CheckedIsFree /\ KeptAreNeeded
=============================================================================
