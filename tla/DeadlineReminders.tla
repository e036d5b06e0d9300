------------------------- MODULE DeadlineReminders -------------------------
(***************************************************************************)
(* The due dates of task cards and the worker that reminds an assignee     *)
(* once an hour of what is due within a day                                *)
(* (backend/workers/deadlineWorker.js, and the handlers of                 *)
(* taskController.js that change what the worker reads).                   *)
(*                                                                         *)
(* The worker and updateTask both read a task, and both save it later. A   *)
(* save sends only the fields whose value in memory differs from the value *)
(* read, so neither notices the other.                                     *)
(*                                                                         *)
(* Who may do what is in RoomContent; here a handler is its read and its   *)
(* save.  The room and an account go in one step.                          *)
(***************************************************************************)
EXTENDS Naturals

CONSTANTS
  Assignee,   \* accounts a task may be assigned to
  NoAssignee, \* null in place of one
  Card,       \* task cards
  NoCard,     \* the task of a request or worker that has none
  Editor,     \* requests that edit a task, being served at the same time
  Server,     \* processes that run the worker
  MaxDate,    \* due dates are 1 .. MaxDate, in their order; 0 is none
  MaxFaults   \* bound of the model: stops, and notifications not stored

ASSUME ReminderAssumptions ==
  /\ NoAssignee \notin Assignee
  /\ NoCard \notin Card
  /\ MaxDate \in Nat
  /\ MaxFaults \in Nat

VARIABLES
  assignees,  \* the accounts that are stored
  housed,     \* the tasks whose room is stored (each has its own here)
  task,       \* the tasks' documents
  edit,       \* what each request will save
  worker,     \* the worker of each process
  notice,     \* what was reminded of: tasks, with the date they had
  near,       \* dates up to this one are less than a day away,
  gone,       \* and up to this one are past
  faults      \* stops, and notifications not stored

taskVars == <<assignees, housed, task, edit>>
workVars == <<worker, notice>>
timeVars == <<near, gone>>
reminderVars == <<taskVars, workVars, timeVars, faults>>

Date == 0 .. MaxDate

AssigneeOrNone == Assignee \cup {NoAssignee}

TaskCard == [stored : BOOLEAN, assignee : AssigneeOrNone, dueDate : Date, reminderSent : BOOLEAN]

Blank == [stored |-> FALSE, assignee |-> NoAssignee, dueDate |-> 0, reminderSent |-> FALSE]

Edit == [task : Card \cup {NoCard}, fields : SUBSET {"assignee", "dueDate", "reminderSent"},
         assignee : AssigneeOrNone, dueDate : Date]

NoEdit == [task |-> NoCard, fields |-> {}, assignee |-> NoAssignee, dueDate |-> 0]

(* A task as the worker read it; populate leaves null for an account that  *)
(* is gone.                                                                *)
Copy == [task : Card, assignee : AssigneeOrNone, dueDate : Date]

(* "at" is the task of the batch whose turn it is.                         *)
Worker == [step : {"idle", "loop", "notify", "save"}, batch : SUBSET Copy, at : Card \cup {NoCard}]

Resting == [step |-> "idle", batch |-> {}, at |-> NoCard]

RemindersInit ==
  /\ assignees = Assignee
  /\ housed = Card
  /\ task = [t \in Card |-> Blank]
  /\ edit = [r \in Editor |-> NoEdit]
  /\ worker = [w \in Server |-> Resting]
  /\ notice = {}
  /\ near = 0
  /\ gone = 0
  /\ faults = 0

-----------------------------------------------------------------------------
CreateTask(t, a, d) ==
  /\ t \in housed
  /\ ~task[t].stored
  /\ \A c \in notice : c.task # t
  /\ task' = [task EXCEPT ![t] = [Blank EXCEPT !.stored = TRUE, !.assignee = a, !.dueDate = d]]
  /\ UNCHANGED <<assignees, housed, edit, workVars, timeVars, faults>>

DeleteTask(t) ==
  /\ task[t].stored
  /\ task' = [task EXCEPT ![t] = Blank]
  /\ UNCHANGED <<assignees, housed, edit, workVars, timeVars, faults>>

Reads(r, t, fields, a, d) ==
  /\ edit[r] = NoEdit
  /\ task[t].stored
  /\ edit' = [edit EXCEPT ![r] = [task |-> t, fields |-> fields, assignee |-> a, dueDate |-> d]]
  /\ UNCHANGED <<assignees, housed, task, workVars, timeVars, faults>>

(* What a request gives and the copy has otherwise; a date also assigns    *)
(* reminderSent, which differs from the copy only if it was set there.     *)
Changed(t, given, a, d) ==
  {f \in given : \/ f = "assignee" /\ a # task[t].assignee
                 \/ f = "dueDate" /\ d # task[t].dueDate}
  \cup {f \in {"reminderSent"} : "dueDate" \in given /\ task[t].reminderSent}

UpdateTask(r, t, given, a, d) ==
  /\ t \in housed
  /\ given # {}
  /\ "assignee" \in given \/ a = NoAssignee
  /\ "dueDate" \in given \/ d = 0
  /\ Reads(r, t, Changed(t, given, a, d), a, d)

ClaimTask(r, t, u) ==
  /\ t \in housed
  /\ u \in assignees
  /\ Reads(r, t, {"assignee"}, IF task[t].assignee = u THEN NoAssignee ELSE u, 0)

Sent(c, j) ==
  [c EXCEPT !.assignee = IF "assignee" \in j.fields THEN j.assignee ELSE @,
            !.dueDate = IF "dueDate" \in j.fields THEN j.dueDate ELSE @,
            !.reminderSent = @ /\ "reminderSent" \notin j.fields]

(* A save of a task that is gone is refused.                               *)
Save(r) ==
  LET j == edit[r] IN
  /\ j.task # NoCard
  /\ task' = [task EXCEPT ![j.task] = IF task[j.task].stored THEN Sent(task[j.task], j) ELSE @]
  /\ edit' = [edit EXCEPT ![r] = NoEdit]
  /\ UNCHANGED <<assignees, housed, workVars, timeVars, faults>>

(* deleteRoom takes a task along; deleteAccount of the room's owner leaves *)
(* it if another member made it, and takes the account off its tasks.      *)
RoomGoes(t) ==
  /\ t \in housed
  /\ housed' = housed \ {t}
  /\ task' \in {task, [task EXCEPT ![t] = Blank]}
  /\ UNCHANGED <<assignees, edit, workVars, timeVars, faults>>

AccountGoes(u) ==
  /\ u \in assignees
  /\ assignees' = assignees \ {u}
  /\ task' = [t \in Card |-> IF task[t].assignee = u
                             THEN [task[t] EXCEPT !.assignee = NoAssignee] ELSE task[t]]
  /\ UNCHANGED <<housed, edit, workVars, timeVars, faults>>

-----------------------------------------------------------------------------
Upcoming(t) ==
  /\ task[t].stored
  /\ gone < task[t].dueDate /\ task[t].dueDate <= near
  /\ ~task[t].reminderSent
  /\ task[t].assignee # NoAssignee

CopyOf(t) ==
  [task |-> t, dueDate |-> task[t].dueDate,
   assignee |-> IF task[t].assignee \in assignees THEN task[t].assignee ELSE NoAssignee]

WorkerGoes(w, x) == worker' = [worker EXCEPT ![w] = x]

(* checkDeadlines reads all tasks at once, and goes through them.          *)
Scan(w) ==
  LET found == {t \in Card : Upcoming(t)} IN
  /\ worker[w] = Resting
  /\ found # {}
  /\ WorkerGoes(w, [Resting EXCEPT !.step = "loop", !.batch = {CopyOf(t) : t \in found}])
  /\ UNCHANGED <<taskVars, notice, timeVars, faults>>

(* The loop goes on with the rest of the batch, whatever became of c.      *)
LoopGoesOn(w, c) ==
  LET left == worker[w].batch \ {c} IN
  WorkerGoes(w, IF left = {} THEN Resting
                ELSE [Resting EXCEPT !.step = "loop", !.batch = left])

(* Seeded fault: a task that cannot be reminded of ends the loop.          *)
SkipsAll(w, c) == WorkerGoes(w, Resting)

(* A task is skipped when its room is gone, and when its assignee is: the  *)
(* worker then reads a field of null, and catches the error for this task. *)
Skips(w, c) == LoopGoesOn(w, c)

LookUpRoom(w, c) ==
  /\ worker[w].step = "loop"
  /\ c \in worker[w].batch
  /\ IF c.task \in housed /\ c.assignee # NoAssignee
     THEN WorkerGoes(w, [worker[w] EXCEPT !.step = "notify", !.at = c.task])
     ELSE Skips(w, c)
  /\ UNCHANGED <<taskVars, notice, timeVars, faults>>

Notify(w, c) ==
  /\ worker[w].step = "notify"
  /\ c \in worker[w].batch
  /\ c.task = worker[w].at
  /\ notice' = notice \cup {[task |-> c.task, dueDate |-> c.dueDate]}
  /\ WorkerGoes(w, [worker[w] EXCEPT !.step = "save"])
  /\ UNCHANGED <<taskVars, timeVars, faults>>

(* Seeded fault: the failure is caught, and the task is marked all the     *)
(* same.                                                                   *)
FailsAndMarks(w, c) == WorkerGoes(w, [worker[w] EXCEPT !.step = "save"])

Fails(w, c) == LoopGoesOn(w, c)

NotifyFails(w, c) ==
  /\ worker[w].step = "notify"
  /\ c \in worker[w].batch
  /\ c.task = worker[w].at
  /\ faults < MaxFaults
  /\ faults' = faults + 1
  /\ Fails(w, c)
  /\ UNCHANGED <<taskVars, notice, timeVars>>

(* Seeded fault: the mark is stored whether the task still is or not.      *)
MarkedAnyway(doc) == [doc EXCEPT !.reminderSent = TRUE]

Marked(doc) == [doc EXCEPT !.reminderSent = doc.stored]

MarkSent(w, c) ==
  /\ worker[w].step = "save"
  /\ c \in worker[w].batch
  /\ c.task = worker[w].at
  /\ task' = [task EXCEPT ![c.task] = Marked(task[c.task])]
  /\ LoopGoesOn(w, c)
  /\ UNCHANGED <<assignees, housed, edit, notice, timeVars, faults>>

DateNears ==
  /\ near < MaxDate
  /\ near' = near + 1
  /\ UNCHANGED <<taskVars, workVars, gone, faults>>

DatePasses ==
  /\ gone < near
  /\ gone' = gone + 1
  /\ UNCHANGED <<taskVars, workVars, near, faults>>

(* A stop of the server.                                                   *)
ServerStops ==
  /\ faults < MaxFaults
  /\ faults' = faults + 1
  /\ edit' = [r \in Editor |-> NoEdit]
  /\ worker' = [w \in Server |-> Resting]
  /\ UNCHANGED <<assignees, housed, task, notice, timeVars>>

-----------------------------------------------------------------------------
Work(w) ==
  \/ Scan(w)
  \/ \E c \in worker[w].batch : LookUpRoom(w, c) \/ Notify(w, c) \/ MarkSent(w, c)

RemindersNext ==
  \/ \E t \in Card : \/ \E a \in assignees \cup {NoAssignee}, d \in Date : CreateTask(t, a, d)
                     \/ DeleteTask(t)
  \/ \E r \in Editor, t \in Card :
       \/ \E given \in SUBSET {"assignee", "dueDate"},
             a \in assignees \cup {NoAssignee}, d \in Date : UpdateTask(r, t, given, a, d)
       \/ \E u \in Assignee : ClaimTask(r, t, u)
  \/ \E r \in Editor : Save(r)
  \/ \E t \in Card : RoomGoes(t)
  \/ \E u \in Assignee : AccountGoes(u)
  \/ \E w \in Server : Work(w) \/ \E c \in worker[w].batch : NotifyFails(w, c)
  \/ DateNears
  \/ DatePasses
  \/ ServerStops

RemindersSpec == RemindersInit /\ [][RemindersNext]_reminderVars

(* The interval of the worker fires, and what it awaits is answered.       *)
RemindersLiveSpec == RemindersSpec /\ \A w \in Server : WF_reminderVars(Work(w))

-----------------------------------------------------------------------------
RemindersTypeOK ==
  /\ assignees \subseteq Assignee
  /\ housed \subseteq Card
  /\ task \in [Card -> TaskCard]
  /\ \A t \in Card : ~task[t].stored => task[t] = Blank
  /\ edit \in [Editor -> Edit]
  /\ worker \in [Server -> Worker]
  /\ notice \subseteq [task : Card, dueDate : Date]
  /\ near \in Date
  /\ gone \in 0 .. near
  /\ faults \in 0 .. MaxFaults

(* A task is marked as reminded of only after a reminder of it was stored, *)
(* although the notification may fail and the mark is a save of its own.   *)
MarkedWasNotified ==
  \A t \in Card : task[t].reminderSent => \E n \in notice : n.task = t

(* "Reset reminder if due date changed" (taskController.js:103): a task    *)
(* that is marked has had a reminder of the date it has now.               *)
MarkedForThisDate ==
  \A t \in Card : task[t].reminderSent =>
                   [task |-> t, dueDate |-> task[t].dueDate] \in notice

(* A task whose assignee is due a reminder does not stay so for ever: it   *)
(* is marked, or it is no longer due one.  Tasks that cannot be reminded   *)
(* of do not keep the worker from it.                                      *)
DueReminder(t) == Upcoming(t) /\ t \in housed /\ task[t].assignee \in assignees

ReminderComes == \A t \in Card : DueReminder(t) ~> ~DueReminder(t)

=============================================================================
