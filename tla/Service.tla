------------------------------- MODULE Service -------------------------------
(***************************************************************************)
(* The background subbier on macOS: the launch agent's file, what launchd  *)
(* knows of the job (libsubby/service.rs), the processes and the port they *)
(* find each other by (instance.rs), `subbier service` (service.rs of the  *)
(* CLI), and the menu bar app, which keeps the file in step with the       *)
(* setting launch-at-login (login_item.rs).                                *)
(*                                                                         *)
(* A command is a plan of steps, each one call or one write, between which *)
(* the processes go on.  A probe is answered at once by whoever holds the  *)
(* port; a wait may always run out of time.                                *)
(***************************************************************************)
EXTENDS Naturals, Sequences

CONSTANTS
  Pid,       \* process ids, to be used again
  None,
  MaxActs    \* bound on what the user does

VARIABLES
  plist,     \* None, or the program the launch agent's file names
  setting,   \* ui.launch-at-login in config.kdl
  job,       \* what launchd knows: loaded, pid, program
  process,   \* by pid: None, or the role, where it is, the setting it works by, the one
             \* of the newest snapshot, and what it has not seen or published yet
  port,      \* the process that listens
  plan,      \* the command under way: what it does, the steps left
  told,      \* what the last command said
  acts,      \* how many things the user did
  drift      \* history: the setting was changed where no app, or a command, would notice,
             \* or an app without an engine wrote the file by a setting of before

serviceVars == <<plist, setting, job, process, port, plan, told, acts, drift>>

NoPlan == [do |-> None, left |-> <<>>]
NoJob == [loaded |-> FALSE, pid |-> None, program |-> None]
App == "subbier-menubar"
Serve == "subbier serve"

Alive == {p \in Pid : process[p] # None}
Servers == {p \in Alive : process[p].at \in {"up", "unbound"}}
Apps == {p \in Alive : process[p].role = App}
Menus == Servers \cap Apps

\* An app that has looked at the file since it was last written, and published.
Settled(p) == process[p].at \in {"up", "unbound"} => process[p].seen /\ ~ process[p].due

\* config.kdl has a new mtime.
Edited ==
  process' = [p \in Pid |-> IF p \in Menus THEN [process[p] EXCEPT !.seen = FALSE] ELSE process[p]]

Act == acts < MaxActs /\ acts' = acts + 1

----------------------------------------------------------------------------
(* Processes. *)

Born(role) == [role |-> role, at |-> "asking", memory |-> FALSE, shown |-> FALSE,
                seen |-> TRUE, due |-> FALSE]

Free == Pid \ Alive
NextPid == CHOOSE p \in Free : TRUE

\* `subbier serve` in a terminal, or the app from the Finder.
Launch ==
  /\ Act /\ Free # {}
  /\ \E role \in {App, Serve} : process' = [process EXCEPT ![NextPid] = Born(role)]
  /\ UNCHANGED <<plist, setting, job, port, plan, told, drift>>

\* The process p is gone, and what it held.
Gone(p) ==
  /\ process' = [process EXCEPT ![p] = None]
  /\ port' = IF port = p THEN None ELSE port
  /\ job' = IF job.pid = p THEN [job EXCEPT !.pid = None] ELSE job

\* It refuses to start next to one that answers.
Ask(p) ==
  /\ process[p] # None /\ process[p].at = "asking"
  /\ IF port # None THEN Gone(p)
     ELSE process' = [process EXCEPT ![p].at = "loading"] /\ UNCHANGED <<port, job>>
  /\ UNCHANGED <<plist, setting, plan, told, acts, drift>>

\* The engine loads the configuration and binds; without the port it goes on.
Load(p) ==
  /\ process[p] # None /\ process[p].at = "loading"
  /\ process' = [process EXCEPT ![p].at = IF port = None THEN "up" ELSE "unbound",
                                ![p].memory = setting, ![p].shown = setting, ![p].due = TRUE]
  /\ port' = IF port = None THEN p ELSE port
  /\ UNCHANGED <<plist, setting, job, plan, told, acts, drift>>

\* A crash, `Quit` (the engine is given a moment), or a stop that is over.
Exit(p) ==
  /\ process[p] # None /\ (Act \/ (process[p].at = "exiting" /\ UNCHANGED acts))
  /\ Gone(p)
  /\ drift' = (drift \/ (p \in Apps /\ ~ Settled(p)))
  /\ UNCHANGED <<plist, setting, plan, told>>

\* SIGTERM ends a process whose engine does not listen for it yet, and the
\* engine of any other.  `subbier serve` ends with its engine; the app's main
\* thread is in app.run(), which never returns.
Terminated(p) ==
  IF process[p].at \in {"asking", "loading"} THEN Gone(p)
  ELSE /\ process' = [process EXCEPT ![p].at =
                        CASE @ = "lingering" -> @ [] process[p].role = App -> "lingering" [] OTHER -> "exiting"]
       /\ port' = IF port = p THEN None ELSE port
       /\ UNCHANGED job

\* The look at the configuration file once a second, which publishes.
Watch(p) ==
  /\ p \in Menus /\ ~ process[p].seen
  /\ process' = [process EXCEPT ![p].memory = setting, ![p].seen = TRUE, ![p].due = TRUE]
  /\ UNCHANGED <<plist, setting, job, port, plan, told, acts, drift>>

\* The menu's toggle, to memory and to the file.
Toggle(p) ==
  /\ p \in Menus /\ Act
  /\ setting' = ~ process[p].memory
  /\ process' = [q \in Pid |->
       CASE q = p -> [process[p] EXCEPT !.memory = setting', !.seen = TRUE, !.due = TRUE]
         [] q \in Menus \ {p} -> [process[q] EXCEPT !.seen = FALSE]
         [] OTHER -> process[q]]
  /\ drift' = (drift \/ plan # NoPlan)
  /\ UNCHANGED <<plist, job, port, plan, told>>

\* A person edits config.kdl, and a running app will see it.
HandEdit ==
  /\ Act /\ setting' = ~ setting
  /\ Edited
  /\ drift' = (drift \/ plan # NoPlan \/ Menus = {})
  /\ UNCHANGED <<plist, job, port, plan, told>>

\* reconcile: the file's existence against a setting.
Reconcile(wanted) ==
  plist' = IF (plist # None) = wanted THEN plist ELSE IF wanted THEN App ELSE None

\* A snapshot is made of what the engine works by, and the menu is given it.
Publish(p) ==
  /\ p \in Menus
  /\ process' = [process EXCEPT ![p].shown = process[p].memory, ![p].due = FALSE]
  /\ Reconcile(process[p].memory)
  /\ UNCHANGED <<setting, job, port, plan, told, acts, drift>>

\* A click on a tab of the menu takes the newest snapshot there is, that of an
\* engine that has ended included.
SelectTab(p) ==
  /\ p \in Apps /\ process[p].at \in {"up", "unbound", "lingering"}
  /\ Reconcile(process[p].shown)
  /\ drift' = (drift \/ (process[p].at = "lingering" /\ process[p].shown # setting /\ plist' # plist))
  /\ UNCHANGED <<setting, job, process, port, plan, told, acts>>

\* A new session: launchd loads the agents it finds, and starts them.
LogIn ==
  /\ Act
  /\ LET first == CHOOSE p \in Pid : TRUE
     IN  IF plist = None
         THEN process' = [p \in Pid |-> None] /\ job' = NoJob
         ELSE /\ process' = [p \in Pid |-> IF p = first THEN Born(plist) ELSE None]
              /\ job' = [loaded |-> TRUE, pid |-> first, program |-> plist]
  /\ port' = None /\ plan' = NoPlan /\ told' = None
  /\ drift' = (drift \/ plan # NoPlan \/ \E p \in Apps : ~ Settled(p))
  /\ UNCHANGED <<plist, setting>>

----------------------------------------------------------------------------
(* The commands. *)

MutantSteps(do) ==   \* the file before the setting
  CASE do = "install" -> <<"check", "bootout", "down", "write", "set", "bootstrap", "settle">>
    [] do \in {"start", "restart"} -> <<"installed", "kickstart", "settle">>
    [] do = "stop" -> <<"running", "kill", "down">>
    [] do = "uninstall" -> <<"check", "bootout", "down", "remove", "set">>

\* Uninstalling moves the setting first, so that an app that publishes in the
\* gap does not write the file back.
Steps(do) ==
  CASE do = "install" -> <<"check", "bootout", "down", "write", "set", "bootstrap", "settle">>
    [] do \in {"start", "restart"} -> <<"installed", "kickstart", "settle">>
    [] do = "stop" -> <<"running", "kill", "down">>
    [] do = "uninstall" -> <<"set", "check", "bootout", "down", "remove">>

Command ==
  /\ plan = NoPlan /\ Act
  /\ \E do \in {"install", "start", "restart", "stop", "uninstall"}, program \in {App, Serve} :
       /\ do # "install" => program = App
       /\ plan' = [do |-> do, program |-> program, left |-> Steps(do)]
  /\ told' = None
  /\ UNCHANGED <<plist, setting, job, process, port, drift>>

Doing(step) == plan # NoPlan /\ Head(plan.left) = step

\* On to the next step, or it was the last one.
Onward(word) ==
  IF Len(plan.left) = 1 THEN plan' = NoPlan /\ told' = word
  ELSE plan' = [plan EXCEPT !.left = Tail(@)] /\ UNCHANGED told

\* What the last step said ends the command.  One that fails half-way may
\* leave the file and the setting apart.
Over(word) == plan' = NoPlan /\ told' = word

Fails ==
  /\ Over("failed")
  /\ drift' = (drift \/ plan.do \in {"install", "uninstall"})

\* Neither unloads what is not loaded, nor waits for it.
CheckLoaded ==
  /\ Doing("check")
  /\ plan' = IF job.loaded THEN [plan EXCEPT !.left = Tail(@)]
             ELSE [plan EXCEPT !.left = Tail(Tail(Tail(@)))]
  /\ UNCHANGED <<plist, setting, job, process, port, told, acts, drift>>

CheckInstalled ==
  /\ Doing("installed")
  /\ IF plist = None THEN Over("failed")
     ELSE /\ plan' = [plan EXCEPT !.left = IF job.loaded THEN Tail(@) ELSE <<"bootstrap", "settle">>]
          /\ UNCHANGED told
  /\ UNCHANGED <<plist, setting, job, process, port, acts, drift>>

CheckRunning ==
  /\ Doing("running")
  /\ IF job.pid = None THEN Over("nothing to stop") ELSE Onward(None)
  /\ UNCHANGED <<plist, setting, job, process, port, acts, drift>>

\* launchd kills what does not end on its own.
Bootout ==
  /\ Doing("bootout")
  /\ IF ~ job.loaded THEN Fails /\ UNCHANGED <<job, process, port>>
     ELSE /\ job' = NoJob
          /\ process' = IF job.pid = None THEN process ELSE [process EXCEPT ![job.pid] = None]
          /\ port' = IF port = job.pid THEN None ELSE port
          /\ Onward(None) /\ UNCHANGED drift
  /\ UNCHANGED <<plist, setting, acts>>

Kill ==
  /\ Doing("kill")
  /\ IF job.pid = None THEN Fails /\ UNCHANGED <<job, process, port>>
     ELSE /\ Terminated(job.pid)
          /\ drift' = (drift \/ (job.pid \in Apps /\ ~ Settled(job.pid)))
          /\ Onward(None)
  /\ UNCHANGED <<plist, setting, acts>>

\* wait_until_down, for ten seconds.
WaitUntilDown ==
  /\ Doing("down")
  /\ Onward(IF port = None THEN "stopped" ELSE "still answering")
  /\ UNCHANGED <<plist, setting, job, process, port, acts, drift>>

WritePlist ==
  /\ Doing("write")
  /\ plist' = plan.program
  /\ Onward(None)
  /\ UNCHANGED <<setting, job, process, port, acts, drift>>

SetLaunchAtLogin ==
  /\ Doing("set")
  /\ setting' = (plan.do = "install")
  /\ Edited
  /\ Onward("done")
  /\ UNCHANGED <<plist, job, port, acts, drift>>

RemovePlist ==
  /\ Doing("remove")
  /\ plist' = None
  /\ Onward("done")
  /\ UNCHANGED <<setting, job, process, port, acts, drift>>

Started(p, program) ==
  /\ process' = [process EXCEPT ![p] = Born(program)]
  /\ job' = [loaded |-> TRUE, pid |-> p, program |-> program]

\* RunAtLoad: loading the job is starting it.
Bootstrap ==
  /\ Doing("bootstrap")
  /\ IF job.loaded \/ plist = None THEN Fails /\ UNCHANGED <<job, process>>
     ELSE Free # {} /\ Started(NextPid, plist) /\ Onward(None) /\ UNCHANGED drift
  /\ UNCHANGED <<plist, setting, port, acts>>

\* A job that runs already is left alone, unless it is to be killed first.
Kickstart ==
  /\ Doing("kickstart")
  /\ \/ /\ ~ job.loaded
        /\ Fails /\ UNCHANGED <<job, process, port>>
     \/ /\ job.loaded /\ job.pid = None /\ Free # {}
        /\ Started(NextPid, job.program) /\ Onward(None) /\ UNCHANGED <<port, drift>>
     \/ /\ job.pid # None /\ plan.do = "start"
        /\ Onward(None) /\ UNCHANGED <<job, process, port, drift>>
     \/ /\ job.pid # None /\ plan.do = "restart"
        /\ Started(job.pid, job.program) /\ Onward(None)
        /\ port' = IF port = job.pid THEN None ELSE port
        /\ drift' = (drift \/ (job.pid \in Apps /\ ~ Settled(job.pid)))
  /\ UNCHANGED <<plist, setting, acts>>

\* Until the job and the port agree, or one rules the other out, or for ten
\* seconds.
Settle ==
  /\ Doing("settle")
  /\ Over(CASE job.pid # None /\ port = job.pid -> "running"
            [] port # None /\ port # job.pid -> "port taken"
            [] port = None -> "silent")
  /\ UNCHANGED <<plist, setting, job, process, port, acts, drift>>

----------------------------------------------------------------------------
Init ==
  /\ plist = None /\ setting = FALSE
  /\ job = NoJob
  /\ process = [p \in Pid |-> None] /\ port = None
  /\ plan = NoPlan /\ told = None /\ acts = 0 /\ drift = FALSE

Next ==
  \/ Launch \/ HandEdit \/ LogIn \/ Command
  \/ \E p \in Pid : Ask(p) \/ Load(p) \/ Exit(p) \/ Watch(p) \/ Toggle(p) \/ Publish(p)
                   \/ SelectTab(p)
  \/ CheckLoaded \/ CheckInstalled \/ CheckRunning \/ Bootout \/ Kill \/ WaitUntilDown
  \/ WritePlist \/ SetLaunchAtLogin \/ RemovePlist \/ Bootstrap \/ Kickstart \/ Settle

Spec == Init /\ [][Next]_serviceVars

----------------------------------------------------------------------------
\* The launch agent's file is there when the setting says so, once no command
\* is under way and every app has seen the setting and published: whatever the
\* commands, the toggles, the publishes of stale apps and the clicks in between.
\* An app whose engine ended before the setting moved is the exception: a click
\* of its menu's writes the file back, and nobody looks at the file again.
PlistFollowsSetting ==
  plan = NoPlan /\ ~ drift /\ (\A p \in Apps : Settled(p)) =>
    (plist # None) = setting

\* "A loaded job with no pid is installed and idle - the state after `stop`"
\* (JobState::pid): once stop has said that it stopped, what is left of the
\* job's process is at most on its way out.
StoppedMeansStopped ==
  plan = NoPlan /\ told = "stopped" /\ job.pid # None => process[job.pid].at # "lingering"
=============================================================================
