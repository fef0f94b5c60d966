----------------------------- MODULE TextsProofs -----------------------------
(***************************************************************************)
(* Proofs about three of the machines of Texts, for every value of their   *)
(* constants.                                                              *)
(*                                                                         *)
(* Service: the plist is what one of the two programs last wrote it for,   *)
(* and whoever has not looked since still has the change ahead of it.      *)
(*                                                                         *)
(* Readings: every body is one of the ways to put an account's figures     *)
(* down, and of a list of limits only the first of a kind is taken; so a   *)
(* poll reads back what the body was made from.                            *)
(*                                                                         *)
(* Requests: preparing a body is an insertion or two and a rewriting of    *)
(* each item, which keeps what the item says and does nothing twice.       *)
(***************************************************************************)
EXTENDS Texts, Sums

----------------------------------------------------------------------------
(* Service. *)

InstallEnds ==
  {<<"check", "bootout", "down", "write", "set", "bootstrap", "settle">>,
   <<"bootout", "down", "write", "set", "bootstrap", "settle">>,
   <<"down", "write", "set", "bootstrap", "settle">>, <<"write", "set", "bootstrap", "settle">>,
   <<"set", "bootstrap", "settle">>, <<"bootstrap", "settle">>, <<"settle">>}
StartEnds ==
  {<<"installed", "kickstart", "settle">>, <<"kickstart", "settle">>, <<"bootstrap", "settle">>,
   <<"settle">>}
StopEnds == {<<"running", "kill", "down">>, <<"kill", "down">>, <<"down">>}
UninstallEnds ==
  {<<"set", "check", "bootout", "down", "remove">>, <<"check", "bootout", "down", "remove">>,
   <<"bootout", "down", "remove">>, <<"down", "remove">>, <<"remove">>}

\* What is left of a command is the end of its steps.
Planned ==
  \/ plan = V!NoPlan
  \/ /\ plan = [do |-> plan.do, program |-> plan.program, left |-> plan.left]
     /\ plan.program \in {V!App, V!Serve}
     /\ \/ plan.do = "install" /\ plan.left \in InstallEnds
        \/ plan.do \in {"start", "restart"} /\ plan.left \in StartEnds
        \/ plan.do = "stop" /\ plan.left \in StopEnds
        \/ plan.do = "uninstall" /\ plan.left \in UninstallEnds

LEMMA EndsOfInstall ==
  \A left \in InstallEnds :
    /\ left # <<>>
    /\ Len(left) # 1 => Tail(left) \in InstallEnds
    /\ Head(left) = "check" => Tail(Tail(Tail(left))) = <<"write", "set", "bootstrap", "settle">>
    /\ Tail(left) = <<"settle">> <=> Head(left) = "bootstrap"
    /\ Tail(left) = <<"bootstrap", "settle">> <=> Head(left) = "set"
    /\ left = <<"settle">> <=> Head(left) = "settle"
    /\ left = <<"bootstrap", "settle">> <=> Head(left) = "bootstrap"
    /\ Len(left) = 1 <=> Head(left) = "settle"
    /\ Head(left) \in {"check", "bootout", "down", "write", "set", "bootstrap", "settle"}
<1> SUFFICES ASSUME NEW left \in InstallEnds
             PROVE /\ left # <<>>
                   /\ Len(left) # 1 => Tail(left) \in InstallEnds
                   /\ Head(left) = "check" => Tail(Tail(Tail(left))) = <<"write", "set", "bootstrap", "settle">>
                   /\ Tail(left) = <<"settle">> <=> Head(left) = "bootstrap"
                   /\ Tail(left) = <<"bootstrap", "settle">> <=> Head(left) = "set"
                   /\ left = <<"settle">> <=> Head(left) = "settle"
                   /\ left = <<"bootstrap", "settle">> <=> Head(left) = "bootstrap"
                   /\ Len(left) = 1 <=> Head(left) = "settle"
                   /\ Head(left) \in {"check", "bootout", "down", "write", "set", "bootstrap", "settle"}
  OBVIOUS
<1>1. CASE left = <<"check", "bootout", "down", "write", "set", "bootstrap", "settle">>
  <2>1. Tail(left) = <<"bootout", "down", "write", "set", "bootstrap", "settle">>
    BY <1>1
  <2>2. Tail(Tail(left)) = <<"down", "write", "set", "bootstrap", "settle">>
    <3>1. Tail(<<"bootout", "down", "write", "set", "bootstrap", "settle">>) = <<"down", "write", "set", "bootstrap", "settle">>
      OBVIOUS
    <3> QED BY <3>1, <2>1
  <2>3. Tail(Tail(Tail(left))) = <<"write", "set", "bootstrap", "settle">>
    <3>1. Tail(<<"down", "write", "set", "bootstrap", "settle">>) = <<"write", "set", "bootstrap", "settle">>
      OBVIOUS
    <3> QED BY <3>1, <2>2
  <2> QED BY <1>1, <2>1, <2>3 DEF InstallEnds
<1>2. CASE left = <<"bootout", "down", "write", "set", "bootstrap", "settle">>
  <2>1. Tail(left) = <<"down", "write", "set", "bootstrap", "settle">>
    BY <1>2
  <2> QED BY <1>2, <2>1 DEF InstallEnds
<1>3. CASE left = <<"down", "write", "set", "bootstrap", "settle">>
  <2>1. Tail(left) = <<"write", "set", "bootstrap", "settle">>
    BY <1>3
  <2> QED BY <1>3, <2>1 DEF InstallEnds
<1>4. CASE left = <<"write", "set", "bootstrap", "settle">>
  <2>1. Tail(left) = <<"set", "bootstrap", "settle">>
    BY <1>4
  <2> QED BY <1>4, <2>1 DEF InstallEnds
<1>5. CASE left = <<"set", "bootstrap", "settle">>
  <2>1. Tail(left) = <<"bootstrap", "settle">>
    BY <1>5
  <2> QED BY <1>5, <2>1 DEF InstallEnds
<1>6. CASE left = <<"bootstrap", "settle">>
  <2>1. Tail(left) = <<"settle">>
    BY <1>6
  <2> QED BY <1>6, <2>1 DEF InstallEnds
<1>7. CASE left = <<"settle">>
  <2>1. Tail(left) = <<>>
    BY <1>7
  <2> QED BY <1>7, <2>1 DEF InstallEnds
<1> QED BY <1>1, <1>2, <1>3, <1>4, <1>5, <1>6, <1>7 DEF InstallEnds

LEMMA EndsOfStart ==
  \A left \in StartEnds :
    /\ left # <<>>
    /\ Len(left) # 1 => Tail(left) \in StartEnds
    /\ Head(left) \in {"installed", "kickstart", "bootstrap", "settle"}
<1> SUFFICES ASSUME NEW left \in StartEnds
             PROVE /\ left # <<>>
                   /\ Len(left) # 1 => Tail(left) \in StartEnds
                   /\ Head(left) \in {"installed", "kickstart", "bootstrap", "settle"}
  OBVIOUS
<1>1. CASE left = <<"installed", "kickstart", "settle">>
  <2>1. Tail(left) = <<"kickstart", "settle">>
    BY <1>1
  <2> QED BY <1>1, <2>1 DEF StartEnds
<1>2. CASE left = <<"kickstart", "settle">>
  <2>1. Tail(left) = <<"settle">>
    BY <1>2
  <2> QED BY <1>2, <2>1 DEF StartEnds
<1>3. CASE left = <<"bootstrap", "settle">>
  <2>1. Tail(left) = <<"settle">>
    BY <1>3
  <2> QED BY <1>3, <2>1 DEF StartEnds
<1>4. CASE left = <<"settle">>
  BY <1>4
<1> QED BY <1>1, <1>2, <1>3, <1>4 DEF StartEnds

LEMMA EndsOfStop ==
  \A left \in StopEnds :
    /\ left # <<>>
    /\ Len(left) # 1 => Tail(left) \in StopEnds
    /\ Head(left) \in {"running", "kill", "down"}
<1> SUFFICES ASSUME NEW left \in StopEnds
             PROVE /\ left # <<>>
                   /\ Len(left) # 1 => Tail(left) \in StopEnds
                   /\ Head(left) \in {"running", "kill", "down"}
  OBVIOUS
<1>1. CASE left = <<"running", "kill", "down">>
  <2>1. Tail(left) = <<"kill", "down">>
    BY <1>1
  <2> QED BY <1>1, <2>1 DEF StopEnds
<1>2. CASE left = <<"kill", "down">>
  <2>1. Tail(left) = <<"down">>
    BY <1>2
  <2> QED BY <1>2, <2>1 DEF StopEnds
<1>3. CASE left = <<"down">>
  BY <1>3
<1> QED BY <1>1, <1>2, <1>3 DEF StopEnds

LEMMA EndsOfUninstall ==
  \A left \in UninstallEnds :
    /\ left # <<>>
    /\ Len(left) # 1 => Tail(left) \in UninstallEnds
    /\ Head(left) = "check" => Tail(Tail(Tail(left))) = <<"remove">>
    /\ Len(left) # 1 => Head(Tail(left)) # "set"
    /\ Len(left) = 1 <=> Head(left) = "remove"
    /\ Head(left) \in {"set", "check", "bootout", "down", "remove"}
<1> SUFFICES ASSUME NEW left \in UninstallEnds
             PROVE /\ left # <<>>
                   /\ Len(left) # 1 => Tail(left) \in UninstallEnds
                   /\ Head(left) = "check" => Tail(Tail(Tail(left))) = <<"remove">>
                   /\ Len(left) # 1 => Head(Tail(left)) # "set"
                   /\ Len(left) = 1 <=> Head(left) = "remove"
                   /\ Head(left) \in {"set", "check", "bootout", "down", "remove"}
  OBVIOUS
<1>1. CASE left = <<"set", "check", "bootout", "down", "remove">>
  <2>1. Tail(left) = <<"check", "bootout", "down", "remove">>
    BY <1>1
  <2> QED BY <1>1, <2>1 DEF UninstallEnds
<1>2. CASE left = <<"check", "bootout", "down", "remove">>
  <2>1. Tail(left) = <<"bootout", "down", "remove">>
    BY <1>2
  <2>2. Tail(Tail(left)) = <<"down", "remove">>
    <3>1. Tail(<<"bootout", "down", "remove">>) = <<"down", "remove">>
      OBVIOUS
    <3> QED BY <3>1, <2>1
  <2>3. Tail(Tail(Tail(left))) = <<"remove">>
    <3>1. Tail(<<"down", "remove">>) = <<"remove">>
      OBVIOUS
    <3> QED BY <3>1, <2>2
  <2> QED BY <1>2, <2>1, <2>3 DEF UninstallEnds
<1>3. CASE left = <<"bootout", "down", "remove">>
  <2>1. Tail(left) = <<"down", "remove">>
    BY <1>3
  <2> QED BY <1>3, <2>1 DEF UninstallEnds
<1>4. CASE left = <<"down", "remove">>
  <2>1. Tail(left) = <<"remove">>
    BY <1>4
  <2> QED BY <1>4, <2>1 DEF UninstallEnds
<1>5. CASE left = <<"remove">>
  BY <1>5
<1> QED BY <1>1, <1>2, <1>3, <1>4, <1>5 DEF UninstallEnds

\* The file as the setting has it, and an app that has not looked or published.
Match == (plist # None) = setting
Due == \E p \in V!Apps : ~ V!Settled(p)

\* launchd's job runs in a process that is there, by a program that has a file.
JobRuns ==
  /\ launchd \in [loaded : BOOLEAN, pid : Pid \cup {None}, program : {None, V!App, V!Serve}]
  /\ launchd.pid # None => process[launchd.pid] # None
  /\ launchd.loaded \/ launchd.pid # None => launchd.program # None

\* An app works by the setting, when it has seen the file since it was written,
\* and shows what it works by, when it has published.
Memories ==
  \A p \in V!Menus : /\ process[p].seen => process[p].memory = setting
                     /\ process[p].due \/ process[p].shown = process[p].memory

\* The commands that leave the file and the setting apart on their way.
Changing == plan # V!NoPlan /\ plan.do \in {"install", "uninstall"}

ServiceInv ==
  /\ plist \in {None, V!App, V!Serve} /\ setting \in BOOLEAN
  /\ process \in [Pid -> {None} \cup Processes]
  /\ Planned
  /\ JobRuns
  /\ Memories
  /\ ~ drift =>
       /\ ~ Changing => Due \/ Match
       /\ Changing /\ plan.do = "install" =>
            /\ plan.left \in {<<"bootstrap", "settle">>, <<"settle">>} => setting
            /\ plan.left = <<"settle">> => Due \/ Match
       /\ Changing /\ plan.do = "uninstall" /\ Head(plan.left) # "set" => ~ setting

\* A command goes on to the rest of its steps.
LEMMA GoesOn ==
  ASSUME Planned, plan # V!NoPlan, NEW word, V!Onward(word)
  PROVE  /\ Planned'
         /\ \/ plan' = V!NoPlan /\ Len(plan.left) = 1
            \/ /\ Len(plan.left) # 1 /\ plan' # V!NoPlan
               /\ plan'.do = plan.do /\ plan'.left = Tail(plan.left)
<1>1. CASE Len(plan.left) = 1
  BY <1>1 DEF V!Onward, Planned
<1>2. CASE Len(plan.left) # 1
  <2>1. plan' = [plan EXCEPT !.left = Tail(@)]
    BY <1>2 DEF V!Onward
  <2>2. /\ plan = [do |-> plan.do, program |-> plan.program, left |-> plan.left]
        /\ plan.program \in {V!App, V!Serve}
    BY DEF Planned
  <2>3. plan' = [do |-> plan.do, program |-> plan.program, left |-> Tail(plan.left)]
    BY <2>1, <2>2
  <2>4. plan'.left # <<>> /\ Planned'
    BY <2>3, <2>2, <1>2, EndsOfInstall, EndsOfStart, EndsOfStop, EndsOfUninstall DEF Planned
  <2> QED BY <2>3, <2>4, <1>2 DEF V!NoPlan
<1> QED BY <1>1, <1>2

\* A command begins with all of its steps.
LEMMA Begins ==
  ASSUME NEW do \in {"install", "start", "restart", "stop", "uninstall"},
         NEW program \in {V!App, V!Serve},
         plan' = [do |-> do, program |-> program, left |-> V!Steps(do)]
  PROVE  /\ Planned'
         /\ plan' # V!NoPlan
         /\ plan'.do = "install" => plan'.left \notin {<<"bootstrap", "settle">>, <<"settle">>}
         /\ plan'.do = "uninstall" => Head(plan'.left) = "set"
<1>0. plan'.do = do /\ plan'.program = program /\ plan'.left = V!Steps(do)
  OBVIOUS
<1>1. CASE do = "install"
  <2>1. V!Steps(do) = <<"check", "bootout", "down", "write", "set", "bootstrap", "settle">>
    BY <1>1 DEF V!Steps
  <2>2. V!Steps(do) \in InstallEnds /\ Head(V!Steps(do)) = "check"
    BY <2>1 DEF InstallEnds
  <2> QED BY <1>0, <1>1, <2>2, EndsOfInstall DEF Planned, V!NoPlan
<1>2. CASE do \in {"start", "restart"}
  <2>1. V!Steps(do) = <<"installed", "kickstart", "settle">>
    BY <1>2 DEF V!Steps
  <2>2. V!Steps(do) \in StartEnds
    BY <2>1 DEF StartEnds
  <2> QED BY <1>0, <1>2, <2>2, EndsOfStart DEF Planned, V!NoPlan
<1>3. CASE do = "stop"
  <2>1. V!Steps(do) = <<"running", "kill", "down">>
    BY <1>3 DEF V!Steps
  <2>2. V!Steps(do) \in StopEnds
    BY <2>1 DEF StopEnds
  <2> QED BY <1>0, <1>3, <2>2, EndsOfStop DEF Planned, V!NoPlan
<1>4. CASE do = "uninstall"
  <2>1. V!Steps(do) = <<"set", "check", "bootout", "down", "remove">>
    BY <1>4 DEF V!Steps
  <2>2. V!Steps(do) \in UninstallEnds /\ Head(V!Steps(do)) = "set"
    BY <2>1 DEF UninstallEnds
  <2> QED BY <1>0, <1>4, <2>2, EndsOfUninstall DEF Planned, V!NoPlan
<1> QED BY <1>1, <1>2, <1>3, <1>4

\* The process variables, and what they say of who has looked.
LEMMA NobodyMoves ==
  ASSUME UNCHANGED <<process, setting>>
  PROVE  (Due' <=> Due) /\ (Memories' <=> Memories)
BY DEF Due, Memories, V!Apps, V!Alive, V!Settled, V!Menus, V!Servers

LEMMA FreePid ==
  ASSUME V!Free # {}
  PROVE  V!NextPid \in Pid /\ process[V!NextPid] = None
BY DEF V!Free, V!NextPid, V!Alive

\* A process of which nobody waits for a look goes, or another begins.
LEMMA Replaced ==
  ASSUME ServiceInv, NEW p \in Pid, NEW new \in {None} \cup Processes,
         process' = [process EXCEPT ![p] = new], UNCHANGED setting,
         new # None => new.at \notin {"up", "unbound"}
  PROVE  /\ process' \in [Pid -> {None} \cup Processes]
         /\ Memories'
         /\ ~ (p \in V!Apps /\ ~ V!Settled(p)) => (Due => Due')
<1>1. process' \in [Pid -> {None} \cup Processes]
  BY DEF ServiceInv
<1>2. Memories'
  BY DEF ServiceInv, Memories, V!Apps, V!Alive, V!Menus, V!Servers
<1>3. ASSUME ~ (p \in V!Apps /\ ~ V!Settled(p)), Due PROVE Due'
  <2>1. PICK q \in V!Apps : ~ V!Settled(q)
    BY <1>3 DEF Due
  <2>2. q # p /\ process'[q] = process[q] /\ q \in Pid
    BY <2>1, <1>3 DEF ServiceInv, V!Apps, V!Alive
  <2>3. V!Apps' = {r \in Pid : process'[r] # None /\ process'[r].role = V!App}
    BY DEF V!Apps, V!Alive
  <2>4. q \in V!Apps' /\ ~ V!Settled(q)'
    BY <2>1, <2>2, <2>3 DEF V!Apps, V!Alive, V!Settled
  <2> QED BY <2>4 DEF Due
<1> QED BY <1>1, <1>2, <1>3

LEMMA BornIsAsking ==
  ASSUME NEW role \in {V!App, V!Serve}
  PROVE  V!Born(role) \in Processes /\ V!Born(role) # None /\ V!Born(role).at = "asking"
<1>1. V!Born(role) \in Processes /\ V!Born(role).at = "asking"
  BY DEF V!Born, Processes
<1> QED BY <1>1, ServiceAssumption

LEMMA Launches ==
  ASSUME ServiceInv, V!Launch
  PROVE  ServiceInv'
<1>1. PICK role \in {V!App, V!Serve} : process' = [process EXCEPT ![V!NextPid] = V!Born(role)]
  BY DEF V!Launch
<1>2. V!NextPid \in Pid /\ process[V!NextPid] = None
  BY FreePid DEF V!Launch
<1>3. /\ process' \in [Pid -> {None} \cup Processes]
      /\ Memories'
      /\ Due => Due'
  BY <1>1, <1>2, BornIsAsking, Replaced DEF V!Launch, V!Apps, V!Alive
<1>4. JobRuns'
  BY <1>1, <1>2, BornIsAsking DEF V!Launch, ServiceInv, JobRuns
<1>5. Planned' /\ (Changing' <=> Changing) /\ (Match' <=> Match)
  BY DEF V!Launch, ServiceInv, Planned, Changing, Match
<1> QED BY <1>3, <1>4, <1>5 DEF ServiceInv, V!Launch

\* A process is gone: what launchd and the port say of it, too.
LEMMA Goes ==
  ASSUME ServiceInv, NEW p \in Pid, V!Gone(p), UNCHANGED setting
  PROVE  /\ process' \in [Pid -> {None} \cup Processes]
         /\ Memories'
         /\ JobRuns'
         /\ ~ (p \in V!Apps /\ ~ V!Settled(p)) => (Due => Due')
<1>1. process' = [process EXCEPT ![p] = None]
  BY DEF V!Gone
<1>2. JobRuns'
  BY <1>1 DEF V!Gone, ServiceInv, JobRuns
<1> QED BY <1>1, <1>2, Replaced

LEMMA Asks ==
  ASSUME ServiceInv, NEW p \in Pid, V!Ask(p)
  PROVE  ServiceInv'
<1>1. /\ process' \in [Pid -> {None} \cup Processes] /\ Memories' /\ JobRuns'
      /\ Due => Due'
  <2>0. process[p] \in Processes /\ (p \in V!Apps => V!Settled(p))
    BY DEF V!Ask, ServiceInv, V!Settled
  <2>1. CASE port # None
    BY <2>1, <2>0, Goes DEF V!Ask
  <2>2. CASE port = None
    <3>1. process' = [process EXCEPT ![p] = [process[p] EXCEPT !.at = "loading"]] /\ UNCHANGED launchd
      BY <2>2 DEF V!Ask, ServiceInv
    <3>2. [process[p] EXCEPT !.at = "loading"] \in Processes
      BY <2>0 DEF Processes
    <3>3. [process[p] EXCEPT !.at = "loading"].at = "loading"
      BY <2>0 DEF Processes
    <3>4. JobRuns'
      BY <3>1, <3>2, <2>0, ServiceAssumption DEF ServiceInv, JobRuns
    <3> QED BY <3>1, <3>2, <3>3, <3>4, <2>0, Replaced DEF V!Ask
  <2> QED BY <2>1, <2>2
<1>2. Planned' /\ (Changing' <=> Changing) /\ (Match' <=> Match)
  BY DEF V!Ask, ServiceInv, Planned, Changing, Match
<1> QED BY <1>1, <1>2 DEF ServiceInv, V!Ask

\* launchd's process changes, or another does.
LEMMA JobStays ==
  ASSUME ServiceInv, NEW p \in Pid, NEW new \in Processes,
         process' = [process EXCEPT ![p] = new], UNCHANGED launchd
  PROVE  JobRuns'
<1>1. new # None
  BY ServiceAssumption
<1>2. \A q \in Pid : process[q] # None => process'[q] # None
  BY <1>1 DEF ServiceInv
<1> QED BY <1>2, ServiceAssumption DEF ServiceInv, JobRuns

\* An app that looks, or is switched on, owes a publish; the others wait as before.
LEMMA Owes ==
  ASSUME ServiceInv, NEW p \in Pid, NEW new \in Processes,
         process' = [process EXCEPT ![p] = new], UNCHANGED setting,
         process[p] # None /\ new.role = process[p].role,
         new.due /\ new.memory = setting /\ new.at \in {"up", "unbound"}
  PROVE  /\ process' \in [Pid -> {None} \cup Processes]
         /\ Memories'
         /\ Due => Due'
<1>1. process' \in [Pid -> {None} \cup Processes]
  BY DEF ServiceInv
<1>2. Memories'
  BY DEF ServiceInv, Memories, V!Apps, V!Alive, V!Menus, V!Servers
<1>3. ASSUME Due PROVE Due'
  <2>0. V!Apps' = {r \in Pid : process'[r] # None /\ process'[r].role = V!App}
    BY DEF V!Apps, V!Alive
  <2>1. PICK q \in V!Apps : ~ V!Settled(q)
    BY <1>3 DEF Due
  <2>2. q \in Pid /\ process[q] # None /\ process[q].role = V!App
    BY <2>1 DEF V!Apps, V!Alive
  <2>3. q \in V!Apps' /\ ~ V!Settled(q)'
    BY <2>0, <2>1, <2>2, <1>3, ServiceAssumption DEF ServiceInv, V!Settled
  <2> QED BY <2>3 DEF Due
<1> QED BY <1>1, <1>2, <1>3

LEMMA Loads ==
  ASSUME ServiceInv, NEW p \in Pid, V!Load(p)
  PROVE  ServiceInv'
<1>0. process[p] \in Processes /\ process[p] # None /\ setting \in BOOLEAN
  BY DEF V!Load, ServiceInv
<1>1. PICK at \in {"up", "unbound"} :
        process' = [process EXCEPT ![p] = [process[p] EXCEPT !.at = at, !.memory = setting,
                                                            !.shown = setting, !.due = TRUE]]
  BY DEF V!Load, ServiceInv
<1> DEFINE new == [process[p] EXCEPT !.at = at, !.memory = setting, !.shown = setting, !.due = TRUE]
<1>2. new \in Processes /\ new.role = process[p].role /\ new.due /\ new.memory = setting
     /\ new.at \in {"up", "unbound"}
  BY <1>0 DEF Processes
<1>3. process' \in [Pid -> {None} \cup Processes] /\ Memories'
  BY <1>0, <1>1, <1>2, Owes DEF V!Load
<1>4. JobRuns'
  BY <1>1, <1>2, JobStays DEF V!Load
<1>5. Due => Due'
  BY <1>0, <1>1, <1>2, Owes DEF V!Load
<1>6. Planned' /\ (Changing' <=> Changing) /\ (Match' <=> Match)
  BY DEF V!Load, ServiceInv, Planned, Changing, Match
<1> QED BY <1>3, <1>4, <1>5, <1>6 DEF ServiceInv, V!Load

LEMMA Exits ==
  ASSUME ServiceInv, NEW p \in Pid, V!Exit(p)
  PROVE  ServiceInv'
<1>1. process' \in [Pid -> {None} \cup Processes] /\ Memories' /\ JobRuns'
  BY Goes DEF V!Exit
<1>2. ASSUME ~ drift' PROVE ~ drift /\ (Due => Due')
  BY <1>2, Goes DEF V!Exit
<1>3. Planned' /\ (Changing' <=> Changing) /\ (Match' <=> Match)
  BY DEF V!Exit, ServiceInv, Planned, Changing, Match
<1> QED BY <1>1, <1>2, <1>3 DEF ServiceInv, V!Exit

LEMMA Watches ==
  ASSUME ServiceInv, NEW p \in Pid, V!Watch(p)
  PROVE  ServiceInv'
<1>0. /\ process[p] \in Processes /\ process[p] # None /\ setting \in BOOLEAN
      /\ process[p].at \in {"up", "unbound"}
  BY DEF V!Watch, ServiceInv, V!Menus, V!Servers, V!Alive
<1> DEFINE new == [process[p] EXCEPT !.memory = setting, !.seen = TRUE, !.due = TRUE]
<1>1. process' = [process EXCEPT ![p] = new]
  BY DEF V!Watch, ServiceInv
<1>2. /\ new \in Processes /\ new.role = process[p].role /\ new.due /\ new.memory = setting
      /\ new.at \in {"up", "unbound"}
  BY <1>0 DEF Processes
<1>3. process' \in [Pid -> {None} \cup Processes] /\ Memories' /\ (Due => Due')
  BY <1>0, <1>1, <1>2, Owes DEF V!Watch
<1>4. JobRuns'
  BY <1>1, <1>2, JobStays DEF V!Watch
<1>5. Planned' /\ (Changing' <=> Changing) /\ (Match' <=> Match)
  BY DEF V!Watch, ServiceInv, Planned, Changing, Match
<1> QED BY <1>3, <1>4, <1>5 DEF ServiceInv, V!Watch

\* The menus are told that the file was written, and the setting moves.
Unseen(menus) ==
  process' = [q \in Pid |-> IF q \in menus THEN [process[q] EXCEPT !.seen = FALSE] ELSE process[q]]

LEMMA Unsees ==
  ASSUME ServiceInv, Unseen(V!Menus), UNCHANGED launchd
  PROVE  /\ process' \in [Pid -> {None} \cup Processes]
         /\ Memories'
         /\ JobRuns'
         /\ Due \/ V!Menus # {} => Due'
<1>0. \A q \in V!Menus : /\ q \in Pid /\ process[q] \in Processes
                         /\ process[q].at \in {"up", "unbound"} /\ process[q].role = V!App
  BY DEF ServiceInv, V!Menus, V!Servers, V!Apps, V!Alive
<1>1. \A q \in V!Menus : [process[q] EXCEPT !.seen = FALSE] \in Processes
  BY <1>0 DEF Processes
<1>2. process' \in [Pid -> {None} \cup Processes]
  BY <1>1 DEF Unseen, ServiceInv
<1>3. \A q \in V!Menus : /\ process'[q] \in Processes /\ process'[q] # None /\ process'[q].role = V!App
                         /\ process'[q].at \in {"up", "unbound"} /\ ~ process'[q].seen
  BY <1>0, <1>1, ServiceAssumption DEF Unseen, Processes
<1>4. \A q \in Pid \ V!Menus : process'[q] = process[q]
  BY DEF Unseen
<1>5. Memories'
  <2>1. \A q \in V!Menus : /\ process'[q].memory = process[q].memory /\ process'[q].shown = process[q].shown
                           /\ process'[q].due = process[q].due
    <3>1. ASSUME NEW q \in V!Menus
          PROVE  /\ process'[q].memory = process[q].memory /\ process'[q].shown = process[q].shown
                 /\ process'[q].due = process[q].due
      <4>1. process'[q] = [process[q] EXCEPT !.seen = FALSE] /\ process[q] \in Processes
        BY <1>0 DEF Unseen
      <4> QED BY <4>1 DEF Processes
    <3> QED BY <3>1
  <2>2. \A q \in V!Menus : process'[q].due \/ process'[q].shown = process'[q].memory
    BY <2>1 DEF ServiceInv, Memories
  <2>3. V!Menus' \subseteq V!Menus
    BY <1>4 DEF V!Menus, V!Servers, V!Apps, V!Alive
  <2> QED BY <1>3, <2>2, <2>3 DEF Memories
<1>6. JobRuns'
  BY <1>3, <1>4, ServiceAssumption DEF ServiceInv, JobRuns
<1>7. ASSUME Due \/ V!Menus # {} PROVE Due'
  <2>1. CASE V!Menus # {}
    <3>1. PICK q \in V!Menus : TRUE
      BY <2>1
    <3>2. q \in V!Apps' /\ ~ V!Settled(q)'
      BY <1>0, <1>3, <3>1 DEF V!Apps, V!Alive, V!Settled
    <3> QED BY <3>2 DEF Due
  <2>2. CASE V!Menus = {} /\ Due
    <3>1. PICK q \in V!Apps : ~ V!Settled(q)
      BY <2>2 DEF Due
    <3>2. q \in V!Menus
      BY <3>1 DEF V!Settled, V!Menus, V!Servers, V!Apps
    <3> QED BY <3>2, <2>2
  <2> QED BY <1>7, <2>1, <2>2
<1> QED BY <1>2, <1>5, <1>6, <1>7

LEMMA HandEdits ==
  ASSUME ServiceInv, V!HandEdit
  PROVE  ServiceInv'
<1>1. /\ process' \in [Pid -> {None} \cup Processes] /\ Memories' /\ JobRuns'
      /\ V!Menus # {} => Due'
  BY Unsees DEF V!HandEdit, V!Edited, Unseen
<1>2. Planned' /\ (Changing' => plan # V!NoPlan)
  BY DEF V!HandEdit, ServiceInv, Planned, Changing
<1> QED BY <1>1, <1>2 DEF ServiceInv, V!HandEdit

LEMMA Toggles ==
  ASSUME ServiceInv, NEW p \in Pid, V!Toggle(p)
  PROVE  ServiceInv'
<1>0. /\ p \in V!Menus /\ setting' \in BOOLEAN
      /\ \A q \in V!Menus : /\ q \in Pid /\ process[q] \in Processes
                            /\ process[q].at \in {"up", "unbound"} /\ process[q].role = V!App
  BY DEF V!Toggle, ServiceInv, V!Menus, V!Servers, V!Apps, V!Alive, Processes
<1>1. /\ process'[p] = [process[p] EXCEPT !.memory = setting', !.seen = TRUE, !.due = TRUE]
      /\ \A q \in V!Menus \ {p} : process'[q] = [process[q] EXCEPT !.seen = FALSE]
      /\ \A q \in Pid \ V!Menus : process'[q] = process[q]
      /\ DOMAIN process' = Pid
      /\ process' = [q \in Pid |-> process'[q]]
  BY <1>0 DEF V!Toggle
<1>2. /\ process'[p] \in Processes /\ process'[p].role = V!App /\ process'[p].due
      /\ process'[p].at \in {"up", "unbound"} /\ process'[p].memory = setting'
  BY <1>0, <1>1 DEF Processes
<1>3. \A q \in V!Menus \ {p} : process'[q] \in Processes /\ ~ process'[q].seen
  <2>1. ASSUME NEW q \in V!Menus \ {p}
        PROVE  /\ [process[q] EXCEPT !.seen = FALSE] \in Processes
               /\ ~ [process[q] EXCEPT !.seen = FALSE].seen
    <3>1. process[q] \in Processes
      BY <1>0
    <3> QED BY <3>1 DEF Processes
  <2> QED BY <2>1, <1>1
<1>4. process' \in [Pid -> {None} \cup Processes]
  <2>1. \A q \in Pid : process'[q] \in {None} \cup Processes
    BY <1>1, <1>2, <1>3 DEF ServiceInv
  <2> QED BY <2>1, <1>1
<1>5. Memories'
  <2>1. \A q \in V!Menus \ {p} : process'[q].due \/ process'[q].shown = process'[q].memory
    <3>1. ASSUME NEW q \in V!Menus \ {p}
          PROVE  process'[q].due \/ process'[q].shown = process'[q].memory
      <4>1. process'[q] = [process[q] EXCEPT !.seen = FALSE] /\ process[q] \in Processes
        BY <1>0, <1>1
      <4>2. process'[q].due = process[q].due /\ process'[q].shown = process[q].shown
            /\ process'[q].memory = process[q].memory
        BY <4>1 DEF Processes
      <4>3. process[q].due \/ process[q].shown = process[q].memory
        BY DEF ServiceInv, Memories
      <4> QED BY <4>2, <4>3
    <3> QED BY <3>1
  <2>2. V!Menus' \subseteq V!Menus
    BY <1>0, <1>1 DEF V!Menus, V!Servers, V!Apps, V!Alive
  <2> QED BY <1>2, <1>3, <2>1, <2>2 DEF Memories
<1>6. JobRuns'
  <2>1. \A q \in Pid : process[q] # None => process'[q] # None
    BY <1>1, <1>2, <1>3, ServiceAssumption
  <2> QED BY <2>1, ServiceAssumption DEF ServiceInv, JobRuns, V!Toggle
<1>7. Due'
  <2>1. p \in V!Apps' /\ ~ V!Settled(p)'
    BY <1>2, ServiceAssumption DEF V!Apps, V!Alive, V!Settled
  <2> QED BY <2>1 DEF Due
<1>8. Planned' /\ (Changing' => plan # V!NoPlan)
  BY DEF V!Toggle, ServiceInv, Planned, Changing
<1> QED BY <1>0, <1>4, <1>5, <1>6, <1>7, <1>8 DEF ServiceInv, V!Toggle

\* A publish settles an app that has seen the file, by what the setting says.
LEMMA Publishes ==
  ASSUME ServiceInv, NEW p \in Pid, V!Publish(p)
  PROVE  ServiceInv'
<1>0. /\ process[p] \in Processes /\ process[p] # None /\ p \in V!Menus
      /\ process[p].at \in {"up", "unbound"} /\ process[p].role = V!App
  BY DEF V!Publish, ServiceInv, V!Menus, V!Servers, V!Alive, V!Apps
<1> DEFINE new == [process[p] EXCEPT !.shown = process[p].memory, !.due = FALSE]
<1>1. process' = [process EXCEPT ![p] = new]
  BY DEF V!Publish, ServiceInv
<1>2. /\ new \in Processes /\ new.role = V!App /\ new.seen = process[p].seen
      /\ new.memory = process[p].memory /\ new.at = process[p].at /\ ~ new.due
      /\ new.shown = new.memory
  BY <1>0 DEF Processes
<1>3. process' \in [Pid -> {None} \cup Processes]
  BY <1>1, <1>2 DEF ServiceInv
<1>4. JobRuns'
  BY <1>1, <1>2, JobStays DEF V!Publish
<1>5. /\ process'[p] = new
      /\ \A q \in Pid \ {p} : process'[q] = process[q]
  BY <1>1 DEF ServiceInv
<1>6. Memories'
  BY <1>0, <1>2, <1>5, ServiceAssumption DEF ServiceInv, Memories, V!Menus, V!Servers, V!Apps, V!Alive, V!Publish
<1>7. plist' \in {None, V!App, V!Serve} /\ ((plist' # None) = process[p].memory)
  BY <1>0, ServiceAssumption DEF V!Publish, V!Reconcile, ServiceInv, Processes
<1>8. Due' \/ Match'
  <2>1. CASE process[p].seen
    BY <2>1, <1>0, <1>7 DEF ServiceInv, Memories, Match, V!Publish
  <2>2. CASE ~ process[p].seen
    <3>1. p \in V!Apps' /\ ~ V!Settled(p)'
      BY <2>2, <1>0, <1>2, <1>5, ServiceAssumption DEF V!Apps, V!Alive, V!Settled
    <3> QED BY <3>1 DEF Due
  <2> QED BY <2>1, <2>2
<1>9. Planned' /\ (Changing' <=> Changing)
  BY DEF V!Publish, ServiceInv, Planned, Changing
<1> QED BY <1>3, <1>4, <1>6, <1>7, <1>8, <1>9 DEF ServiceInv, V!Publish

\* A click writes what the newest snapshot says, of which an app that has seen
\* the file and published has none but the setting's.
LEMMA SelectsTab ==
  ASSUME ServiceInv, NEW p \in Pid, V!SelectTab(p)
  PROVE  ServiceInv'
<1>0. /\ process[p] \in Processes /\ p \in V!Apps
      /\ process[p].at \in {"up", "unbound", "lingering"}
  BY DEF V!SelectTab, ServiceInv, V!Apps, V!Alive
<1>1. UNCHANGED <<setting, launchd, process, plan>>
  BY DEF V!SelectTab
<1>2. plist' \in {None, V!App, V!Serve} /\ ((plist' # None) = process[p].shown)
  BY <1>0, ServiceAssumption DEF V!SelectTab, V!Reconcile, ServiceInv, Processes
<1>3. Planned' /\ (Changing' <=> Changing) /\ JobRuns' /\ Memories' /\ (Due' <=> Due)
  BY <1>1, NobodyMoves DEF ServiceInv, Planned, Changing, JobRuns
<1>4. ASSUME ~ drift' PROVE ~ drift /\ (Due \/ Match => Due' \/ Match')
  <2>1. ~ drift
    BY <1>4 DEF V!SelectTab
  <2>2. CASE process[p].shown = setting
    BY <1>2, <2>1, <2>2 DEF V!SelectTab, Match
  <2>3. CASE process[p].shown # setting /\ process[p].at = "lingering"
    <3>1. plist' = plist
      BY <1>4, <2>3 DEF V!SelectTab
    <3> QED BY <1>1, <1>3, <2>1, <3>1 DEF Match
  <2>4. CASE process[p].shown # setting /\ process[p].at # "lingering"
    <3>1. p \in V!Menus
      BY <1>0, <2>4 DEF V!Menus, V!Servers, V!Apps
    <3>2. ~ V!Settled(p)
      BY <2>4, <3>1 DEF ServiceInv, Memories, V!Settled, V!Menus, V!Servers
    <3> QED BY <1>0, <1>3, <2>1, <3>2 DEF Due
  <2> QED BY <2>2, <2>3, <2>4
<1> QED BY <1>1, <1>2, <1>3, <1>4 DEF ServiceInv, V!SelectTab

LEMMA LogsIn ==
  ASSUME ServiceInv, V!LogIn
  PROVE  ServiceInv'
<1>1. /\ process' \in [Pid -> {None} \cup Processes]
      /\ \A q \in Pid : process'[q] # None => process'[q].at = "asking"
      /\ JobRuns'
  <2>1. CASE plist = None
    <3>1. process' = [p \in Pid |-> None] /\ launchd' = V!NoJob
      BY <2>1 DEF V!LogIn
    <3>2. launchd' = [loaded |-> FALSE, pid |-> None, program |-> None]
      BY <3>1 DEF V!NoJob
    <3>3. JobRuns'
      BY <3>2 DEF JobRuns
    <3> QED BY <3>1, <3>3
  <2>2. CASE plist # None
    <3>1. PICK first : /\ first = (CHOOSE p \in Pid : TRUE)
                       /\ process' = [p \in Pid |-> IF p = first THEN V!Born(plist) ELSE None]
                       /\ launchd' = [loaded |-> TRUE, pid |-> first, program |-> plist]
      BY <2>2 DEF V!LogIn
    <3>2. plist \in {V!App, V!Serve}
      BY <2>2 DEF ServiceInv
    <3>3. V!Born(plist) \in Processes /\ V!Born(plist) # None /\ V!Born(plist).at = "asking"
      BY <3>2, BornIsAsking
    <3>4. first \in Pid
      BY <3>1, ServiceAssumption
    <3> QED BY <3>1, <3>2, <3>3, <3>4, ServiceAssumption DEF JobRuns
  <2> QED BY <2>1, <2>2
<1>2. Memories'
  BY <1>1 DEF Memories, V!Menus, V!Servers, V!Apps, V!Alive
<1>3. Planned' /\ ~ Changing'
  BY DEF V!LogIn, Planned, Changing
<1>4. ASSUME ~ drift' PROVE Match'
  BY <1>4 DEF V!LogIn, ServiceInv, Changing, Due, Match
<1> QED BY <1>1, <1>2, <1>3, <1>4 DEF ServiceInv, V!LogIn

LEMMA Commands ==
  ASSUME ServiceInv, V!Command
  PROVE  ServiceInv'
<1>1. PICK do \in {"install", "start", "restart", "stop", "uninstall"}, program \in {V!App, V!Serve} :
        plan' = [do |-> do, program |-> program, left |-> V!Steps(do)]
  BY DEF V!Command
<1>2. /\ Planned'
      /\ plan'.do = "install" => plan'.left \notin {<<"bootstrap", "settle">>, <<"settle">>}
      /\ plan'.do = "uninstall" => Head(plan'.left) = "set"
  BY <1>1, Begins
<1>3. UNCHANGED <<process, setting, plist, launchd, drift>> /\ ~ Changing
  BY DEF V!Command, Changing
<1>4. JobRuns' /\ Memories' /\ (Due' <=> Due) /\ (Match' <=> Match)
  BY <1>3, NobodyMoves DEF ServiceInv, JobRuns, Match
<1> QED BY <1>2, <1>3, <1>4 DEF ServiceInv

\* Which command a step is of.
LEMMA StepsOf ==
  ASSUME Planned, NEW step, V!Doing(step)
  PROVE  /\ plan # V!NoPlan
         /\ step \in {"check", "bootout", "write", "set", "remove"} => Changing
         /\ step = "write" => plan.do = "install"
         /\ step = "remove" => plan.do = "uninstall"
         /\ step \in {"kill", "running", "installed", "kickstart"} => ~ Changing
         /\ step \in {"bootstrap", "settle"} => plan.do # "uninstall"
         /\ plan.do = "install" => (step = "settle" <=> plan.left = <<"settle">>)
         /\ plan.do = "install" => (step = "bootstrap" <=> plan.left = <<"bootstrap", "settle">>)
BY EndsOfInstall, EndsOfStart, EndsOfStop, EndsOfUninstall DEF V!Doing, Planned, Changing

\* What a step leaves of its command.
LEMMA Advances ==
  ASSUME Planned, NEW step, V!Doing(step), NEW word, V!Onward(word)
  PROVE  /\ Planned'
         /\ Changing' => Changing /\ plan'.do = plan.do
         /\ Changing /\ ~ Changing' => \/ plan.do = "install" /\ step = "settle"
                                       \/ plan.do = "uninstall" /\ step = "remove"
         /\ Changing' /\ plan.do = "install" =>
              /\ plan'.left = <<"settle">> => step = "bootstrap"
              /\ plan'.left = <<"bootstrap", "settle">> => step = "set"
         /\ Changing' /\ plan.do = "uninstall" => Head(plan'.left) # "set"
<1>0. plan # V!NoPlan /\ Head(plan.left) = step
  BY DEF V!Doing
<1>1. /\ Planned'
      /\ \/ plan' = V!NoPlan /\ Len(plan.left) = 1
         \/ /\ Len(plan.left) # 1 /\ plan' # V!NoPlan
            /\ plan'.do = plan.do /\ plan'.left = Tail(plan.left)
  BY <1>0, GoesOn
<1>2. plan.do = "install" => plan.left \in InstallEnds
  BY <1>0 DEF Planned
<1>3. plan.do = "uninstall" => plan.left \in UninstallEnds
  BY <1>0 DEF Planned
<1>4. CASE plan' = V!NoPlan
  BY <1>0, <1>1, <1>2, <1>3, <1>4, EndsOfInstall, EndsOfUninstall DEF Changing
<1>5. CASE plan' # V!NoPlan
  <2>1. plan'.do = plan.do /\ plan'.left = Tail(plan.left) /\ Len(plan.left) # 1
    BY <1>1, <1>5
  <2>2. Changing' <=> Changing
    BY <2>1, <1>0, <1>5 DEF Changing
  <2>3. plan.do = "install" => /\ plan'.left = <<"settle">> => step = "bootstrap"
                               /\ plan'.left = <<"bootstrap", "settle">> => step = "set"
    BY <2>1, <1>0, <1>2, EndsOfInstall
  <2>4. plan.do = "uninstall" => Head(plan'.left) # "set"
    BY <2>1, <1>3, EndsOfUninstall
  <2> QED BY <1>1, <2>1, <2>2, <2>3, <2>4
<1> QED BY <1>4, <1>5

LEMMA EndsThere ==
  ASSUME plan' = V!NoPlan
  PROVE  Planned' /\ ~ Changing'
BY DEF Planned, Changing

\* A step that moves nothing but the command.
LEMMA OnlyCommand ==
  ASSUME ServiceInv, UNCHANGED <<plist, setting, launchd, process>>, drift' <=> drift, Planned',
         ~ drift => /\ Changing' => Changing /\ plan'.do = plan.do
                    /\ Changing /\ ~ Changing' => Due \/ Match
                    /\ Changing' /\ plan.do = "install" =>
                         plan'.left \notin {<<"settle">>, <<"bootstrap", "settle">>}
                    /\ Changing' /\ plan.do = "uninstall" => Head(plan.left) # "set"
  PROVE  ServiceInv'
<1>1. Memories' /\ (Due' <=> Due) /\ (Match' <=> Match) /\ JobRuns'
  BY NobodyMoves DEF ServiceInv, JobRuns, Match
<1> QED BY <1>1 DEF ServiceInv

LEMMA ChecksLoaded ==
  ASSUME ServiceInv, V!CheckLoaded
  PROVE  ServiceInv'
<1>0. /\ Planned /\ V!Doing("check") /\ Changing /\ plan # V!NoPlan /\ Head(plan.left) = "check"
      /\ plan.do = "install" => plan.left \in InstallEnds
      /\ plan.do = "uninstall" => plan.left \in UninstallEnds
      /\ plan = [do |-> plan.do, program |-> plan.program, left |-> plan.left]
      /\ plan.program \in {V!App, V!Serve}
  BY StepsOf DEF V!CheckLoaded, ServiceInv, V!Doing, Planned
<1>1. PICK left : /\ plan' = [plan EXCEPT !.left = left]
                  /\ left \in {Tail(plan.left), Tail(Tail(Tail(plan.left)))}
  BY DEF V!CheckLoaded
<1>2. plan' = [do |-> plan.do, program |-> plan.program, left |-> left]
  BY <1>0, <1>1
<1>3. CASE plan.do = "install"
  <2>1. left \in InstallEnds /\ left \notin {<<"settle">>, <<"bootstrap", "settle">>}
    <3>1. <<"write", "set", "bootstrap", "settle">> \in InstallEnds
      BY DEF InstallEnds
    <3>2. <<"write", "set", "bootstrap", "settle">> \notin {<<"settle">>, <<"bootstrap", "settle">>}
      OBVIOUS
    <3>3. Len(plan.left) # 1
      BY <1>0, <1>3, EndsOfInstall
    <3> QED BY <1>0, <1>1, <1>3, <3>1, <3>2, <3>3, EndsOfInstall
  <2>2. Planned' /\ Changing'
    BY <1>0, <1>2, <1>3, <2>1, EndsOfInstall DEF Planned, Changing, V!NoPlan
  <2>3. plan'.do = "install" /\ plan'.left = left
    BY <1>2, <1>3
  <2> QED BY <1>0, <1>3, <2>1, <2>2, <2>3, OnlyCommand DEF V!CheckLoaded
<1>4. CASE plan.do = "uninstall"
  <2>1. left \in UninstallEnds
    <3>1. <<"remove">> \in UninstallEnds
      BY DEF UninstallEnds
    <3>2. Len(plan.left) # 1
      BY <1>0, <1>4, EndsOfUninstall
    <3> QED BY <1>0, <1>1, <1>4, <3>1, <3>2, EndsOfUninstall
  <2>2. Planned' /\ Changing'
    BY <1>0, <1>2, <1>4, <2>1, EndsOfUninstall DEF Planned, Changing, V!NoPlan
  <2>3. Head(left) # "set"
    <3>1. Head(<<"remove">>) # "set" /\ Len(plan.left) # 1
      BY <1>0, <1>4, EndsOfUninstall
    <3> QED BY <1>0, <1>1, <1>4, <3>1, EndsOfUninstall
  <2>4. Memories' /\ JobRuns'
    BY NobodyMoves DEF V!CheckLoaded, ServiceInv, JobRuns
  <2> QED BY <1>0, <1>2, <1>4, <2>2, <2>3, <2>4 DEF V!CheckLoaded, ServiceInv
<1> QED BY <1>0, <1>3, <1>4 DEF Changing

LEMMA ChecksInstalled ==
  ASSUME ServiceInv, V!CheckInstalled
  PROVE  ServiceInv'
<1>0. /\ V!Doing("installed") /\ ~ Changing /\ plan # V!NoPlan /\ Head(plan.left) = "installed"
      /\ plan = [do |-> plan.do, program |-> plan.program, left |-> plan.left]
      /\ plan.program \in {V!App, V!Serve}
      /\ plan.do \in {"start", "restart"} /\ plan.left \in StartEnds
  BY StepsOf, EndsOfInstall, EndsOfStop, EndsOfUninstall DEF V!CheckInstalled, ServiceInv, V!Doing, Planned
<1>1. CASE plan' = V!NoPlan
  BY <1>0, <1>1, EndsThere, OnlyCommand DEF V!CheckInstalled
<1>2. CASE plan' # V!NoPlan
  <2>1. PICK left : plan' = [plan EXCEPT !.left = left] /\ left \in {Tail(plan.left), <<"bootstrap", "settle">>}
    BY <1>2 DEF V!CheckInstalled, V!Over
  <2>2. plan' = [do |-> plan.do, program |-> plan.program, left |-> left]
    BY <1>0, <2>1
  <2>3. left \in StartEnds
    <3>1. Len(plan.left) # 1
      <4>1. Head(<<"settle">>) # "installed" /\ Head(<<"bootstrap", "settle">>) # "installed"
        OBVIOUS
      <4> QED BY <1>0, <4>1 DEF StartEnds
    <3> QED BY <1>0, <2>1, <3>1, EndsOfStart DEF StartEnds
  <2>4. Planned' /\ ~ Changing'
    BY <1>0, <2>2, <2>3 DEF Planned, Changing
  <2> QED BY <1>0, <2>4, OnlyCommand DEF V!CheckInstalled
<1> QED BY <1>1, <1>2

LEMMA ChecksRunning ==
  ASSUME ServiceInv, V!CheckRunning
  PROVE  ServiceInv'
<1>0. Planned /\ V!Doing("running") /\ ~ Changing
  BY StepsOf DEF V!CheckRunning, ServiceInv
<1>1. Planned' /\ ~ Changing'
  BY <1>0, Advances, EndsThere DEF V!CheckRunning, V!Over
<1> QED BY <1>0, <1>1, OnlyCommand DEF V!CheckRunning

LEMMA WaitsUntilDown ==
  ASSUME ServiceInv, V!WaitUntilDown
  PROVE  ServiceInv'
<1>0. Planned /\ V!Doing("down") /\ Head(plan.left) = "down"
  BY DEF V!WaitUntilDown, ServiceInv, V!Doing
<1> DEFINE word == IF port = None THEN "stopped" ELSE "still answering"
<1>1. V!Onward(word)
  BY DEF V!WaitUntilDown
<1> HIDE DEF word
<1>2. /\ Planned'
      /\ Changing' => Changing /\ plan'.do = plan.do
      /\ ~ (Changing /\ ~ Changing')
      /\ Changing' /\ plan.do = "install" => plan'.left \notin {<<"settle">>, <<"bootstrap", "settle">>}
  BY <1>0, <1>1, Advances
<1> QED BY <1>0, <1>2, OnlyCommand DEF V!WaitUntilDown

LEMMA Settles ==
  ASSUME ServiceInv, V!Settle
  PROVE  ServiceInv'
<1>0. /\ Planned /\ V!Doing("settle") /\ plan.do # "uninstall"
      /\ plan.do = "install" => plan.left = <<"settle">>
  BY StepsOf DEF V!Settle, ServiceInv
<1>1. Planned' /\ ~ Changing'
  BY EndsThere DEF V!Settle, V!Over
<1>2. ~ drift /\ Changing => Due \/ Match
  BY <1>0 DEF ServiceInv, Changing
<1> QED BY <1>1, <1>2, OnlyCommand DEF V!Settle

\* Between the file and the setting only `install` writes the file ahead.
LEMMA Bootouts ==
  ASSUME ServiceInv, V!Bootout
  PROVE  ServiceInv'
<1>0. Planned /\ V!Doing("bootout") /\ Changing /\ Head(plan.left) = "bootout"
  BY StepsOf DEF V!Bootout, ServiceInv, V!Doing
<1>1. CASE ~ launchd.loaded
  <2>1. Planned' /\ ~ Changing' /\ drift'
    BY <1>0, <1>1, EndsThere DEF V!Bootout, V!Fails, V!Over, Changing
  <2>2. Memories' /\ JobRuns'
    BY <1>1, NobodyMoves DEF V!Bootout, ServiceInv, JobRuns
  <2> QED BY <1>1, <2>1, <2>2 DEF ServiceInv, V!Bootout
<1>2. CASE launchd.loaded
  <2>0. /\ launchd' = V!NoJob
        /\ process' = IF launchd.pid = None THEN process ELSE [process EXCEPT ![launchd.pid] = None]
        /\ V!Onward(None) /\ UNCHANGED <<plist, setting, drift>>
    BY <1>2 DEF V!Bootout
  <2>1. process' \in [Pid -> {None} \cup Processes] /\ Memories'
    <3>1. CASE launchd.pid = None
      BY <2>0, <3>1, NobodyMoves DEF ServiceInv
    <3>2. CASE launchd.pid # None
      <4>1. launchd.pid \in Pid
        BY <3>2 DEF ServiceInv, JobRuns
      <4> QED BY <2>0, <3>2, <4>1, Replaced
    <3> QED BY <3>1, <3>2
  <2>2. JobRuns'
    <3>1. launchd' = [loaded |-> FALSE, pid |-> None, program |-> None]
      BY <2>0 DEF V!NoJob
    <3> QED BY <3>1 DEF JobRuns
  <2>3. /\ Planned'
        /\ Changing' /\ plan'.do = plan.do
        /\ plan.do = "install" => plan'.left \notin {<<"settle">>, <<"bootstrap", "settle">>}
    BY <1>0, <2>0, Advances
  <2> QED BY <1>0, <2>0, <2>1, <2>2, <2>3 DEF ServiceInv
<1> QED BY <1>1, <1>2

LEMMA Terminates ==
  ASSUME ServiceInv, NEW p \in Pid, process[p] # None, V!Terminated(p), UNCHANGED setting
  PROVE  /\ process' \in [Pid -> {None} \cup Processes]
         /\ Memories'
         /\ JobRuns'
         /\ ~ (p \in V!Apps /\ ~ V!Settled(p)) => (Due => Due')
<1>0. process[p] \in Processes
  BY DEF ServiceInv
<1>1. CASE process[p].at \in {"asking", "loading"}
  BY <1>1, Goes DEF V!Terminated
<1>2. CASE process[p].at \notin {"asking", "loading"}
  <2>1. PICK at \in {"lingering", "exiting"} :
          process' = [process EXCEPT ![p] = [process[p] EXCEPT !.at = at]] /\ UNCHANGED launchd
    BY <1>0, <1>2 DEF V!Terminated, ServiceInv
  <2> DEFINE new == [process[p] EXCEPT !.at = at]
  <2>2. new \in Processes /\ new.at \notin {"up", "unbound"}
    BY <1>0 DEF Processes
  <2>3. JobRuns'
    BY <2>1, <2>2, JobStays
  <2> HIDE DEF new
  <2> QED BY <2>1, <2>2, <2>3, Replaced DEF new
<1> QED BY <1>1, <1>2

LEMMA Kills ==
  ASSUME ServiceInv, V!Kill
  PROVE  ServiceInv'
<1>0. Planned /\ V!Doing("kill") /\ ~ Changing
  BY StepsOf DEF V!Kill, ServiceInv
<1>1. Planned' /\ ~ Changing'
  BY <1>0, Advances, EndsThere DEF V!Kill, V!Fails, V!Over
<1>2. CASE launchd.pid = None
  <2>1. UNCHANGED <<plist, setting, launchd, process>> /\ (drift' <=> drift)
    BY <1>0, <1>2, StepsOf DEF V!Kill, V!Fails, Changing
  <2> QED BY <1>0, <1>1, <2>1, OnlyCommand
<1>3. CASE launchd.pid # None
  <2>1. launchd.pid \in Pid /\ process[launchd.pid] # None
    BY <1>3 DEF ServiceInv, JobRuns
  <2>2. /\ V!Terminated(launchd.pid) /\ UNCHANGED <<plist, setting>>
        /\ drift' = (drift \/ (launchd.pid \in V!Apps /\ ~ V!Settled(launchd.pid)))
    BY <1>3 DEF V!Kill
  <2>3. process' \in [Pid -> {None} \cup Processes] /\ Memories' /\ JobRuns'
    BY <2>1, <2>2, Terminates
  <2>4. ASSUME ~ drift' PROVE ~ drift /\ (Due => Due')
    BY <2>1, <2>2, <2>4, Terminates
  <2>5. Match' <=> Match
    BY <2>2 DEF Match
  <2> QED BY <1>0, <1>1, <2>2, <2>3, <2>4, <2>5 DEF ServiceInv
<1> QED BY <1>2, <1>3

LEMMA WritesFile ==
  ASSUME ServiceInv, V!WritePlist
  PROVE  ServiceInv'
<1>0. Planned /\ V!Doing("write") /\ Changing /\ plan.do = "install"
  BY StepsOf DEF V!WritePlist, ServiceInv
<1>1. /\ Planned' /\ Changing' /\ plan'.do = "install"
      /\ plan'.left \notin {<<"settle">>, <<"bootstrap", "settle">>}
  BY <1>0, Advances DEF V!WritePlist
<1>2. plist' \in {None, V!App, V!Serve}
  BY <1>0 DEF V!WritePlist, Planned, Changing
<1>3. JobRuns' /\ Memories'
  BY NobodyMoves DEF V!WritePlist, ServiceInv, JobRuns
<1> QED BY <1>1, <1>2, <1>3 DEF ServiceInv, V!WritePlist

LEMMA Removes ==
  ASSUME ServiceInv, V!RemovePlist
  PROVE  ServiceInv'
<1>0. Planned /\ V!Doing("remove") /\ Changing /\ plan.do = "uninstall" /\ Head(plan.left) = "remove"
  BY StepsOf DEF V!RemovePlist, ServiceInv, V!Doing
<1>1. Planned' /\ (Changing' => plan'.do = plan.do)
  BY <1>0, Advances DEF V!RemovePlist
<1>2. ~ drift => ~ setting
  BY <1>0 DEF ServiceInv
<1>3. plist' = None /\ ~ drift' => Match'
  BY <1>2 DEF Match, V!RemovePlist, ServiceInv
<1>4. JobRuns' /\ Memories'
  BY NobodyMoves DEF V!RemovePlist, ServiceInv, JobRuns
<1> QED BY <1>0, <1>1, <1>2, <1>3, <1>4 DEF ServiceInv, V!RemovePlist

LEMMA Sets ==
  ASSUME ServiceInv, V!SetLaunchAtLogin
  PROVE  ServiceInv'
<1>0. Planned /\ V!Doing("set") /\ Changing
  BY StepsOf DEF V!SetLaunchAtLogin, ServiceInv
<1>1. /\ Planned' /\ Changing' /\ plan'.do = plan.do
      /\ plan'.do = "install" => plan'.left # <<"settle">>
  BY <1>0, Advances DEF V!SetLaunchAtLogin
<1>2. /\ process' \in [Pid -> {None} \cup Processes] /\ Memories' /\ JobRuns'
  BY Unsees DEF V!SetLaunchAtLogin, V!Edited, Unseen
<1>3. setting' = (plan.do = "install")
  BY DEF V!SetLaunchAtLogin
<1> QED BY <1>0, <1>1, <1>2, <1>3 DEF ServiceInv, V!SetLaunchAtLogin

\* launchd starts a program in a process of its own.
LEMMA Starts ==
  ASSUME ServiceInv, NEW p \in Pid, NEW program \in {V!App, V!Serve}, V!Started(p, program),
         UNCHANGED setting
  PROVE  /\ process' \in [Pid -> {None} \cup Processes]
         /\ Memories'
         /\ JobRuns'
         /\ ~ (p \in V!Apps /\ ~ V!Settled(p)) => (Due => Due')
<1>1. V!Born(program) \in Processes /\ V!Born(program) # None /\ V!Born(program).at = "asking"
  BY BornIsAsking
<1>2. process' = [process EXCEPT ![p] = V!Born(program)] /\ launchd' = [loaded |-> TRUE, pid |-> p, program |-> program]
  BY DEF V!Started
<1>3. JobRuns'
  BY <1>1, <1>2, ServiceAssumption DEF JobRuns, ServiceInv
<1> QED BY <1>1, <1>2, <1>3, Replaced

LEMMA Bootstraps ==
  ASSUME ServiceInv, V!Bootstrap
  PROVE  ServiceInv'
<1>0. /\ Planned /\ V!Doing("bootstrap") /\ plan.do # "uninstall" /\ plan # V!NoPlan
      /\ plan.do = "install" => plan.left = <<"bootstrap", "settle">>
  BY StepsOf DEF V!Bootstrap, ServiceInv
<1>1. CASE launchd.loaded \/ plist = None
  <2>1. Planned' /\ ~ Changing' /\ UNCHANGED <<plist, setting, launchd, process>>
    BY <1>1, EndsThere DEF V!Bootstrap, V!Fails, V!Over
  <2>2. drift' = (drift \/ Changing)
    BY <1>0, <1>1 DEF V!Bootstrap, V!Fails, Changing
  <2>3. Memories' /\ JobRuns' /\ (Due' <=> Due) /\ (Match' <=> Match)
    BY <2>1, NobodyMoves DEF ServiceInv, JobRuns, Match
  <2> QED BY <2>1, <2>2, <2>3 DEF ServiceInv
<1>2. CASE ~ launchd.loaded /\ plist # None
  <2>1. /\ V!Free # {} /\ V!Started(V!NextPid, plist) /\ V!Onward(None)
        /\ UNCHANGED <<plist, setting, drift>>
    BY <1>2 DEF V!Bootstrap
  <2>2. V!NextPid \in Pid /\ process[V!NextPid] = None /\ plist \in {V!App, V!Serve}
    BY <2>1, <1>2, FreePid DEF ServiceInv
  <2>3. V!NextPid \notin V!Apps
    BY <2>2 DEF V!Apps, V!Alive
  <2>4. process' \in [Pid -> {None} \cup Processes] /\ Memories' /\ JobRuns' /\ (Due => Due')
    BY <2>1, <2>2, <2>3, Starts
  <2>5. /\ Planned'
        /\ Changing' => Changing /\ plan'.do = plan.do
        /\ ~ (Changing /\ ~ Changing')
        /\ Changing' => plan'.left # <<"bootstrap", "settle">>
    BY <2>1, <1>0, Advances DEF Changing
  <2>6. Match' <=> Match
    BY <2>1 DEF Match
  <2>7. ~ drift /\ Changing => Match'
    BY <1>0, <1>2, <2>1 DEF ServiceInv, Changing, Match
  <2> QED BY <1>0, <2>1, <2>4, <2>5, <2>6, <2>7 DEF ServiceInv, Changing
<1> QED BY <1>1, <1>2

LEMMA Kickstarts ==
  ASSUME ServiceInv, V!Kickstart
  PROVE  ServiceInv'
<1>0. Planned /\ V!Doing("kickstart") /\ ~ Changing /\ plan # V!NoPlan
  BY StepsOf DEF V!Kickstart, ServiceInv
<1>1. Planned' /\ ~ Changing' /\ UNCHANGED <<plist, setting>>
  BY <1>0, Advances, EndsThere DEF V!Kickstart, V!Fails, V!Over
<1>2. Match' <=> Match
  BY <1>1 DEF Match
<1>3. CASE UNCHANGED <<launchd, process>> /\ (drift' <=> drift)
  BY <1>0, <1>1, <1>3, OnlyCommand
<1>4. CASE /\ launchd.loaded /\ launchd.pid = None /\ V!Free # {}
           /\ V!Started(V!NextPid, launchd.program) /\ UNCHANGED drift
  <2>1. V!NextPid \in Pid /\ V!NextPid \notin V!Apps
    BY <1>4, FreePid DEF V!Apps, V!Alive
  <2>2. launchd.program \in {V!App, V!Serve}
    BY <1>4 DEF ServiceInv, JobRuns
  <2>3. process' \in [Pid -> {None} \cup Processes] /\ Memories' /\ JobRuns' /\ (Due => Due')
    BY <1>1, <1>4, <2>1, <2>2, Starts
  <2> QED BY <1>0, <1>1, <1>2, <1>4, <2>3 DEF ServiceInv
<1>5. CASE /\ launchd.pid # None /\ V!Started(launchd.pid, launchd.program)
           /\ drift' = (drift \/ (launchd.pid \in V!Apps /\ ~ V!Settled(launchd.pid)))
  <2>1. launchd.pid \in Pid /\ launchd.program \in {V!App, V!Serve}
    BY <1>5 DEF ServiceInv, JobRuns
  <2>2. process' \in [Pid -> {None} \cup Processes] /\ Memories' /\ JobRuns'
    BY <1>1, <1>5, <2>1, Starts
  <2>3. ASSUME ~ drift' PROVE ~ drift /\ (Due => Due')
    BY <1>1, <1>5, <2>1, <2>3, Starts
  <2> QED BY <1>0, <1>1, <1>2, <2>2, <2>3 DEF ServiceInv
<1>6. CASE V!Fails /\ UNCHANGED <<launchd, process, port>>
  <2>1. drift' <=> drift
    BY <1>0, <1>6 DEF V!Fails, Changing
  <2> QED BY <2>1, <1>3, <1>6
<1>7. CASE launchd.pid # None /\ UNCHANGED <<launchd, process, port, drift>>
  BY <1>3, <1>7
<1> QED BY <1>4, <1>5, <1>6, <1>7 DEF V!Kickstart

LEMMA ServiceStarts == V!Init => ServiceInv
<1> SUFFICES ASSUME V!Init PROVE ServiceInv
  OBVIOUS
<1>1. launchd = [loaded |-> FALSE, pid |-> None, program |-> None]
  BY DEF V!Init, V!NoJob
<1>2. JobRuns
  BY <1>1 DEF JobRuns
<1>3. Match /\ Memories
  BY DEF V!Init, Match, Memories, V!Menus, V!Servers, V!Alive
<1>4. Planned /\ ~ Changing
  BY DEF V!Init, Planned, Changing
<1> QED BY <1>2, <1>3, <1>4 DEF V!Init, ServiceInv

LEMMA ServiceSteps == ServiceInv /\ V!Next => ServiceInv'
<1> SUFFICES ASSUME ServiceInv, V!Next PROVE ServiceInv'
  OBVIOUS
<1>1. CASE V!Launch \/ V!HandEdit \/ V!LogIn \/ V!Command
  BY <1>1, Launches, HandEdits, LogsIn, Commands
<1>2. CASE \E p \in Pid : V!Ask(p) \/ V!Load(p) \/ V!Exit(p) \/ V!Watch(p) \/ V!Toggle(p) \/ V!Publish(p)
                           \/ V!SelectTab(p)
  BY <1>2, Asks, Loads, Exits, Watches, Toggles, Publishes, SelectsTab
<1>3. CASE V!CheckLoaded \/ V!CheckInstalled \/ V!CheckRunning \/ V!Bootout \/ V!Kill \/ V!WaitUntilDown
  BY <1>3, ChecksLoaded, ChecksInstalled, ChecksRunning, Bootouts, Kills, WaitsUntilDown
<1>4. CASE V!WritePlist \/ V!SetLaunchAtLogin \/ V!RemovePlist \/ V!Bootstrap \/ V!Kickstart \/ V!Settle
  BY <1>4, WritesFile, Sets, Removes, Bootstraps, Kickstarts, Settles
<1> QED BY <1>1, <1>2, <1>3, <1>4 DEF V!Next

LEMMA ServiceStutters == ServiceInv /\ UNCHANGED serviceVars => ServiceInv'
<1> SUFFICES ASSUME ServiceInv, UNCHANGED serviceVars PROVE ServiceInv'
  OBVIOUS
<1>1. UNCHANGED <<plist, setting, launchd, process, plan, drift>>
  BY DEF serviceVars
<1>2. Planned' /\ (Changing' <=> Changing) /\ plan'.do = plan.do
  BY <1>1 DEF ServiceInv, Planned, Changing
<1>3. JobRuns' /\ Memories' /\ (Due' <=> Due) /\ (Match' <=> Match)
  BY <1>1, NobodyMoves DEF ServiceInv, JobRuns, Match
<1> QED BY <1>1, <1>2, <1>3 DEF ServiceInv

ServiceAtWork == focus = "service" => ServiceInv

\* However installs, uninstalls, starts, stops, toggles, edits, crashes, logins
\* and the publishes of apps that have not looked yet interleave, and the clicks of
\* their menus: when no command is under way, none failed half-way or was overtaken,
\* no app without an engine wrote by an old setting, and every app has looked and
\* published, the launch agent's file is there exactly when the setting says so.
THEOREM PlistAlwaysFollows == PartsSpec => []PlistFollowsSetting
<1>1. PartsInit => ServiceAtWork
  BY ServiceStarts DEF PartsInit, ServiceAtWork
<1>2. ServiceAtWork /\ [PartsNext]_partsVars => ServiceAtWork'
  <2> SUFFICES ASSUME ServiceAtWork, [PartsNext]_partsVars, focus' = "service"
               PROVE  ServiceInv'
    BY DEF ServiceAtWork
  <2>1. CASE focus = "service" /\ V!Next
    BY <2>1, ServiceSteps DEF ServiceAtWork
  <2>2. CASE focus = "service" /\ UNCHANGED serviceVars
    BY <2>2, ServiceStutters DEF ServiceAtWork
  <2>3. (focus = "service" /\ V!Next) \/ (focus = "service" /\ UNCHANGED serviceVars)
    BY DEF PartsNext, partsVars
  <2> QED BY <2>1, <2>2, <2>3
<1>3. ServiceAtWork => PlistFollowsSetting
  BY DEF ServiceAtWork, ServiceInv, PlistFollowsSetting, V!PlistFollowsSetting, Changing, Due, Match
<1> QED BY <1>1, <1>2, <1>3, PTL DEF PartsSpec

----------------------------------------------------------------------------
(* Readings. *)

Accounts ==
  [provider : {"codex", "claude"}, session : Int, weekly : Int, cut : BOOLEAN]

\* What ReadingIsHonest says of a reading and of what it was made from.
Understood(u, h) ==
  /\ u # None /\ h.kind = "body" =>
       /\ u.session.pct = D!NormalisePct(h.account.session)
       /\ u.weekly.pct = D!NormalisePct(h.account.weekly)
       /\ u.session.resets_at = h.said
       /\ h.said # None => u.session.started_at = h.said - D!SessionWidth
       /\ u.limit_reached = "reached" => h.account.cut
       /\ u.limit_reached = "clear" => h.account.provider = "codex" /\ ~ h.account.cut
  /\ u # None /\ h.kind = "headers" =>
       /\ D!Exhausted(u) <=> \E w \in h.said : w.status = "rejected"
       /\ u.limit_reached = "clear" => \E w \in h.said : w.status = "allowed"

\* A reading is these four fields.
Whole(u) ==
  u = [limit_reached |-> u.limit_reached, session |-> u.session, weekly |-> u.weekly, scoped |-> u.scoped]

LEMMA NoUsageIs ==
  /\ Whole(D!NoUsage) /\ D!NoUsage.limit_reached = "unknown"
  /\ D!NoUsage.session = None /\ D!NoUsage.weekly = None
BY DEF Whole, D!NoUsage

LEMMA WithLimitIs ==
  ASSUME NEW u, Whole(u), NEW l
  PROVE  LET w == D!WithLimit(u, l) IN
         /\ Whole(w) /\ w.limit_reached = u.limit_reached
         /\ w.session = IF l.kind = "session" THEN D!LimitWindow(l) ELSE u.session
         /\ w.weekly = IF l.kind = "weekly_all" THEN D!LimitWindow(l) ELSE u.weekly
<1> DEFINE x == D!LimitWindow(l)
           y == Append(u.scoped, [name |-> D!LimitName(l), window |-> x])
<1>1. D!WithLimit(u, l) = CASE l.kind = "session" -> [u EXCEPT !.session = x]
                            [] l.kind = "weekly_all" -> [u EXCEPT !.weekly = x]
                            [] OTHER -> [u EXCEPT !.scoped = y]
  BY DEF D!WithLimit
<1> HIDE DEF x, y
<1>2. CASE l.kind = "session"  BY <1>1, <1>2 DEF Whole, x
<1>3. CASE l.kind = "weekly_all"  BY <1>1, <1>3 DEF Whole, x
<1>4. CASE l.kind \notin {"session", "weekly_all"}  BY <1>1, <1>4 DEF Whole
<1> QED BY <1>2, <1>3, <1>4

LEMMA WithWindowIs ==
  ASSUME NEW u, Whole(u), NEW raw, raw # None
  PROVE  LET w == D!WithWindow(u, raw) IN
         /\ Whole(w) /\ w.limit_reached = u.limit_reached
         /\ w.session = IF D!IsSession(raw) THEN D!CodexWindow(raw) ELSE u.session
         /\ w.weekly = IF D!IsSession(raw) THEN u.weekly ELSE D!CodexWindow(raw)
<1> DEFINE x == D!CodexWindow(raw)
<1>1. D!WithWindow(u, raw) = IF D!IsSession(raw) THEN [u EXCEPT !.session = x]
                             ELSE [u EXCEPT !.weekly = x]
  BY DEF D!WithWindow
<1> HIDE DEF x
<1>2. CASE D!IsSession(raw)  BY <1>1, <1>2 DEF Whole, x
<1>3. CASE ~ D!IsSession(raw)  BY <1>1, <1>3 DEF Whole, x
<1> QED BY <1>2, <1>3

LEMMA LimitsAre ==
  ASSUME NEW a, NEW b, NEW c
  PROVE  D!WithLimits(<<a, b, c>>) = D!WithLimit(D!WithLimit(D!WithLimit(D!NoUsage, a), b), c)
<1> DEFINE l == <<a, b, c>>
           u0 == D!NoUsage
           u1 == D!WithLimit(u0, a)
           u2 == D!WithLimit(u1, b)
           u3 == D!WithLimit(u2, c)
           Fits(F) == F = [i \in 0..Len(l) |-> IF i = 0 THEN D!NoUsage ELSE D!WithLimit(F[i - 1], l[i])]
           G == [i \in 0..3 |-> IF i = 0 THEN u0 ELSE IF i = 1 THEN u1 ELSE IF i = 2 THEN u2 ELSE u3]
<1>1. Len(l) = 3 /\ l[1] = a /\ l[2] = b /\ l[3] = c  OBVIOUS
<1>2. G[0] = u0 /\ G[1] = u1 /\ G[2] = u2 /\ G[3] = u3
  <2> HIDE DEF u0, u1, u2, u3
  <2> QED OBVIOUS
<1>3. \A i \in 0..3 : G[i] = IF i = 0 THEN D!NoUsage ELSE D!WithLimit(G[i - 1], l[i])
  <2> HIDE DEF G, l
  <2>1. \A i \in 0..3 : i = 0 \/ (i = 1 /\ i - 1 = 0) \/ (i = 2 /\ i - 1 = 1) \/ (i = 3 /\ i - 1 = 2)
    OBVIOUS
  <2>2. u0 = D!NoUsage /\ u1 = D!WithLimit(u0, a) /\ u2 = D!WithLimit(u1, b) /\ u3 = D!WithLimit(u2, c)
    OBVIOUS
  <2> HIDE DEF u0, u1, u2, u3
  <2> QED BY <1>1, <1>2, <2>1, <2>2
<1>4. Fits(G)
  <2> G = [i \in 0..3 |-> G[i]]  OBVIOUS
  <2> HIDE DEF G, l
  <2> QED BY <1>1, <1>3, Zenon
<1> DEFINE F == CHOOSE f : Fits(f)
<1>5. Fits(F)
  <2> HIDE DEF G, Fits
  <2> QED BY <1>4
<1>6. D!WithLimits(l) = F[3]
  <2> HIDE DEF l
  <2> QED BY <1>1 DEF D!WithLimits
<1> HIDE DEF F, l, G
<1>7. \A i \in 0..3 : F[i] = IF i = 0 THEN D!NoUsage ELSE D!WithLimit(F[i - 1], l[i])
  <2>1. F = [i \in 0..3 |-> IF i = 0 THEN D!NoUsage ELSE D!WithLimit(F[i - 1], l[i])]  BY <1>1, <1>5
  <2> QED BY <2>1, Zenon
<1>8. F[0] = u0 /\ F[1] = D!WithLimit(F[0], a) /\ F[2] = D!WithLimit(F[1], b) /\ F[3] = D!WithLimit(F[2], c)
  BY <1>1, <1>7
<1> QED BY <1>6, <1>8 DEF l

LEMMA ClaudeBodyUnderstood ==
  ASSUME account \in Accounts, account.provider = "claude", NEW body \in D!ClaudeBodies,
         NEW at, at = IF body.limits # <<>> THEN body.limits[1].resets_at ELSE body.five_hour.resets_at
  PROVE  Understood(D!ClaudeUsage(body), [kind |-> "body", account |-> account, said |-> D!Instant(at)])
<1> DEFINE s == account.session
           w == account.weekly
           u == D!ClaudeUsage(body)
<1> SUFFICES Understood(u, [kind |-> "body", account |-> account, said |-> D!Instant(at)])
  OBVIOUS
<1>0. s \in Int /\ w \in Int  BY DEF Accounts
<1>1. CASE body.limits # <<>>
  <2>a. body.limits \in D!LimitLists  BY <1>1 DEF D!ClaudeBodies
  <2>0. PICK groups \in D!Groups, r \in D!Written(D!SessionReset) : body.limits = D!LimitList(groups, r)
    BY <2>a DEF D!LimitLists
  <2> DEFINE g1 == groups[1]
             g2 == groups[2]
  <2>1. g1 \in {None, "session"}  BY DEF D!Groups
  <2> DEFINE a == D!Limit("session", g1, s, r)
             b == D!Extra("weekly_scoped", "opus", 100)
             c == D!Limit("weekly_all", g2, w, D!WeeklyReset)
             u1 == D!WithLimit(D!NoUsage, a)
             u2 == D!WithLimit(u1, b)
             u3 == D!WithLimit(u2, c)
  <2>2. body.limits = <<a, b, c>>  BY <2>0 DEF D!LimitList
  <2> HIDE DEF g1, g2
  <2>3. a.kind = "session" /\ b.kind = "weekly_scoped" /\ c.kind = "weekly_all"  BY DEF D!Extra, D!Limit
  <2>4. at = r  BY <1>1, <2>2 DEF D!Limit
  <2>5. u = u3
    <3> HIDE DEF a, b, c
    <3> QED BY <1>1, <2>2, LimitsAre DEF D!ClaudeUsage
  <2>6. D!LimitWindow(a) = D!Window(D!NormalisePct(s), D!Instant(r), D!SessionWidth)
    BY <2>1 DEF D!LimitWindow, D!LimitWidth, D!Limit
  <2>7. D!LimitWindow(c).pct = D!NormalisePct(w)
    BY DEF D!LimitWindow, D!Window, D!Limit
  <2>8. u.session = D!LimitWindow(a) /\ u.weekly = D!LimitWindow(c) /\ u.limit_reached = "unknown"
    <3> HIDE DEF a, b, c
    <3>1. Whole(u1) /\ u1.limit_reached = "unknown" /\ u1.session = D!LimitWindow(a)
      BY <2>3, NoUsageIs, WithLimitIs
    <3> HIDE DEF u1
    <3>2. Whole(u2) /\ u2.limit_reached = "unknown" /\ u2.session = D!LimitWindow(a)
      BY <2>3, <3>1, WithLimitIs
    <3> HIDE DEF u2
    <3>3. u3.limit_reached = "unknown" /\ u3.session = D!LimitWindow(a) /\ u3.weekly = D!LimitWindow(c)
      BY <2>3, <3>2, WithLimitIs
    <3> HIDE DEF u3, u
    <3> QED BY <2>5, <3>3
  <2> HIDE DEF a, b, c, u
  <2>9. /\ u.session.pct = D!NormalisePct(s) /\ u.session.resets_at = D!Instant(r)
        /\ D!Instant(r) # None => u.session.started_at = D!Instant(r) - D!SessionWidth
        /\ u.weekly.pct = D!NormalisePct(w)
    BY <2>6, <2>7, <2>8, ReadingsAssumption DEF D!Window, D!StartedAt, D!SessionWidth
  <2> QED BY <2>4, <2>8, <2>9 DEF Understood
<1>2. CASE body.limits = <<>>
  <2>1. PICK r \in D!Written(D!SessionReset) :
          /\ body.five_hour = [utilization |-> s, resets_at |-> r]
          /\ body.seven_day = [utilization |-> w, resets_at |-> D!WeeklyReset]
    <3>1. \A groups, r : D!LimitList(groups, r) # <<>>  BY DEF D!LimitList
    <3>2. <<>> \notin D!LimitLists  BY <3>1 DEF D!LimitLists
    <3>3. /\ body.five_hour \in {D!Pair(s, r) : r \in D!Written(D!SessionReset)}
          /\ body.seven_day = D!Pair(w, D!WeeklyReset)
      BY <1>2, <3>2 DEF D!ClaudeBodies
    <3> QED BY <3>3 DEF D!Pair
  <2>2. at = r  BY <1>2, <2>1
  <2>3. r \in Int \cup {None, Junk} /\ D!WeeklyReset \in Int
    BY DEF D!Written, D!SessionReset, D!WeeklyReset
  <2>4. body.five_hour # None /\ body.seven_day # None
    BY <1>0, <2>1, <2>3, ReadingsAssumption DEF RawWindows
  <2>5. /\ D!TopWindow(body.five_hour, D!SessionWidth) = D!Window(D!NormalisePct(s), D!Instant(r), D!SessionWidth)
        /\ D!TopWindow(body.seven_day, D!WeeklyWidth).pct = D!NormalisePct(w)
    BY <2>1, <2>4 DEF D!TopWindow, D!Window
  <2>6. /\ u.session = D!TopWindow(body.five_hour, D!SessionWidth)
        /\ u.weekly = D!TopWindow(body.seven_day, D!WeeklyWidth)
        /\ u.limit_reached = "unknown"
    BY <1>2 DEF D!ClaudeUsage, D!NoUsage
  <2> HIDE DEF u
  <2>7. /\ u.session.pct = D!NormalisePct(s) /\ u.session.resets_at = D!Instant(r)
        /\ D!Instant(r) # None => u.session.started_at = D!Instant(r) - D!SessionWidth
        /\ u.weekly.pct = D!NormalisePct(w)
    BY <2>5, <2>6, ReadingsAssumption DEF D!Window, D!StartedAt, D!SessionWidth
  <2> QED BY <2>2, <2>6, <2>7 DEF Understood
<1> QED BY <1>1, <1>2

LEMMA VerdictIs ==
  ASSUME account \in Accounts, NEW v \in D!Verdicts, NEW rate,
         rate.limit_reached = v[1], rate.allowed = v[2]
  PROVE  D!Verdict(rate) = None \/ D!Verdict(rate) = account.cut
<1>1. account.cut \in BOOLEAN /\ TRUE # None /\ FALSE # None
  BY ReadingsAssumption DEF Accounts
<1>2. CASE account.cut
  <2>0. account.cut = TRUE  BY <1>1, <1>2
  <2>1. v \in {<<TRUE, FALSE>>, <<None, FALSE>>, <<None, None>>}  BY <1>2 DEF D!Verdicts
  <2>2. CASE v = <<TRUE, FALSE>>
    <3>1. rate.limit_reached = TRUE  BY <2>2
    <3> QED BY <1>1, <2>0, <3>1, Zenon DEF D!Verdict
  <2>3. CASE v = <<None, FALSE>>
    <3>1. rate.limit_reached = None /\ rate.allowed = FALSE  BY <2>3
    <3>2. D!Verdict(rate) = ~ rate.allowed  BY <1>1, <3>1, Zenon DEF D!Verdict
    <3> QED BY <2>0, <3>1, <3>2, Zenon
  <2>4. CASE v = <<None, None>>  BY <2>4 DEF D!Verdict
  <2> QED BY <2>1, <2>2, <2>3, <2>4
<1>3. CASE ~ account.cut
  <2>0. account.cut = FALSE  BY <1>1, <1>3
  <2>1. v \in {<<FALSE, TRUE>>, <<None, TRUE>>, <<None, None>>}  BY <1>3 DEF D!Verdicts
  <2>2. CASE v = <<FALSE, TRUE>>
    <3>1. rate.limit_reached = FALSE  BY <2>2
    <3> QED BY <1>1, <2>0, <3>1, Zenon DEF D!Verdict
  <2>3. CASE v = <<None, TRUE>>
    <3>1. rate.limit_reached = None /\ rate.allowed = TRUE  BY <2>3
    <3>2. D!Verdict(rate) = ~ rate.allowed  BY <1>1, <3>1, Zenon DEF D!Verdict
    <3> QED BY <2>0, <3>1, <3>2, Zenon
  <2>4. CASE v = <<None, None>>  BY <2>4 DEF D!Verdict
  <2> QED BY <2>1, <2>2, <2>3, <2>4
<1> QED BY <1>2, <1>3

LEMMA WindowsAre ==
  ASSUME account \in Accounts
  PROVE  /\ \A x \in D!SessionWindows :
              /\ x # None /\ x.used_percent = account.session /\ x.width = D!SessionWidth
              /\ D!IsSession(x)
              /\ D!CodexWindow(x) = D!Window(D!NormalisePct(account.session), D!CodexReset(x), D!SessionWidth)
              /\ D!CodexReset(x) \in {D!SessionReset, None}
         /\ \A x \in D!WeeklyWindows :
              /\ x # None /\ x.width # D!SessionWidth /\ ~ D!IsSession(x)
              /\ D!CodexWindow(x).pct = D!NormalisePct(account.weekly)
<1>1. account.session \in Int /\ account.weekly \in Int  BY DEF Accounts
<1>2. None \notin Int /\ None \notin RawWindows  BY ReadingsAssumption
<1>3. ASSUME NEW x \in D!SessionWindows
      PROVE  /\ x # None /\ x.used_percent = account.session /\ x.width = D!SessionWidth
             /\ D!IsSession(x)
             /\ D!CodexWindow(x) = D!Window(D!NormalisePct(account.session), D!CodexReset(x), D!SessionWidth)
             /\ D!CodexReset(x) \in {D!SessionReset, None}
  <2>1. PICK r \in D!Resets :
          x = [used_percent |-> account.session, width |-> D!SessionWidth, reset_at |-> r[1],
               reset_after |-> r[2]]
    BY DEF D!SessionWindows
  <2>2. r[1] \in Int \cup {None} /\ r[2] \in Int \cup {None}
    BY DEF D!Resets, D!SessionReset, D!Now
  <2>3. x \in RawWindows  BY <1>1, <2>1, <2>2 DEF RawWindows, D!SessionWidth
  <2>4. x # None  BY <1>2, <2>3
  <2>5. D!CodexWidth(x) = D!SessionWidth /\ D!SessionWidth # None
    BY <1>2, <2>1 DEF D!CodexWidth, D!SessionWidth
  <2>6. D!IsSession(x)  BY <2>5 DEF D!IsSession, D!SessionWidth, D!SessionMax
  <2>7. D!CodexReset(x) \in {D!SessionReset, None}
    <3>1. r \in {<<203, None>>, <<None, 3>>, <<0, 3>>, <<None, 0>>}
      BY DEF D!Resets, D!SessionReset, D!Now
    <3>2. x.reset_at = r[1] /\ x.reset_after = r[2]  BY <2>1
    <3>3. CASE r = <<203, None>>  BY <1>2, <3>2, <3>3 DEF D!CodexReset, D!SessionReset
    <3>4. CASE r = <<None, 3>>  BY <1>2, <3>2, <3>4 DEF D!CodexReset, D!SessionReset, D!Now
    <3>5. CASE r = <<0, 3>>  BY <1>2, <3>2, <3>5 DEF D!CodexReset, D!SessionReset, D!Now
    <3>6. CASE r = <<None, 0>>  BY <1>2, <3>2, <3>6 DEF D!CodexReset
    <3> QED BY <3>1, <3>3, <3>4, <3>5, <3>6
  <2> QED BY <2>1, <2>4, <2>5, <2>6, <2>7 DEF D!CodexWindow
<1>4. ASSUME NEW x \in D!WeeklyWindows
      PROVE  /\ x # None /\ x.width # D!SessionWidth /\ ~ D!IsSession(x)
             /\ D!CodexWindow(x).pct = D!NormalisePct(account.weekly)
  <2>1. /\ x = [used_percent |-> x.used_percent, width |-> x.width, reset_at |-> x.reset_at,
                reset_after |-> x.reset_after]
        /\ x.used_percent = account.weekly /\ x.width \in {168, None, 0}
        /\ x.reset_at = 300 /\ x.reset_after = None
    BY DEF D!WeeklyWindows, D!WeeklyWidth, D!WeeklyReset
  <2>2. x \in RawWindows  BY <1>1, <2>1 DEF RawWindows
  <2>3. x # None  BY <1>2, <2>2
  <2>4. x.width # D!SessionWidth /\ ~ D!IsSession(x)
    BY <1>2, <2>1 DEF D!IsSession, D!CodexWidth, D!SessionWidth, D!SessionMax
  <2>5. D!CodexWindow(x).pct = D!NormalisePct(account.weekly)  BY <2>1 DEF D!CodexWindow, D!Window
  <2> QED BY <2>3, <2>4, <2>5
<1> QED BY <1>3, <1>4

LEMMA CodexBodyUnderstood ==
  ASSUME account \in Accounts, account.provider = "codex", NEW body \in D!CodexBodies,
         NEW w, w = IF body.rate_limit.primary.width = D!SessionWidth
                    THEN body.rate_limit.primary ELSE body.rate_limit.secondary
  PROVE  Understood(D!CodexUsage(body), [kind |-> "body", account |-> account, said |-> D!CodexReset(w)])
<1> DEFINE u == D!CodexUsage(body)
           first == body.rate_limit.primary
           second == body.rate_limit.secondary
           u1 == D!WithWindow(D!NoUsage, first)
           u2 == D!WithWindow(u1, second)
           v == D!Verdict(body.rate_limit)
<1> SUFFICES Understood(u, [kind |-> "body", account |-> account, said |-> D!CodexReset(w)])
  OBVIOUS
<1>1. /\ \/ first \in D!SessionWindows /\ second \in D!WeeklyWindows
         \/ first \in D!WeeklyWindows /\ second \in D!SessionWindows
      /\ v = None \/ v = account.cut
  <2>1. PICK p \in (D!SessionWindows \X D!WeeklyWindows) \cup (D!WeeklyWindows \X D!SessionWindows),
             verdict \in D!Verdicts, inner \in D!Extras, outer \in D!Extras :
               body = D!CodexBody(p, verdict, inner, outer)
    BY DEF D!CodexBodies
  <2>2. /\ first = p[1] /\ second = p[2]
        /\ body.rate_limit.limit_reached = verdict[1] /\ body.rate_limit.allowed = verdict[2]
    BY <2>1 DEF D!CodexBody
  <2>3. v = None \/ v = account.cut  BY <2>2, VerdictIs
  <2> QED BY <2>2, <2>3
<1>2. /\ first # None /\ second # None
      /\ \/ first \in D!SessionWindows /\ w = first /\ D!IsSession(first) /\ ~ D!IsSession(second)
            /\ D!CodexWindow(second).pct = D!NormalisePct(account.weekly)
         \/ second \in D!SessionWindows /\ w = second /\ ~ D!IsSession(first) /\ D!IsSession(second)
            /\ D!CodexWindow(first).pct = D!NormalisePct(account.weekly)
  BY <1>1, WindowsAre
<1>3. w \in D!SessionWindows  BY <1>2
<1>4. /\ Whole(u2) /\ u2.session = D!CodexWindow(w)
      /\ u2.weekly.pct = D!NormalisePct(account.weekly)
  <2> HIDE DEF first, second
  <2>1. /\ Whole(u1)
        /\ D!IsSession(first) => u1.session = D!CodexWindow(first)
        /\ ~ D!IsSession(first) => u1.weekly = D!CodexWindow(first)
    BY <1>2, NoUsageIs, WithWindowIs
  <2> HIDE DEF u1
  <2>2. /\ Whole(u2)
        /\ u2.session = IF D!IsSession(second) THEN D!CodexWindow(second) ELSE u1.session
        /\ u2.weekly = IF D!IsSession(second) THEN u1.weekly ELSE D!CodexWindow(second)
    BY <1>2, <2>1, WithWindowIs
  <2> HIDE DEF u2
  <2> QED BY <1>2, <2>1, <2>2
<1>5. /\ u.session = D!CodexWindow(w) /\ u.weekly.pct = D!NormalisePct(account.weekly)
      /\ u.limit_reached = CASE v = None -> "unknown" [] v = TRUE -> "reached" [] v = FALSE -> "clear"
  <2> DEFINE verdict == CASE v = None -> "unknown" [] v = TRUE -> "reached" [] v = FALSE -> "clear"
             inner == D!ScopedWindows(body.rate_limit.additional)
             extra == IF inner # <<>> THEN inner ELSE D!ScopedWindows(body.additional)
             x == [u2 EXCEPT !.limit_reached = verdict]
  <2>1. u = [u2 EXCEPT !.limit_reached = verdict, !.scoped = extra]  BY DEF D!CodexUsage
  <2>2. u = [x EXCEPT !.scoped = extra]  BY <2>1
  <2> HIDE DEF u2, verdict, extra, u
  <2>3. x = [limit_reached |-> verdict, session |-> u2.session, weekly |-> u2.weekly, scoped |-> u2.scoped]
    BY <1>4 DEF Whole
  <2> HIDE DEF x
  <2>4. u.session = u2.session /\ u.weekly = u2.weekly /\ u.limit_reached = verdict  BY <2>2, <2>3
  <2> QED BY <1>4, <2>4 DEF verdict
<1>6. /\ u.limit_reached = "reached" => account.cut
      /\ u.limit_reached = "clear" => ~ account.cut
  <2> HIDE DEF u, v
  <2>1. account.cut \in BOOLEAN /\ None # TRUE /\ None # FALSE  BY ReadingsAssumption DEF Accounts
  <2>2. CASE v = None  BY <1>5, <2>1, <2>2
  <2>3. CASE v = account.cut /\ account.cut  BY <1>5, <2>1, <2>3
  <2>4. CASE v = account.cut /\ ~ account.cut  BY <1>5, <2>1, <2>4
  <2> QED BY <1>1, <2>2, <2>3, <2>4
<1> HIDE DEF u
<1>7. /\ u.session.pct = D!NormalisePct(account.session) /\ u.session.resets_at = D!CodexReset(w)
      /\ D!CodexReset(w) # None => u.session.started_at = D!CodexReset(w) - D!SessionWidth
  <2>1. u.session = D!Window(D!NormalisePct(account.session), D!CodexReset(w), D!SessionWidth)
    BY <1>3, <1>5, WindowsAre
  <2> QED BY <2>1, ReadingsAssumption DEF D!Window, D!StartedAt, D!SessionWidth
<1> QED BY <1>5, <1>6, <1>7 DEF Understood

LEMMA HeaderWindows ==
  ASSUME account \in Accounts, NEW windows \in D!HeaderSets, NEW w \in windows
  PROVE  w.status \in {"rejected", "allowed", "other"} /\ w.resets_at \in Int \cup {None}
<1> DEFINE Header(x) == x.status \in {"rejected", "allowed", "other"} /\ x.resets_at \in Int \cup {None}
           Status(pct) == IF pct >= 100 THEN {"rejected"} ELSE {"allowed"}
           Set(id, pct, at) == [id : {id}, status : Status(pct) \cup {"other"}, resets_at : {at, None}]
<1>1. ASSUME NEW id, NEW pct, NEW at \in Int, NEW x \in Set(id, pct, at)  PROVE Header(x)
  OBVIOUS
<1>2. /\ \A x \in Set("5h", account.session, D!SessionReset) : Header(x)
      /\ \A x \in Set("7d", account.weekly, D!WeeklyReset) : Header(x)
  <2>1. D!SessionReset \in Int /\ D!WeeklyReset \in Int  BY DEF D!SessionReset, D!WeeklyReset
  <2> HIDE DEF Set, Header
  <2> QED BY <1>1, <2>1
<1>3. /\ Header([id |-> "overall", status |-> "rejected", resets_at |-> None])
      /\ \A at \in {D!WeeklyReset, None} : Header([id |-> "7d_oi", status |-> "rejected", resets_at |-> at])
  BY DEF D!WeeklyReset
<1>4. \/ \E s \in Set("5h", account.session, D!SessionReset), x \in Set("7d", account.weekly, D!WeeklyReset) :
           windows = {s, x}
      \/ \E s \in Set("5h", account.session, D!SessionReset) :
           windows = {s, [id |-> "overall", status |-> "rejected", resets_at |-> None]}
      \/ \E at \in {D!WeeklyReset, None} : windows = {[id |-> "7d_oi", status |-> "rejected", resets_at |-> at]}
  BY DEF D!HeaderSets
<1>5. Header(w)
  <2> HIDE DEF Set, Header
  <2> QED BY <1>2, <1>3, <1>4
<1> QED BY <1>5

LEMMA HeadersUnderstood ==
  ASSUME account \in Accounts, NEW windows \in D!HeaderSets, D!HeaderUsage(windows) # None
  PROVE  Understood(D!HeaderUsage(windows), [kind |-> "headers", account |-> account, said |-> windows])
<1> DEFINE u == D!HeaderUsage(windows)
           rejected == \E w \in windows : w.status = "rejected"
<1> SUFFICES Understood(u, [kind |-> "headers", account |-> account, said |-> windows])
  OBVIOUS
<1>1. \A w \in windows : w.status \in {"rejected", "allowed", "other"} /\ w.resets_at \in Int \cup {None}
  BY HeaderWindows
<1>2. /\ u.limit_reached = D!LimitReached(windows)
      /\ u.session = D!BuiltFor(windows, "5h") /\ u.weekly = D!BuiltFor(windows, "7d")
  BY DEF D!HeaderUsage
<1>3. /\ D!LimitReached(windows) = "reached" <=> rejected
      /\ D!LimitReached(windows) = "clear" => \E w \in windows : w.status = "allowed"
  BY <1>1 DEF D!LimitReached
<1>4. ASSUME ~ rejected, NEW id  PROVE D!BuiltFor(windows, id) = None \/ D!BuiltFor(windows, id).pct = 0
  <2> DEFINE of == {w \in windows : w.id = id}
             w == CHOOSE x \in of : TRUE
  <2>1. CASE of = {}  BY <2>1 DEF D!BuiltFor
  <2>2. CASE of # {}
    <3>1. w \in of  BY <2>2
    <3>2. w.status # "rejected"  BY <1>4, <3>1
    <3>3. D!BuiltFor(windows, id) = D!Built(w)  BY <2>2 DEF D!BuiltFor
    <3> HIDE DEF w
    <3>4. D!Built(w) = None \/ D!Built(w).pct = 0  BY <3>2 DEF D!Built, D!Window
    <3> QED BY <3>3, <3>4
  <2> QED BY <2>1, <2>2
<1> HIDE DEF u
<1>5. D!Exhausted(u) <=> rejected
  <2>1. CASE rejected
    <3>1. u.limit_reached = "reached"  BY <1>2, <1>3, <2>1
    <3> QED BY <2>1, <3>1 DEF D!Exhausted, D!Allowance!IsExhausted
  <2>2. CASE ~ rejected
    <3>1. u.limit_reached # "reached"  BY <1>2, <1>3, <2>2
    <3>2. D!Allowance!WindowPct(u.session) = 0 /\ D!Allowance!WindowPct(u.weekly) = 0
      BY <1>2, <1>4, <2>2 DEF D!Allowance!WindowPct
    <3>3. D!Allowance!EffectivePct(u) = 0  BY <3>2 DEF D!Allowance!EffectivePct
    <3>4. ~ (D!Allowance!EffectivePct(u) >= 100)  BY <3>3
    <3> QED BY <2>2, <3>1, <3>4 DEF D!Exhausted, D!Allowance!IsExhausted
  <2> QED BY <2>1, <2>2
<1> HIDE DEF rejected
<1>6. u.limit_reached = "clear" => \E w \in windows : w.status = "allowed"  BY <1>2, <1>3
<1> QED BY <1>5, <1>6 DEF Understood, rejected

ReadingsInv ==
  focus = "readings" => account \in Accounts /\ Understood(reading, heard)

LEMMA ReadingsStart == focus = "readings" /\ D!Init => ReadingsInv
BY ReadingsAssumption DEF D!Init, ReadingsInv, Accounts, Understood

LEMMA ReadingsSteps ==
  ASSUME account \in Accounts, Understood(reading, heard), D!Next
  PROVE  account' \in Accounts /\ Understood(reading', heard')
<1>1. CASE D!PollClaude
  <2>1. PICK body \in D!ClaudeBodies :
          D!Stored(D!ClaudeUsage(body), "body",
                   D!Instant(IF body.limits # <<>> THEN body.limits[1].resets_at
                             ELSE body.five_hour.resets_at))
    BY <1>1 DEF D!PollClaude
  <2> DEFINE at == IF body.limits # <<>> THEN body.limits[1].resets_at ELSE body.five_hour.resets_at
             u == D!ClaudeUsage(body)
             h == [kind |-> "body", account |-> account, said |-> D!Instant(at)]
  <2>2. reading' = u /\ heard' = h /\ account' = account  BY <2>1 DEF D!Stored
  <2>3. account.provider = "claude"  BY <1>1 DEF D!PollClaude
  <2>4. Understood(u, h)  BY <2>3, ClaudeBodyUnderstood
  <2> HIDE DEF u, h
  <2> QED BY <2>2, <2>4
<1>2. CASE D!PollCodex
  <2>1. PICK body \in D!CodexBodies :
          D!Stored(D!CodexUsage(body), "body",
                   D!CodexReset(IF body.rate_limit.primary.width = D!SessionWidth
                                THEN body.rate_limit.primary ELSE body.rate_limit.secondary))
    BY <1>2 DEF D!PollCodex
  <2> DEFINE w == IF body.rate_limit.primary.width = D!SessionWidth
                  THEN body.rate_limit.primary ELSE body.rate_limit.secondary
             u == D!CodexUsage(body)
             h == [kind |-> "body", account |-> account, said |-> D!CodexReset(w)]
  <2>2. reading' = u /\ heard' = h /\ account' = account  BY <2>1 DEF D!Stored
  <2>3. account.provider = "codex"  BY <1>2 DEF D!PollCodex
  <2>4. Understood(u, h)  BY <2>3, CodexBodyUnderstood
  <2> HIDE DEF u, h
  <2> QED BY <2>2, <2>4
<1>3. CASE D!PollFails
  <2>1. reading' = None /\ account' = account  BY <1>3 DEF D!PollFails
  <2> QED BY <2>1 DEF Understood
<1>4. CASE D!Observe
  <2>1. PICK windows \in D!HeaderSets :
          /\ D!HeaderUsage(windows) # None /\ reading' = D!HeaderUsage(windows)
          /\ heard' = [kind |-> "headers", account |-> account, said |-> windows]
    BY <1>4 DEF D!Observe
  <2> DEFINE u == D!HeaderUsage(windows)
             h == [kind |-> "headers", account |-> account, said |-> windows]
  <2>2. account' = account  BY <1>4 DEF D!Observe
  <2>3. Understood(u, h)  BY <2>1, HeadersUnderstood
  <2>4. reading' = u /\ heard' = h  BY <2>1
  <2> HIDE DEF u, h
  <2> QED BY <2>2, <2>3, <2>4
<1>5. CASE D!Change
  <2>1. reading' = reading /\ heard' = heard  BY <1>5 DEF D!Change
  <2>2. account' \in Accounts
    <3>1. PICK pct \in Percent \cup {0} : account' = [account EXCEPT !.session = pct]
      BY <1>5 DEF D!Change
    <3>2. pct \in Int  BY <3>1, ReadingsAssumption
    <3> QED BY <3>1, <3>2 DEF Accounts
  <2> QED BY <2>1, <2>2
<1> QED BY <1>1, <1>2, <1>3, <1>4, <1>5 DEF D!Next

\* However Claude and Codex put an account's figures down - by list or by pair,
\* primary or secondary, with an absolute reset, a relative one or none - a body
\* is read as they were meant, and headers cut an account off exactly when they
\* reject one of its windows.  For all percentages.
THEOREM ReadingsAreHonest == PartsSpec => []ReadingIsHonest
<1>1. PartsInit => ReadingsInv
  BY ReadingsStart DEF PartsInit, ReadingsInv
<1>2. ReadingsInv /\ [PartsNext]_partsVars => ReadingsInv'
  <2> SUFFICES ASSUME ReadingsInv, [PartsNext]_partsVars, focus' = "readings"
               PROVE  account' \in Accounts /\ Understood(reading', heard')
    BY DEF ReadingsInv
  <2>1. CASE focus = "readings" /\ D!Next
    BY <2>1, ReadingsSteps DEF ReadingsInv
  <2>2. CASE focus = "readings" /\ UNCHANGED readingVars
    <3>1. account' = account /\ reading' = reading /\ heard' = heard  BY <2>2 DEF readingVars
    <3> QED BY <2>2, <3>1 DEF ReadingsInv
  <2>3. (focus = "readings" /\ D!Next) \/ (focus = "readings" /\ UNCHANGED readingVars)
    BY DEF PartsNext, partsVars
  <2> QED BY <2>1, <2>2, <2>3
<1>3. ReadingsInv => ReadingIsHonest
  BY DEF ReadingsInv, ReadingIsHonest, D!ReadingIsHonest, Understood
<1> QED BY <1>1, <1>2, <1>3, PTL DEF PartsSpec

----------------------------------------------------------------------------
(* Requests. *)

\* The positions of `models` segments with something after them.
ModelsAt(path) == {i \in DOMAIN path : path[i] = "models" /\ i < Len(path)}
FirstOf(T) == CHOOSE i \in T : \A j \in T : i <= j

LEMMA FirstIs ==
  ASSUME NEW T \in SUBSET Nat, NEW i \in T, \A j \in T : i <= j
  PROVE  FirstOf(T) = i
<1>1. FirstOf(T) \in T /\ \A j \in T : FirstOf(T) <= j  BY DEF FirstOf
<1>2. FirstOf(T) \in Nat /\ i \in Nat /\ FirstOf(T) <= i /\ i <= FirstOf(T)  BY <1>1
<1> QED BY <1>2

LEMMA FirstExists ==
  ASSUME NEW T \in SUBSET Nat, T # {}
  PROVE  FirstOf(T) \in T /\ \A j \in T : FirstOf(T) <= j
BY LeastNatural DEF FirstOf

\* A path under the base URL of a pool is two segments further on.
LEMMA Shifted ==
  ASSUME NEW T, NEW p \in Seq(T), NEW a \in T, NEW b \in T, NEW w, w = <<a, b>> \o p
  PROVE  /\ w \in Seq(T) /\ Len(w) = Len(p) + 2 /\ w[1] = a /\ w[2] = b
         /\ \A i \in 1..Len(p) : w[i + 2] = p[i]
         /\ \A n \in Nat : SubSeq(w, n + 3, Len(w)) = SubSeq(p, n + 1, Len(p))
<1>1. /\ w \in Seq(T) /\ Len(w) = Len(p) + 2 /\ w[1] = a /\ w[2] = b
      /\ \A i \in 1..Len(p) : w[i + 2] = p[i]
  OBVIOUS
<1>2. ASSUME NEW n \in Nat  PROVE SubSeq(w, n + 3, Len(w)) = SubSeq(p, n + 1, Len(p))
  <2> DEFINE l == Len(p)
  <2>1. l \in Nat /\ n + 3 \in Nat /\ n + 1 \in Nat  OBVIOUS
  <2>2. SubSeq(w, n + 3, l + 2) = [i \in 1..((1 + (l + 2)) - (n + 3)) |-> w[((n + 3) + i) - 1]]
    BY <1>1, <2>1
  <2>3. SubSeq(p, n + 1, l) = [i \in 1..((1 + l) - (n + 1)) |-> p[((n + 1) + i) - 1]]
    BY <2>1
  <2>4. (1 + (l + 2)) - (n + 3) = (1 + l) - (n + 1)  BY <2>1
  <2>5. \A i \in 1..((1 + l) - (n + 1)) : w[((n + 3) + i) - 1] = p[((n + 1) + i) - 1]
    <3> SUFFICES ASSUME NEW i \in 1..((1 + l) - (n + 1))
                 PROVE  w[((n + 3) + i) - 1] = p[((n + 1) + i) - 1]
      OBVIOUS
    <3>1. n + i \in 1..l /\ ((n + 3) + i) - 1 = (n + i) + 2 /\ ((n + 1) + i) - 1 = n + i
      BY <2>1
    <3>2. w[(n + i) + 2] = p[n + i]  BY <1>1, <3>1
    <3> QED BY <3>1, <3>2
  <2> QED BY <1>1, <2>2, <2>3, <2>4, <2>5
<1> QED BY <1>1, <1>2

LEMMA ModelIs ==
  ASSUME NEW T, NEW p \in Seq(T)
  PROVE  Q!ModelFromPath(p) =
           IF ModelsAt(p) = {} THEN None ELSE SubSeq(p, FirstOf(ModelsAt(p)) + 1, Len(p))
BY DEF Q!ModelFromPath, ModelsAt, FirstOf

LEMMA ModelUnderPool ==
  ASSUME NEW T, NEW p \in Seq(T), NEW a \in T, NEW b \in T, a # "models", b # "models"
  PROVE  Q!ModelFromPath(<<a, b>> \o p) = Q!ModelFromPath(p)
<1> DEFINE w == <<a, b>> \o p
           W1 == ModelsAt(w)
           P1 == ModelsAt(p)
<1>1. /\ w \in Seq(T) /\ Len(w) = Len(p) + 2 /\ w[1] = a /\ w[2] = b
      /\ \A i \in 1..Len(p) : w[i + 2] = p[i]
      /\ \A n \in Nat : SubSeq(w, n + 3, Len(w)) = SubSeq(p, n + 1, Len(p))
  BY Shifted
<1>2. Q!ModelFromPath(w) = IF W1 = {} THEN None ELSE SubSeq(w, FirstOf(W1) + 1, Len(w))
  BY <1>1, ModelIs
<1>3. Q!ModelFromPath(p) = IF P1 = {} THEN None ELSE SubSeq(p, FirstOf(P1) + 1, Len(p))
  BY ModelIs
<1>4. P1 \in SUBSET Nat /\ W1 \in SUBSET Nat /\ Len(p) \in Nat
  BY <1>1 DEF ModelsAt
<1>5. \A i \in P1 : i + 2 \in W1
  BY <1>1, <1>4 DEF ModelsAt
<1>6. \A i \in W1 : i - 2 \in P1
  <2> SUFFICES ASSUME NEW i \in W1  PROVE i - 2 \in P1
    OBVIOUS
  <2>1. i \in 1..(Len(p) + 2) /\ w[i] = "models" /\ i < Len(p) + 2  BY <1>1 DEF ModelsAt
  <2>2. i # 1 /\ i # 2  BY <1>1, <2>1
  <2>3. i - 2 \in 1..Len(p) /\ (i - 2) + 2 = i  BY <1>4, <2>1, <2>2
  <2>4. p[i - 2] = "models"  BY <1>1, <2>1, <2>3
  <2> QED BY <1>4, <2>1, <2>3, <2>4 DEF ModelsAt
<1> HIDE DEF W1, P1
<1>7. CASE P1 = {}
  <2>1. W1 = {}  BY <1>6, <1>7
  <2> QED BY <1>2, <1>3, <1>7, <2>1
<1>8. CASE P1 # {}
  <2> DEFINE f == FirstOf(P1)
  <2>1. f \in P1 /\ \A j \in P1 : f <= j  BY <1>4, <1>8, FirstExists
  <2>2. f \in Nat /\ f + 2 \in W1  BY <1>4, <1>5, <2>1
  <2>3. \A j \in W1 : f + 2 <= j
    <3> SUFFICES ASSUME NEW j \in W1  PROVE f + 2 <= j
      OBVIOUS
    <3>1. f <= j - 2  BY <1>6, <2>1
    <3> QED BY <1>4, <2>2, <3>1
  <2>4. FirstOf(W1) = f + 2  BY <1>4, <2>2, <2>3, FirstIs
  <2>5. SubSeq(w, (f + 2) + 1, Len(w)) = SubSeq(p, f + 1, Len(p))
    <3>1. (f + 2) + 1 = f + 3  BY <2>2
    <3> HIDE DEF f, w
    <3> QED BY <1>1, <2>2, <3>1
  <2>6. W1 # {}  BY <2>2
  <2> QED BY <1>2, <1>3, <1>8, <2>4, <2>5, <2>6
<1> QED BY <1>7, <1>8

LEMMA PathIs ==
  ASSUME RequestsAssumption, NEW p \in Paths
  PROVE  p \in Seq(Segments) /\ "pool" \in Segments /\ (p # <<>> => p[1] # "pool")
BY Zenon DEF RequestsAssumption, Segments

\* A bare path is in no pool, and one under a pool names the model it names bare.
LEMMA BareSegments ==
  ASSUME NEW T, NEW p \in Seq(T), p # <<>> => p[1] # "pool"
  PROVE  Q!PoolFromPath(p) = None
<1>1. Len(p) >= 2 => p # <<>>  OBVIOUS
<1> QED BY <1>1 DEF Q!PoolFromPath

LEMMA BarePath ==
  ASSUME RequestsAssumption, NEW p \in Paths
  PROVE  Q!PoolFromPath(p) = None
BY PathIs, BareSegments, Zenon

LEMMA LongerByTwo ==
  ASSUME NEW T, NEW p \in Seq(T), NEW a \in T, NEW b \in T
  PROVE  Len(<<a, b>> \o p) >= 2 /\ (<<a, b>> \o p)[1] = a /\ (<<a, b>> \o p)[2] = b
OBVIOUS

PoolSegment == "pool"
NoName == ""

LEMMA PoolNamed ==
  ASSUME NEW w, NEW b, Len(w) >= 2, w[1] = PoolSegment, w[2] = b, b # NoName
  PROVE  Q!PoolFromPath(w) = b
BY DEF Q!PoolFromPath, PoolSegment, NoName

LEMMA NotModels == PoolSegment # "models"
BY DEF PoolSegment

LEMMA UnderPool ==
  ASSUME NEW T, NEW p \in Seq(T), PoolSegment \in T, NEW b \in T, b # NoName
  PROVE  /\ Q!PoolFromPath(<<PoolSegment, b>> \o p) = b
         /\ b # "models" => Q!ModelFromPath(<<PoolSegment, b>> \o p) = Q!ModelFromPath(p)
<1> DEFINE w == <<PoolSegment, b>> \o p
<1>1. Len(w) >= 2 /\ w[1] = PoolSegment /\ w[2] = b  BY LongerByTwo
<1>2. Q!PoolFromPath(w) = b
  <2> HIDE DEF w
  <2> QED BY <1>1, PoolNamed
<1>3. b # "models" => Q!ModelFromPath(w) = Q!ModelFromPath(p)  BY NotModels, ModelUnderPool
<1> QED BY <1>2, <1>3

LEMMA PoolPath ==
  ASSUME RequestsAssumption, NEW p \in Paths, NEW pool \in PoolNames
  PROVE  /\ Q!PoolFromPath(<<"pool", pool>> \o p) = pool
         /\ pool # "models" => Q!ModelFromPath(<<"pool", pool>> \o p) = Q!ModelFromPath(p)
<1>1. p \in Seq(Segments) /\ PoolSegment \in Segments  BY PathIs, Zenon DEF PoolSegment
<1>2. pool \in Segments  BY DEF Segments
<1>3. pool # NoName  BY DEF RequestsAssumption, NoName
<1>4. /\ Q!PoolFromPath(<<PoolSegment, pool>> \o p) = pool
      /\ pool # "models" => Q!ModelFromPath(<<PoolSegment, pool>> \o p) = Q!ModelFromPath(p)
  BY <1>1, <1>2, <1>3, UnderPool, Zenon
<1> QED BY <1>4, Zenon DEF PoolSegment

\* Blocks that say the identity.
Identity == "identity"
Identities == {"identity", "bare identity"}

IdentitiesAt(blocks) == {i \in DOMAIN blocks : blocks[i] \in Identities}

LEMMA SameSelected == ASSUME NEW s, NEW good PROVE Q!Selected(s, good) = Selected(s, good)
BY DEF Q!Selected, Selected

LEMMA IdentityIn == Identity \in Identities
BY DEF Identity, Identities

\* A first of the positions, whatever the order of the rest.
LEMMA FirstIn ==
  ASSUME NEW s, NEW n \in Nat, DOMAIN s = 1..n, IdentitiesAt(s) # {}
  PROVE  FirstOf(IdentitiesAt(s)) \in 1..n /\ s[FirstOf(IdentitiesAt(s))] \in Identities
<1>1. IdentitiesAt(s) \in SUBSET Nat  BY DEF IdentitiesAt
<1>2. FirstOf(IdentitiesAt(s)) \in IdentitiesAt(s)  BY <1>1, FirstExists
<1> QED BY <1>2 DEF IdentitiesAt

LEMMA OthersAre ==
  ASSUME NEW T, NEW s \in Seq(T)
  PROVE  Q!Others(s) = Selected(s, T \ Identities)
<1> DEFINE good == {s[i] : i \in DOMAIN s} \ Identities
<1>1. \A i \in 1..Len(s) : s[i] \in good <=> s[i] \in T \ Identities  OBVIOUS
<1>2. Selected(s, good) = Selected(s, T \ Identities)
  <2> HIDE DEF good
  <2> QED BY <1>1, SelectedSame
<1>3. Q!Others(s) = Selected(s, good)  BY SameSelected DEF Q!Others, Identities
<1> QED BY <1>2, <1>3

LEMMA Prefixed ==
  ASSUME NEW T, NEW a \in T, NEW v \in Seq(T)
  PROVE  /\ <<a>> \o v \in Seq(T) /\ Len(<<a>> \o v) = 1 + Len(v) /\ (<<a>> \o v)[1] = a
         /\ \A j \in 1..Len(v) : (<<a>> \o v)[j + 1] = v[j]
OBVIOUS

LEMMA FirstMoved ==
  ASSUME NEW T, NEW b \in Seq(T), NEW i \in 1..Len(b)
  PROVE  /\ SubSeq(b, 1, i - 1) \in Seq(T) /\ SubSeq(b, i + 1, Len(b)) \in Seq(T)
         /\ <<b[i]>> \in Seq(T)
         /\ b = SubSeq(b, 1, i - 1) \o (<<b[i]>> \o SubSeq(b, i + 1, Len(b)))
<1> DEFINE u == SubSeq(b, 1, i - 1)
           v == SubSeq(b, i + 1, Len(b))
           x == <<b[i]>>
<1>1. Len(b) \in Nat /\ i \in Nat /\ i >= 1 /\ i <= Len(b) /\ b[i] \in T  OBVIOUS
<1>2. u \in Seq(T) /\ Len(u) = i - 1 /\ \A j \in 1..(i - 1) : u[j] = b[j]
  BY <1>1
<1>3. v \in Seq(T) /\ Len(v) = Len(b) - i /\ \A j \in 1..(Len(b) - i) : v[j] = b[i + j]
  BY <1>1
<1>4. x \in Seq(T) /\ Len(x) = 1 /\ x[1] = b[i]  BY <1>1
<1> HIDE DEF u, v, x
<1>5. x \o v \in Seq(T) /\ Len(x \o v) = 1 + (Len(b) - i) /\ (x \o v)[1] = b[i]
      /\ \A j \in 1..(Len(b) - i) : (x \o v)[j + 1] = b[i + j]
  <2>1. /\ <<b[i]>> \o v \in Seq(T) /\ Len(<<b[i]>> \o v) = 1 + Len(v) /\ (<<b[i]>> \o v)[1] = b[i]
        /\ \A j \in 1..Len(v) : (<<b[i]>> \o v)[j + 1] = v[j]
    <3>1. b[i] \in T  BY <1>1
    <3>2. v \in Seq(T)  BY <1>3
    <3> QED BY <3>1, <3>2, Prefixed
  <2> DEFINE z == <<b[i]>> \o v
  <2> HIDE DEF z
  <2>2. /\ z \in Seq(T) /\ Len(z) = 1 + (Len(b) - i) /\ z[1] = b[i]
        /\ \A j \in 1..(Len(b) - i) : z[j + 1] = b[i + j]
    BY <1>3, <2>1, Zenon DEF z
  <2> QED BY <2>2, Zenon DEF z, x
<1> DEFINE y == x \o v
<1> HIDE DEF y
<1>6. y \in Seq(T) /\ Len(y) = 1 + (Len(b) - i) /\ y[1] = b[i]
      /\ \A j \in 1..(Len(b) - i) : y[j + 1] = b[i + j]
  BY <1>5 DEF y
<1>7. Len(u \o y) = Len(b) /\ u \o y \in Seq(T)  BY <1>1, <1>2, <1>6
<1>8. ASSUME NEW j \in 1..Len(b)  PROVE (u \o y)[j] = b[j]
  <2>1. CASE j <= i - 1  BY <1>1, <1>2, <1>6, <2>1
  <2>2. CASE j = i
    <3>1. (u \o y)[j] = y[j - (i - 1)]  BY <1>1, <1>2, <1>6, <2>2
    <3> QED BY <1>1, <1>6, <2>2, <3>1
  <2>3. CASE j > i
    <3>1. (u \o y)[j] = y[j - (i - 1)]  BY <1>1, <1>2, <1>6, <2>3
    <3>2. j - i \in 1..(Len(b) - i) /\ j - (i - 1) = (j - i) + 1 /\ i + (j - i) = j  BY <1>1, <2>3
    <3> QED BY <1>6, <3>1, <3>2
  <2>4. j <= i - 1 \/ j = i \/ j > i  BY <1>1
  <2> QED BY <2>1, <2>2, <2>3, <2>4, Zenon
<1>9. b = u \o y
  <2> DEFINE w == u \o y
  <2>1. w \in Seq(T) /\ Len(w) = Len(b) /\ \A j \in 1..Len(b) : w[j] = b[j]  BY <1>7, <1>8
  <2> HIDE DEF w
  <2>2. b = w  BY <2>1
  <2> QED BY <2>2 DEF w
<1> QED BY <1>2, <1>3, <1>4, <1>9 DEF u, v, x, y

\* SelectedConcat, of two sequences.
Splits(s, t, good) == Selected(s \o t, good) = Selected(s, good) \o Selected(t, good)

LEMMA Splitting ==
  ASSUME NEW T, NEW s \in Seq(T), NEW t \in Seq(T), NEW good
  PROVE  Splits(s, t, good)
BY SelectedConcat DEF Splits

LEMMA SelectedMoved ==
  ASSUME NEW T, NEW b \in Seq(T), NEW i \in 1..Len(b), NEW good, b[i] \notin good
  PROVE  Selected(<<b[i]>> \o (SubSeq(b, 1, i - 1) \o SubSeq(b, i + 1, Len(b))), good) = Selected(b, good)
<1> DEFINE u == SubSeq(b, 1, i - 1)
           v == SubSeq(b, i + 1, Len(b))
           x == <<b[i]>>
<1>1. u \in Seq(T) /\ v \in Seq(T) /\ x \in Seq(T) /\ b = u \o (x \o v)  BY FirstMoved
<1>2. Selected(x, good) = <<>>
  <2>1. \A k \in 1..Len(x) : x[k] \notin good  OBVIOUS
  <2> HIDE DEF x
  <2> QED BY <1>1, <2>1, SelectedNone
<1> HIDE DEF u, v, x
<1>3. Selected(u, good) \in Seq(T) /\ Selected(v, good) \in Seq(T)  BY <1>1, SelectedType
<1>4. u \in Seq(T) /\ v \in Seq(T) /\ x \in Seq(T)  BY <1>1
<1>5. u \o v \in Seq(T) /\ x \o v \in Seq(T)  BY <1>4
<1> DEFINE p == u \o v
           q == x \o v
<1> HIDE DEF p, q
<1>6. p \in Seq(T) /\ q \in Seq(T)  BY <1>5 DEF p, q
<1>7. Splits(x, p, good) /\ Splits(u, v, good) /\ Splits(u, q, good) /\ Splits(x, v, good)
  BY <1>4, <1>6, Splitting
<1>8. <<>> \o Selected(v, good) = Selected(v, good)
      /\ <<>> \o (Selected(u, good) \o Selected(v, good)) = Selected(u, good) \o Selected(v, good)
  BY <1>3
<1>9. Selected(x \o (u \o v), good) = Selected(u, good) \o Selected(v, good)
  BY <1>2, <1>7, <1>8, Zenon DEF Splits, p
<1>10. Selected(u \o (x \o v), good) = Selected(u, good) \o Selected(v, good)
  BY <1>2, <1>7, <1>8, Zenon DEF Splits, q
<1> QED BY <1>1, <1>9, <1>10, Zenon DEF u, v, x

\* What ensure_identity_first makes of a list of blocks.
Firsted(b) ==
  IF IdentitiesAt(b) = {} THEN <<Identity>> \o b
  ELSE <<b[FirstOf(IdentitiesAt(b))]>> \o
         (SubSeq(b, 1, FirstOf(IdentitiesAt(b)) - 1)
           \o SubSeq(b, FirstOf(IdentitiesAt(b)) + 1, Len(b)))

LEMMA FirstedIs ==
  ASSUME NEW system
  PROVE  Q!IdentityFirst(system) = Firsted(Q!Blocks(system))
BY Zenon DEF Q!IdentityFirst, Q!IsIdentityBlock, Q!RemoveAt, Firsted, FirstOf, IdentitiesAt, Identity,
             Identities

LEMMA FirstedOthers ==
  ASSUME NEW T, NEW b \in Seq(T), Identity \in T
  PROVE  /\ Firsted(b) \in Seq(T) /\ Firsted(b) # <<>> /\ Head(Firsted(b)) \in Identities
         /\ Selected(Firsted(b), T \ Identities) = Selected(b, T \ Identities)
<1> DEFINE good == T \ Identities
           at == IdentitiesAt(b)
           i == FirstOf(at)
<1>0. DOMAIN b = 1..Len(b) /\ Len(b) \in Nat  OBVIOUS
<1>1. CASE at = {}
  <2> DEFINE x == <<Identity>>
  <2>1. x \in Seq(T) /\ Len(x) = 1 /\ x[1] = Identity  OBVIOUS
  <2>2. \A k \in 1..Len(x) : x[k] \notin good  BY IdentityIn
  <2> HIDE DEF x
  <2>3. Selected(x, good) = <<>>  BY <2>1, <2>2, SelectedNone
  <2>4. Splits(x, b, good)  BY <2>1, Splitting
  <2>5. Selected(b, good) \in Seq(T)  BY SelectedType
  <2>6. <<>> \o Selected(b, good) = Selected(b, good)  BY <2>5
  <2>7. Selected(x \o b, good) = Selected(b, good)  BY <2>3, <2>4, <2>6, Zenon DEF Splits
  <2>8. x \o b \in Seq(T) /\ x \o b # <<>> /\ Head(x \o b) = Identity
    <3> DEFINE z == <<Identity>> \o b
    <3>1. z \in Seq(T) /\ Len(z) = 1 + Len(b) /\ z[1] = Identity  BY Prefixed
    <3> HIDE DEF z
    <3>2. z \in Seq(T) /\ z # <<>> /\ Head(z) = Identity  BY <1>0, <3>1
    <3> QED BY <3>2, Zenon DEF x, z
  <2>9. Firsted(b) = x \o b  BY <1>1, Zenon DEF Firsted, x
  <2> QED BY <2>7, <2>8, <2>9, IdentityIn, Zenon
<1>2. CASE at # {}
  <2>1. i \in 1..Len(b) /\ b[i] \in Identities  BY <1>0, <1>2, FirstIn
  <2> HIDE DEF at, i
  <2> DEFINE u == SubSeq(b, 1, i - 1)
             v == SubSeq(b, i + 1, Len(b))
             x == <<b[i]>>
  <2>2. u \in Seq(T) /\ v \in Seq(T) /\ x \in Seq(T)  BY <2>1, FirstMoved
  <2>3. Selected(x \o (u \o v), good) = Selected(b, good)
    <3>1. b[i] \notin good  BY <2>1
    <3> QED BY <2>1, <3>1, SelectedMoved
  <2>4. Firsted(b) = x \o (u \o v)  BY <1>2, Zenon DEF Firsted, at, i
  <2>5. Len(x) = 1 /\ x[1] = b[i]  OBVIOUS
  <2> HIDE DEF u, v, x
  <2>6. u \o v \in Seq(T)  BY <2>2
  <2> DEFINE p == u \o v
  <2>7. x \o p \in Seq(T) /\ x \o p # <<>> /\ Head(x \o p) = b[i]
    <3> HIDE DEF p
    <3>1. p \in Seq(T) /\ b[i] \in T  BY <2>1, <2>6 DEF p
    <3> DEFINE z == <<b[i]>> \o p
    <3>2. z \in Seq(T) /\ Len(z) = 1 + Len(p) /\ z[1] = b[i]  BY <3>1, Prefixed
    <3> HIDE DEF z
    <3>3. Len(p) \in Nat  BY <3>1
    <3>4. z \in Seq(T) /\ z # <<>> /\ Head(z) = b[i]  BY <3>2, <3>3
    <3> QED BY <3>4, Zenon DEF x, z
  <2> QED BY <2>1, <2>3, <2>4, <2>7, Zenon
<1> QED BY <1>1, <1>2

\* A list that begins with the identity is left as it is.
LEMMA FirstedAgain ==
  ASSUME NEW T, NEW b \in Seq(T), b # <<>>, Head(b) \in Identities
  PROVE  Firsted(b) = b
<1>0. DOMAIN b = 1..Len(b) /\ Len(b) \in Nat /\ Len(b) >= 1 /\ Head(b) = b[1]  OBVIOUS
<1>1. IdentitiesAt(b) \in SUBSET Nat /\ 1 \in IdentitiesAt(b) /\ \A j \in IdentitiesAt(b) : 1 <= j
  BY <1>0 DEF IdentitiesAt
<1>2. FirstOf(IdentitiesAt(b)) = 1  BY <1>1, FirstIs
<1>3. Firsted(b) = <<b[1]>> \o (SubSeq(b, 1, 1 - 1) \o SubSeq(b, 1 + 1, Len(b)))
  BY <1>1, <1>2, Zenon DEF Firsted
<1>4. SubSeq(b, 1, 1 - 1) \in Seq(T) /\ b = SubSeq(b, 1, 1 - 1) \o (<<b[1]>> \o SubSeq(b, 1 + 1, Len(b)))
  BY <1>0, FirstMoved
<1>5. SubSeq(b, 1, 1 - 1) = <<>>  BY <1>0
<1> DEFINE v == SubSeq(b, 1 + 1, Len(b))
           y == <<b[1]>> \o v
<1>6. v \in Seq(T)  BY <1>0
<1> HIDE DEF v
<1>7. <<>> \o v = v  BY <1>6
<1>8. y \in Seq(T)  BY <1>0, <1>6
<1> HIDE DEF y
<1>9. <<>> \o y = y  BY <1>8
<1>10. b = y  BY <1>4, <1>5, <1>9, Zenon DEF y, v
<1>11. Firsted(b) = y  BY <1>3, <1>5, <1>7, Zenon DEF y, v
<1> QED BY <1>10, <1>11

\* What becomes of the system prompt of a message.
LEMMA SystemIs ==
  ASSUME RequestsAssumption, NEW system \in Systems, NEW put, put = Q!IdentityFirst(system)
  PROVE  /\ Q!IsIdentityBlock(Head(put))
         /\ Q!Others(put) = Q!Others(Q!Blocks(system))
         /\ Q!IdentityFirst(put) = put
<1> DEFINE b == Q!Blocks(system)
           U == SystemBlocks
<1>1. b \in Seq(U)
  <2>1. system \in {None} \cup Seq(SystemBlocks)  BY DEF RequestsAssumption
  <2>2. CASE system = None
    <3>1. b = <<>>  BY <2>2, Zenon DEF Q!Blocks
    <3> HIDE DEF b
    <3> QED BY <3>1, EmptySeq
  <2>3. CASE system # None
    <3>1. b = system  BY <2>3, Zenon DEF Q!Blocks
    <3> QED BY <2>1, <2>3, <3>1, Zenon
  <2> QED BY <2>2, <2>3
<1>2. None \notin Seq(U)  BY DEF RequestsAssumption
<1>3. Identity \in U  BY DEF SystemBlocks, Identity
<1>4. put = Firsted(b)  BY FirstedIs
<1> HIDE DEF b, U
<1>5. /\ put \in Seq(U) /\ put # <<>> /\ Head(put) \in Identities
      /\ Selected(put, U \ Identities) = Selected(b, U \ Identities)
  BY <1>1, <1>3, <1>4, FirstedOthers, Zenon
<1>6. Q!Others(put) = Q!Others(b)
  <2>1. Q!Others(put) = Selected(put, U \ Identities)  BY <1>5, OthersAre
  <2>2. Q!Others(b) = Selected(b, U \ Identities)  BY <1>1, OthersAre
  <2> QED BY <1>5, <2>1, <2>2, Zenon
<1>7. Firsted(put) = put  BY <1>5, FirstedAgain, Zenon
<1>8. Q!Blocks(put) = put  BY <1>2, <1>5, Zenon DEF Q!Blocks
<1>9. Q!IdentityFirst(put) = put  BY <1>7, <1>8, FirstedIs, Zenon
<1> QED BY <1>5, <1>6, <1>9, Zenon DEF Q!IsIdentityBlock, Identities, b

\* What MergedBeta's recursion unfolds to.
Ours == "oauth"
Merges(F, t) ==
  F = [i \in 0..Len(t) |->
         IF i = 0 THEN <<Ours>>
         ELSE IF t[i] \in {NoName} \cup ToSet(F[i - 1]) THEN F[i - 1]
         ELSE Append(F[i - 1], t[i])]

LEMMA MergesExist ==
  ASSUME NEW T, NEW t \in Seq(T), Ours \in T
  PROVE  \E F : Merges(F, t)
<1> DEFINE n == Len(t)
           X == Seq(T)
           G == [p \in (1..n) \X X |->
                   IF t[p[1]] \in {NoName} \cup ToSet(p[2]) THEN p[2] ELSE Append(p[2], t[p[1]])]
           a == <<Ours>>
<1>1. n \in Nat /\ a \in X  OBVIOUS
<1>2. ASSUME NEW i \in 1..n, NEW x \in X
      PROVE  /\ G[<<i, x>>] = IF t[i] \in {NoName} \cup ToSet(x) THEN x ELSE Append(x, t[i])
             /\ G[<<i, x>>] \in X
  <2>1. <<i, x>> \in (1..n) \X X /\ <<i, x>>[1] = i /\ <<i, x>>[2] = x  OBVIOUS
  <2>2. G[<<i, x>>] = IF t[i] \in {NoName} \cup ToSet(x) THEN x ELSE Append(x, t[i])
    BY <2>1, Zenon
  <2>3. x \in X /\ Append(x, t[i]) \in X  OBVIOUS
  <2> QED BY <2>2, <2>3, Zenon
<1> HIDE DEF G, X, a, n
<1>3. Keeps(a, G, n, X)  BY <1>1, <1>2, Zenon DEF Keeps
<1>4. PICK F : Evolves(F, a, G, n, X)  BY <1>1, <1>3, RecursTyped
<1>5. F \in [0..n -> X] /\ F[0] = a /\ \A i \in 1..n : F[i] = G[<<i, F[i - 1]>>]
  BY <1>4, Zenon DEF Evolves
<1>6. ASSUME NEW i \in 0..n
      PROVE  F[i] = IF i = 0 THEN a ELSE IF t[i] \in {NoName} \cup ToSet(F[i - 1]) THEN F[i - 1]
                                         ELSE Append(F[i - 1], t[i])
  <2>1. CASE i = 0  BY <1>5, <2>1, Zenon
  <2>2. CASE i # 0
    <3>1. i \in 1..n /\ i - 1 \in 0..n  BY <1>1, <2>2
    <3>2. F[i - 1] \in X  BY <1>5, <3>1, Zenon
    <3>3. F[i] = G[<<i, F[i - 1]>>]  BY <1>5, <3>1, Zenon
    <3> QED BY <1>2, <2>2, <3>1, <3>2, <3>3, Zenon
  <2> QED BY <2>1, <2>2
<1>7. F = [i \in 0..n |-> F[i]]  BY <1>5, Zenon
<1>8. F = [i \in 0..n |-> IF i = 0 THEN a ELSE IF t[i] \in {NoName} \cup ToSet(F[i - 1]) THEN F[i - 1]
                                               ELSE Append(F[i - 1], t[i])]
  BY <1>6, <1>7, Zenon
<1> QED BY <1>8, Zenon DEF Merges, n, a

\* The first of the tokens x merges.
Merged(x, t, i) ==
  /\ Len(x) >= 1 /\ x[1] = Ours
  /\ \A j, k \in 1..Len(x) : x[j] = x[k] => j = k
  /\ \A v : (\E j \in 1..Len(x) : x[j] = v) <=> v = Ours \/ (v # NoName /\ \E j \in 1..i : t[j] = v)

LEMMA MergedOne ==
  ASSUME NEW T, NEW x \in Seq(T), NEW t, NEW i \in Nat, i >= 1, Merged(x, t, i - 1),
         t[i] = NoName \/ \E j \in 1..Len(x) : x[j] = t[i]
  PROVE  Merged(x, t, i)
<1>1. \A j : j \in 1..i <=> j \in 1..(i - 1) \/ j = i  OBVIOUS
<1>2. ASSUME NEW v  PROVE (\E j \in 1..Len(x) : x[j] = v) <=> v = Ours \/ (v # NoName /\ \E j \in 1..i : t[j] = v)
  <2>1. (\E j \in 1..Len(x) : x[j] = v) <=> v = Ours \/ (v # NoName /\ \E j \in 1..(i - 1) : t[j] = v)
    BY Zenon DEF Merged
  <2> QED BY <1>1, <2>1, Zenon
<1> QED BY <1>2, Zenon DEF Merged

LEMMA MergedMore ==
  ASSUME NEW T, NEW x \in Seq(T), NEW t, NEW i \in Nat, i >= 1, Merged(x, t, i - 1), t[i] \in T,
         t[i] # NoName, ~ \E j \in 1..Len(x) : x[j] = t[i]
  PROVE  Merged(Append(x, t[i]), t, i)
<1> DEFINE y == Append(x, t[i])
           n == Len(x)
<1>0. n \in Nat  OBVIOUS
<1>1. y \in Seq(T) /\ Len(y) = n + 1 /\ y[n + 1] = t[i] /\ \A j \in 1..n : y[j] = x[j]  OBVIOUS
<1> HIDE DEF y, n
<1>2. \A j : j \in 1..i <=> j \in 1..(i - 1) \/ j = i  OBVIOUS
<1>3. \A j : j \in 1..Len(y) <=> j \in 1..n \/ j = n + 1  BY <1>0, <1>1
<1>4. /\ n >= 1 /\ x[1] = Ours
      /\ \A j, k \in 1..n : x[j] = x[k] => j = k
      /\ \A v : (\E j \in 1..n : x[j] = v) <=> v = Ours \/ (v # NoName /\ \E j \in 1..(i - 1) : t[j] = v)
      /\ ~ \E j \in 1..n : x[j] = t[i]
  BY Zenon DEF Merged, n
<1>5. Len(y) >= 1 /\ y[1] = Ours  BY <1>0, <1>1, <1>4
<1>6. ASSUME NEW j \in 1..Len(y), NEW k \in 1..Len(y), y[j] = y[k]  PROVE j = k
  <2>1. CASE j \in 1..n /\ k \in 1..n  BY <1>1, <1>4, <1>6, <2>1, Zenon
  <2>2. CASE j = n + 1 /\ k = n + 1  BY <2>2
  <2>3. CASE j \in 1..n /\ k = n + 1  BY <1>1, <1>4, <1>6, <2>3, Zenon
  <2>4. CASE j = n + 1 /\ k \in 1..n  BY <1>1, <1>4, <1>6, <2>4, Zenon
  <2> QED BY <1>3, <2>1, <2>2, <2>3, <2>4, Zenon
<1>7. ASSUME NEW v  PROVE (\E j \in 1..Len(y) : y[j] = v) <=> v = Ours \/ (v # NoName /\ \E j \in 1..i : t[j] = v)
  <2>1. (\E j \in 1..Len(y) : y[j] = v) <=> (\E j \in 1..n : x[j] = v) \/ v = t[i]
    BY <1>1, <1>3, Zenon
  <2>2. (\E j \in 1..i : t[j] = v) <=> (\E j \in 1..(i - 1) : t[j] = v) \/ v = t[i]  BY <1>2, Zenon
  <2> QED BY <1>4, <2>1, <2>2, Zenon
<1> QED BY <1>5, <1>6, <1>7, Zenon DEF Merged, y

LEMMA MergesMerge ==
  ASSUME NEW T, NEW t \in Seq(T), Ours \in T, Ours # NoName, NEW F, Merges(F, t)
  PROVE  \A i \in 0..Len(t) : F[i] \in Seq(T) /\ Merged(F[i], t, i)
<1> DEFINE n == Len(t)
           S0 == {i \in Nat : F[i] \in Seq(T) /\ Merged(F[i], t, i)}
<1>0. n \in Nat  OBVIOUS
<1>1. \A i \in 0..n : F[i] = IF i = 0 THEN <<Ours>>
                             ELSE IF t[i] \in {NoName} \cup ToSet(F[i - 1]) THEN F[i - 1]
                             ELSE Append(F[i - 1], t[i])
  BY Zenon DEF Merges
<1>2. 0 \in S0
  <2>1. F[0] = <<Ours>>
    <3>1. 0 \in 0..n  BY <1>0
    <3> QED BY <1>1, <3>1, Zenon
  <2> DEFINE x == <<Ours>>
  <2>2. x \in Seq(T) /\ Len(x) = 1 /\ x[1] = Ours  OBVIOUS
  <2> HIDE DEF x
  <2>3. \A j : j \in 1..Len(x) <=> j = 1  BY <2>2
  <2>4. \A j : j \notin 1..0  OBVIOUS
  <2>5. Merged(x, t, 0)
    <3>1. Len(x) >= 1  BY <2>2
    <3>2. \A j, k \in 1..Len(x) : x[j] = x[k] => j = k
      <4> SUFFICES ASSUME NEW j \in 1..Len(x), NEW k \in 1..Len(x)  PROVE j = k
        OBVIOUS
      <4> QED BY <2>3
    <3>3. \A v : (\E j \in 1..Len(x) : x[j] = v) <=> v = Ours
      <4>1. 1 \in 1..Len(x)  BY <2>2
      <4> QED BY <2>2, <2>3, <4>1, Zenon
    <3> QED BY <2>2, <2>4, <3>1, <3>2, <3>3, Zenon DEF Merged
  <2> QED BY <2>1, <2>2, <2>5 DEF x
<1>3. ASSUME NEW i \in 1..n, i - 1 \in S0  PROVE i \in S0
  <2> DEFINE x == F[i - 1]
  <2>1. i \in Nat /\ i >= 1 /\ i \in 0..n /\ i # 0 /\ t[i] \in T  BY <1>0
  <2>2. x \in Seq(T) /\ Merged(x, t, i - 1)  BY <1>3
  <2>3. ToSet(x) = {x[j] : j \in 1..Len(x)}  BY <2>2 DEF ToSet
  <2>4. F[i] = IF t[i] \in {NoName} \cup ToSet(x) THEN x ELSE Append(x, t[i])  BY <1>1, <2>1, Zenon
  <2> HIDE DEF x
  <2>5. CASE t[i] \in {NoName} \cup ToSet(x)
    <3>1. t[i] = NoName \/ \E j \in 1..Len(x) : x[j] = t[i]  BY <2>3, <2>5, Zenon
    <3>2. Merged(x, t, i)  BY <2>1, <2>2, <3>1, MergedOne
    <3> QED BY <2>1, <2>2, <2>4, <2>5, <3>2, Zenon
  <2>6. CASE t[i] \notin {NoName} \cup ToSet(x)
    <3>1. t[i] # NoName /\ ~ \E j \in 1..Len(x) : x[j] = t[i]  BY <2>3, <2>6, Zenon
    <3>2. Merged(Append(x, t[i]), t, i)  BY <2>1, <2>2, <3>1, MergedMore
    <3>3. Append(x, t[i]) \in Seq(T)  BY <2>1, <2>2
    <3> QED BY <2>1, <2>4, <2>6, <3>2, <3>3, Zenon
  <2> QED BY <2>5, <2>6
<1> HIDE DEF S0
<1>4. \A i \in 0..n : i \in S0  BY <1>0, <1>2, <1>3, UpTo
<1> QED BY <1>4 DEF S0

LEMMA BetaIs ==
  ASSUME NEW h, NEW t, t = FlattenSeq(h), NEW T, t \in Seq(T), Ours \in T
  PROVE  \E F : Merges(F, t) /\ Q!MergedBeta(h) = F[Len(t)]
<1> DEFINE F == CHOOSE F : Merges(F, t)
<1>1. Merges(F, t)  BY MergesExist
<1>2. Q!FlattenSeq(h) = t  BY DEF Q!FlattenSeq, FlattenSeq
<1>3. Q!MergedBeta(h) = F[Len(t)]
  BY <1>2, Zenon DEF Q!MergedBeta, Merges, Q!ToSet, ToSet, Ours, NoName
<1> QED BY <1>1, <1>3

LEMMA BetasOf ==
  ASSUME NEW U, NEW t \in Seq(U), Ours \in U, Ours # NoName, NEW F, Merges(F, t)
  PROVE  /\ Head(F[Len(t)]) = Ours /\ Q!IsInjective(F[Len(t)])
         /\ Q!ToSet(F[Len(t)]) = (Q!ToSet(t) \cup {Ours}) \ {NoName}
<1> DEFINE put == F[Len(t)]
<1>1. put \in Seq(U) /\ Merged(put, t, Len(t))
  <2>1. Len(t) \in 0..Len(t)  OBVIOUS
  <2> QED BY <2>1, MergesMerge
<1> HIDE DEF put
<1>2. Len(put) >= 1 /\ put[1] = Ours  BY <1>1, Zenon DEF Merged
<1>3. Head(put) = Ours
  <2>1. put # <<>>  BY <1>1, <1>2
  <2> QED BY <1>1, <1>2, <2>1
<1>4. DOMAIN put = 1..Len(put) /\ DOMAIN t = 1..Len(t)  BY <1>1
<1>5. Q!IsInjective(put)  BY <1>1, <1>4, Zenon DEF Merged, Q!IsInjective
<1>6. Q!ToSet(put) = (Q!ToSet(t) \cup {Ours}) \ {NoName}
  <2>1. \A v : v \in Q!ToSet(put) <=> \E j \in 1..Len(put) : put[j] = v  BY <1>4, Zenon DEF Q!ToSet
  <2>2. \A v : v \in Q!ToSet(t) <=> \E j \in 1..Len(t) : t[j] = v  BY <1>4, Zenon DEF Q!ToSet
  <2>3. \A v : (\E j \in 1..Len(put) : put[j] = v)
                 <=> v = Ours \/ (v # NoName /\ \E j \in 1..Len(t) : t[j] = v)
    BY <1>1, Zenon DEF Merged
  <2>4. \A v : v \in Q!ToSet(put) <=> v \in (Q!ToSet(t) \cup {Ours}) \ {NoName}
    <3> SUFFICES ASSUME NEW v
                 PROVE  v \in Q!ToSet(put) <=> v \in (Q!ToSet(t) \cup {Ours}) \ {NoName}
      OBVIOUS
    <3>1. v \in Q!ToSet(put) <=> v = Ours \/ (v # NoName /\ v \in Q!ToSet(t))
      BY <2>1, <2>2, <2>3, Zenon
    <3> QED BY <3>1
  <2> QED BY <2>4, Zenon
<1> QED BY <1>3, <1>5, <1>6, Zenon DEF put

\* What becomes of the anthropic-beta headers of a message.
LEMMA BetasAre ==
  ASSUME RequestsAssumption, NEW h \in Betas
  PROVE  /\ Head(Q!MergedBeta(h)) = "oauth" /\ Q!IsInjective(Q!MergedBeta(h))
         /\ Q!ToSet(Q!MergedBeta(h)) = (Q!ToSet(Q!FlattenSeq(h)) \cup {"oauth"}) \ {""}
<1> DEFINE t == FlattenSeq(h)
           U == BetaTokens
<1>1. t \in Seq(U)
  <2>1. h \in Seq(Seq(U))  BY DEF RequestsAssumption
  <2> HIDE DEF U
  <2> QED BY <2>1, FlattenType
<1>2. Ours \in U  BY DEF BetaTokens, Ours
<1>3. Ours # NoName  BY DEF Ours, NoName
<1>4. Q!FlattenSeq(h) = t  BY DEF Q!FlattenSeq, FlattenSeq
<1> HIDE DEF t, U
<1>5. PICK F : Merges(F, t) /\ Q!MergedBeta(h) = F[Len(t)]  BY <1>1, <1>2, BetaIs DEF t
<1>6. /\ Head(F[Len(t)]) = Ours /\ Q!IsInjective(F[Len(t)])
      /\ Q!ToSet(F[Len(t)]) = (Q!ToSet(t) \cup {Ours}) \ {NoName}
  BY <1>1, <1>2, <1>3, <1>5, BetasOf, Zenon
<1> QED BY <1>4, <1>5, <1>6, Zenon DEF Ours, NoName

\* What an input may be that is no array.
Single == {None, Text} \cup Objects

\* An array of items normalised, and what else an input may be left as it is.
NormalInput(input) ==
  IF input \in Single THEN input ELSE [i \in DOMAIN input |-> Q!NormalItem(input[i])]

IsFcn(f) == f = [k \in DOMAIN f |-> f[k]]

\* f is w with a value put in at a key.
PutAs(f, w, key, value) ==
  /\ IsFcn(f) /\ DOMAIN f = DOMAIN w \cup {key} /\ f[key] = value
  /\ \A k \in DOMAIN w \ {key} : f[k] = w[k]

LEMMA PutIs ==
  ASSUME NEW w, NEW key, NEW value
  PROVE  PutAs(Q!Put(w, key, value), w, key, value)
<1> DEFINE Held == DOMAIN w \cup {key}
           f == [k \in Held |-> IF k = key THEN value ELSE w[k]]
<1>1. Q!Put(w, key, value) = f  BY DEF Q!Put
<1>2. DOMAIN f = Held /\ \A k \in Held : f[k] = IF k = key THEN value ELSE w[k]  OBVIOUS
<1>3. IsFcn(f)  BY DEF IsFcn
<1> HIDE DEF f
<1>4. f[key] = value /\ \A k \in DOMAIN w \ {key} : f[k] = w[k]  BY <1>2
<1> QED BY <1>1, <1>2, <1>3, <1>4, Zenon DEF Held, PutAs

LEMMA WithoutIs ==
  ASSUME NEW w, NEW keys
  PROVE  /\ IsFcn(Q!Without(w, keys))
         /\ DOMAIN Q!Without(w, keys) = DOMAIN w \ keys
         /\ \A k \in DOMAIN w \ keys : Q!Without(w, keys)[k] = w[k]
BY DEF Q!Without, IsFcn

Input == "input"
Store == "store"
Stream == "stream"
Previous == "previous_response_id"

LEMMA KeysDiffer ==
  /\ Input \notin Q!DroppedKeys /\ Store \notin Q!DroppedKeys /\ Stream \notin Q!DroppedKeys
  /\ Input # Store /\ Input # Stream /\ Store # Stream
  /\ Previous # Input /\ Previous # Store /\ Previous # Stream
BY DEF Input, Store, Stream, Previous, Q!DroppedKeys

LEMMA FieldIs ==
  ASSUME NEW w, NEW k
  PROVE  /\ k \in DOMAIN w => Q!Field(w, k) = w[k]
         /\ k \notin DOMAIN w => Q!Field(w, k) = None
BY DEF Q!Field

\* What normalize_for_codex_backend leaves of a body.
LEMMA NormalizedIs ==
  ASSUME NEW w
  PROVE  /\ IsFcn(Q!Normalized(w))
         /\ DOMAIN Q!Normalized(w) = DOMAIN w \ Q!DroppedKeys
         /\ \A k \in DOMAIN w \ Q!DroppedKeys :
              Q!Normalized(w)[k] = IF k = Input THEN NormalInput(w[k]) ELSE w[k]
<1> DEFINE rest == Q!Without(w, Q!DroppedKeys)
           input == Q!Field(rest, Input)
           put == [i \in DOMAIN input |-> Q!NormalItem(input[i])]
           all == Q!Put(rest, Input, put)
<1>1. Q!Normalized(w) = IF input \in Single THEN rest ELSE all
  BY Zenon DEF Q!Normalized, Input, Single
<1>2. /\ IsFcn(rest) /\ DOMAIN rest = DOMAIN w \ Q!DroppedKeys
      /\ \A k \in DOMAIN w \ Q!DroppedKeys : rest[k] = w[k]
  BY WithoutIs, Zenon
<1>3. /\ Input \in DOMAIN rest => input = rest[Input]
      /\ Input \notin DOMAIN rest => input = None
  BY FieldIs, Zenon
<1>4. NormalInput(input) = IF input \in Single THEN input ELSE put
  BY Zenon DEF NormalInput
<1>5. /\ IsFcn(all) /\ DOMAIN all = DOMAIN rest \cup {Input} /\ all[Input] = put
      /\ \A k \in DOMAIN rest \ {Input} : all[k] = rest[k]
  <2>1. PutAs(all, rest, Input, put)  BY PutIs
  <2> QED BY <2>1, Zenon DEF PutAs
<1> HIDE DEF rest, input, put, all
<1>6. CASE input \in Single
  <2>1. Q!Normalized(w) = rest /\ NormalInput(input) = input  BY <1>1, <1>4, <1>6, Zenon
  <2>2. \A k \in DOMAIN rest : rest[k] = IF k = Input THEN NormalInput(w[k]) ELSE w[k]
    BY <1>2, <1>3, <2>1, Zenon
  <2> QED BY <1>2, <2>1, <2>2, Zenon
<1>7. CASE input \notin Single
  <2>1. Q!Normalized(w) = all /\ NormalInput(input) = put  BY <1>1, <1>4, <1>7, Zenon
  <2>2. Input \in DOMAIN rest /\ input = rest[Input]  BY <1>3, <1>7 DEF Single
  <2>3. DOMAIN all = DOMAIN rest  BY <1>5, <2>2
  <2>4. ASSUME NEW k \in DOMAIN rest  PROVE all[k] = IF k = Input THEN NormalInput(w[k]) ELSE w[k]
    <3>1. CASE k = Input  BY <1>2, <1>5, <2>1, <2>2, <3>1, Zenon
    <3>2. CASE k # Input
      <4>1. k \in DOMAIN rest \ {Input}  BY <3>2
      <4> QED BY <1>2, <1>5, <3>2, <4>1, Zenon
    <3> QED BY <3>1, <3>2
  <2> QED BY <1>2, <1>5, <2>1, <2>3, <2>4, Zenon
<1> QED BY <1>6, <1>7

\* What prepare makes of a body once the turns before it are put back.
Readied(w) == Q!Put(Q!Normalized(Q!Put(w, Store, FALSE)), Stream, TRUE)

LEMMA ReadiedIs ==
  ASSUME NEW w
  PROVE  /\ IsFcn(Readied(w))
         /\ DOMAIN Readied(w) = (DOMAIN w \ Q!DroppedKeys) \cup {Store, Stream}
         /\ Readied(w)[Store] = FALSE /\ Readied(w)[Stream] = TRUE
         /\ Input \in DOMAIN w => Readied(w)[Input] = NormalInput(w[Input])
         /\ \A k \in DOMAIN w \ (Q!DroppedKeys \cup {Input, Store, Stream}) : Readied(w)[k] = w[k]
<1> DEFINE a == Q!Put(w, Store, FALSE)
           b == Q!Normalized(a)
           c == Q!Put(b, Stream, TRUE)
           Gone == Q!DroppedKeys
<1>1. /\ DOMAIN a = DOMAIN w \cup {Store} /\ a[Store] = FALSE
      /\ \A k \in DOMAIN w \ {Store} : a[k] = w[k]
  <2>1. PutAs(a, w, Store, FALSE)  BY PutIs
  <2> HIDE DEF a
  <2> QED BY <2>1, Zenon DEF PutAs
<1>2. /\ DOMAIN b = DOMAIN a \ Gone
      /\ \A k \in DOMAIN a \ Gone : b[k] = IF k = Input THEN NormalInput(a[k]) ELSE a[k]
  BY NormalizedIs, Zenon
<1>3. /\ IsFcn(c) /\ DOMAIN c = DOMAIN b \cup {Stream} /\ c[Stream] = TRUE
      /\ \A k \in DOMAIN b \ {Stream} : c[k] = b[k]
  <2>1. PutAs(c, b, Stream, TRUE)  BY PutIs
  <2> HIDE DEF b, c
  <2> QED BY <2>1, Zenon DEF PutAs
<1>4. c = Readied(w)  BY Zenon DEF Readied
<1> HIDE DEF a, b, c, Gone
<1>5. /\ Input \notin Gone /\ Store \notin Gone /\ Stream \notin Gone
      /\ Input # Store /\ Input # Stream /\ Store # Stream
  BY KeysDiffer DEF Gone
<1>6. DOMAIN c = (DOMAIN w \ Gone) \cup {Store, Stream}  BY <1>1, <1>2, <1>3, <1>5
<1>7. c[Store] = FALSE
  <2>1. Store \in DOMAIN a \ Gone /\ Store \in DOMAIN b \ {Stream} /\ Store # Input
    BY <1>1, <1>2, <1>5
  <2>2. b[Store] = a[Store]  BY <1>2, <2>1, Zenon
  <2>3. c[Store] = b[Store]  BY <1>3, <2>1, Zenon
  <2> QED BY <1>1, <2>2, <2>3, Zenon
<1>8. ASSUME Input \in DOMAIN w  PROVE c[Input] = NormalInput(w[Input])
  <2>1. Input \in DOMAIN a \ Gone /\ Input \in DOMAIN b \ {Stream} /\ Input \in DOMAIN w \ {Store}
    BY <1>1, <1>2, <1>5, <1>8
  <2>2. b[Input] = NormalInput(a[Input])  BY <1>2, <2>1, Zenon
  <2>3. c[Input] = b[Input] /\ a[Input] = w[Input]  BY <1>1, <1>3, <2>1, Zenon
  <2> QED BY <2>2, <2>3, Zenon
<1>9. ASSUME NEW k \in DOMAIN w \ (Gone \cup {Input, Store, Stream})  PROVE c[k] = w[k]
  <2>1. k \in DOMAIN a \ Gone /\ k \in DOMAIN b \ {Stream} /\ k \in DOMAIN w \ {Store} /\ k # Input
    BY <1>1, <1>2
  <2>2. b[k] = a[k]  BY <1>2, <2>1, Zenon
  <2>3. c[k] = b[k] /\ a[k] = w[k]  BY <1>1, <1>3, <2>1, Zenon
  <2> QED BY <2>2, <2>3, Zenon
<1> QED BY <1>3, <1>4, <1>6, <1>7, <1>8, <1>9, Zenon DEF Gone

\* What an item's parts are normalised to.
NormalParts(parts) ==
  IF parts = None THEN None ELSE [k \in DOMAIN parts |-> [text |-> parts[k].text, mark |-> FALSE]]

LEMMA PartsAre ==
  ASSUME None \notin ItemParts, NEW parts \in {None} \cup ItemParts
  PROVE  /\ NormalParts(parts) \in {None} \cup ItemParts
         /\ NormalParts(parts) = None <=> parts = None
         /\ NormalParts(NormalParts(parts)) = NormalParts(parts)
         /\ parts # None =>
              /\ DOMAIN NormalParts(parts) = DOMAIN parts
              /\ \A k \in DOMAIN parts :
                   NormalParts(parts)[k].text = parts[k].text /\ NormalParts(parts)[k].mark = FALSE
<1>1. CASE parts = None
  <2>1. NormalParts(parts) = None  BY <1>1 DEF NormalParts
  <2> QED BY <1>1, <2>1
<1>2. CASE parts # None
  <2> DEFINE X == [text : PartTexts, mark : BOOLEAN]
             n == Len(parts)
             f == [k \in 1..n |-> [text |-> parts[k].text, mark |-> FALSE]]
  <2>1. parts \in Seq(X)  BY <1>2 DEF ItemParts
  <2>2. DOMAIN parts = 1..n /\ n \in Nat /\ \A k \in 1..n : parts[k] \in X
    <3> HIDE DEF X
    <3> QED BY <2>1
  <2>3. \A k \in 1..n : parts[k].text \in PartTexts  BY <2>2
  <2>4. \A k \in 1..n : [text |-> parts[k].text, mark |-> FALSE] \in X  BY <2>3
  <2>5. NormalParts(parts) = f  BY <1>2, <2>2 DEF NormalParts
  <2>6. f \in Seq(X)
    <3> HIDE DEF X
    <3> QED BY <2>2, <2>4
  <2>7. f \in ItemParts /\ f # None  BY <2>6 DEF ItemParts
  <2>8. DOMAIN f = 1..n /\ \A k \in 1..n : f[k] = [text |-> parts[k].text, mark |-> FALSE]
    OBVIOUS
  <2>9. \A k \in 1..n : f[k].text = parts[k].text /\ f[k].mark = FALSE  BY <2>8
  <2>10. NormalParts(f) = [k \in 1..n |-> [text |-> f[k].text, mark |-> FALSE]]
    <3> HIDE DEF f
    <3> QED BY <2>7, <2>8, Zenon DEF NormalParts
  <2>11. NormalParts(f) = f
    <3>1. \A k \in 1..n : [text |-> f[k].text, mark |-> FALSE] = [text |-> parts[k].text, mark |-> FALSE]
      <4> HIDE DEF f
      <4> QED BY <2>9
    <3>2. [k \in 1..n |-> [text |-> f[k].text, mark |-> FALSE]] = f
      BY <3>1, Zenon
    <3> QED BY <2>10, <3>2, Zenon
  <2> HIDE DEF f, X
  <2> QED BY <1>2, <2>2, <2>5, <2>7, <2>8, <2>9, <2>11, Zenon
<1> QED BY <1>1, <1>2

LEMMA ItemIs ==
  ASSUME NEW x
  PROVE  /\ Q!NormalItem(x).role = (IF x.role = "system" THEN "developer" ELSE x.role)
         /\ Q!NormalItem(x).mark = FALSE
         /\ Q!NormalItem(x).parts = NormalParts(x.parts)
         /\ Q!NormalItem(x) = [role |-> Q!NormalItem(x).role, mark |-> FALSE, parts |-> Q!NormalItem(x).parts]
BY DEF Q!NormalItem, NormalParts

LEMMA NormalizedItem ==
  ASSUME None \notin ItemParts, NEW x \in Items
  PROVE  /\ Q!NormalItem(x) \in Items
         /\ Q!NormalItem(Q!NormalItem(x)) = Q!NormalItem(x)
         /\ Q!Gist(Q!NormalItem(x)) = Q!Gist(x)
         /\ Q!NormalItem(x).role # "system" /\ Q!NormalItem(x).mark = FALSE
         /\ Q!NormalItem(x).parts # None =>
              \A k \in DOMAIN Q!NormalItem(x).parts : Q!NormalItem(x).parts[k].mark = FALSE
<1> DEFINE y == Q!NormalItem(x)
           z == Q!NormalItem(y)
<1>1. x.parts \in {None} \cup ItemParts  BY DEF Items
<1>2. y.role = (IF x.role = "system" THEN "developer" ELSE x.role) /\ y.mark = FALSE
      /\ y.parts = NormalParts(x.parts) /\ y = [role |-> y.role, mark |-> FALSE, parts |-> y.parts]
  BY ItemIs, Zenon
<1>3. z.role = (IF y.role = "system" THEN "developer" ELSE y.role) /\ z.mark = FALSE
      /\ z.parts = NormalParts(y.parts) /\ z = [role |-> z.role, mark |-> FALSE, parts |-> z.parts]
  BY ItemIs, Zenon
<1> HIDE DEF y, z
<1>4. y.role # "system"  BY <1>2
<1>5. y \in Items
  <2>1. y.parts \in {None} \cup ItemParts  BY <1>1, <1>2, PartsAre
  <2>2. y.role \in {"user", "assistant", "developer"} \cup {i.role : i \in SaidItems}
    <3>1. x.role \in {"user", "assistant", "developer"} \cup {i.role : i \in SaidItems}  BY DEF Items
    <3> QED BY <1>2, <3>1
  <2> QED BY <1>2, <2>1, <2>2 DEF Items
<1>6. z.role = y.role  BY <1>3, <1>4
<1>7. z.parts = y.parts  BY <1>1, <1>2, <1>3, PartsAre, Zenon
<1>8. z = y  BY <1>2, <1>3, <1>6, <1>7, Zenon
<1>9. y.parts # None => \A k \in DOMAIN y.parts : y.parts[k].mark = FALSE
  BY <1>1, <1>2, PartsAre, Zenon
<1>10. Q!Gist(y) = Q!Gist(x)
  <2> DEFINE RoleOf(item) == IF item.role = "developer" THEN "system" ELSE item.role
             TextsOf(item) == IF item.parts = None THEN None
                              ELSE [k \in DOMAIN item.parts |-> item.parts[k].text]
  <2>1. RoleOf(y) = RoleOf(x)  BY <1>2
  <2>2. TextsOf(y) = TextsOf(x)
    <3>1. CASE x.parts = None  BY <1>1, <1>2, <3>1, PartsAre
    <3>2. CASE x.parts # None
      <4>1. y.parts # None /\ DOMAIN y.parts = DOMAIN x.parts
            /\ \A k \in DOMAIN x.parts : y.parts[k].text = x.parts[k].text
        BY <1>1, <1>2, <3>2, PartsAre, Zenon
      <4> QED BY <3>2, <4>1, Zenon
    <3> QED BY <3>1, <3>2
  <2> QED BY <2>1, <2>2, Zenon DEF Q!Gist
<1> QED BY <1>2, <1>4, <1>5, <1>8, <1>9, <1>10, Zenon DEF y, z

Inputs == Single \cup Seq(Items)

ItemAccepted(x) ==
  /\ x.role # "system" /\ x.mark = FALSE
  /\ x.parts # None => \A k \in DOMAIN x.parts : x.parts[k].mark = FALSE

\* What the assumption says of inputs.
InputsApart ==
  /\ None # Text /\ None \notin ItemParts /\ None \notin Seq(Items) /\ Text \notin Seq(Items)
  /\ \A o \in Objects : o \notin {None, Text} /\ o \notin Seq(Items) /\ ObjectItem(o) \in Items

LEMMA InputItemsAre ==
  ASSUME InputsApart
  PROVE  /\ Q!InputItems(None) = <<>>
         /\ Q!InputItems(Text) =
              <<[role |-> "user", mark |-> FALSE, parts |-> <<[text |-> Text, mark |-> FALSE]>>]>>
         /\ \A o \in Objects : Q!InputItems(o) = <<ObjectItem(o)>>
         /\ \A s \in Seq(Items) : Q!InputItems(s) = s
BY Zenon DEF Q!InputItems, InputsApart

\* One message of the user.
Spoken == [role |-> "user", mark |-> FALSE, parts |-> <<[text |-> Text, mark |-> FALSE]>>]

LEMMA SpokenIs == Spoken \in Items /\ (None \notin ItemParts => ItemAccepted(Spoken))
<1> DEFINE X == [text : PartTexts, mark : BOOLEAN]
           a == [text |-> Text, mark |-> FALSE]
           p == <<a>>
<1>1. a \in X /\ a.mark = FALSE  BY DEF PartTexts
<1> HIDE DEF X, a
<1>2. p \in Seq(X) /\ DOMAIN p = {1} /\ p[1] = a  BY <1>1
<1>3. p \in ItemParts  BY <1>2 DEF ItemParts, X
<1>4. Spoken = [role |-> "user", mark |-> FALSE, parts |-> p]  BY DEF Spoken, a
<1> HIDE DEF p
<1>5. Spoken \in Items  BY <1>3, <1>4 DEF Items
<1>6. Spoken.role = "user" /\ Spoken.mark = FALSE /\ Spoken.parts = p  BY <1>4
<1>7. \A k \in DOMAIN p : p[k].mark = FALSE  BY <1>1, <1>2
<1>8. ItemAccepted(Spoken)  BY <1>6, <1>7 DEF ItemAccepted
<1> QED BY <1>5, <1>8

LEMMA InputItemsType ==
  ASSUME InputsApart, NEW input \in Inputs
  PROVE  Q!InputItems(input) \in Seq(Items)
<1>1. CASE input = None  BY <1>1, InputItemsAre
<1>2. CASE input = Text
  <2>1. Q!InputItems(Text) = <<Spoken>>  BY InputItemsAre, Zenon DEF Spoken
  <2>2. Spoken \in Items  BY SpokenIs
  <2> QED BY <1>2, <2>1, <2>2
<1>3. CASE input \in Seq(Items)  BY <1>3, InputItemsAre
<1>4. CASE input \in Objects
  <2>1. Q!InputItems(input) = <<ObjectItem(input)>>  BY <1>4, InputItemsAre, Zenon
  <2>2. ObjectItem(input) \in Items  BY <1>4, Zenon DEF InputsApart
  <2> QED BY <2>1, <2>2
<1> QED BY <1>1, <1>2, <1>3, <1>4 DEF Inputs, Single

\* An input and what it is normalised to.
LeftWhole(m, input) ==
  /\ m \in Inputs
  /\ NormalInput(m) = m
  /\ Q!Gists(Q!InputItems(m)) = Q!Gists(Q!InputItems(input))
  /\ m \notin Objects => \A i \in DOMAIN Q!InputItems(m) : ItemAccepted(Q!InputItems(m)[i])

LEMMA InputNormalised ==
  ASSUME InputsApart, NEW input \in Inputs
  PROVE  LeftWhole(NormalInput(input), input)
<1>1. CASE input \in {None, Text}
  <2>1. NormalInput(input) = input  BY <1>1, Zenon DEF NormalInput, Single
  <2>2. \A i \in DOMAIN Q!InputItems(input) : ItemAccepted(Q!InputItems(input)[i])
    <3>1. CASE input = None  BY <3>1, InputItemsAre
    <3>2. CASE input = Text
      <4> DEFINE s == <<Spoken>>
      <4>1. Q!InputItems(input) = s  BY <3>2, InputItemsAre, Zenon DEF Spoken
      <4>2. \A i \in DOMAIN s : s[i] = Spoken  OBVIOUS
      <4>3. ItemAccepted(Spoken)  BY SpokenIs DEF InputsApart
      <4> HIDE DEF s
      <4> QED BY <4>1, <4>2, <4>3, Zenon
    <3> QED BY <1>1, <3>1, <3>2
  <2>3. input \in Inputs  BY <1>1, Zenon DEF Inputs, Single
  <2> QED BY <2>1, <2>2, <2>3, Zenon DEF LeftWhole
<1>3. CASE input \in Objects
  <2>1. NormalInput(input) = input  BY <1>3, Zenon DEF NormalInput, Single
  <2>2. input \in Inputs  BY <1>3, Zenon DEF Inputs, Single
  <2> QED BY <1>3, <2>1, <2>2, Zenon DEF LeftWhole
<1>2. CASE input \in Seq(Items)
  <2> DEFINE n == Len(input)
             m == [i \in 1..n |-> Q!NormalItem(input[i])]
  <2>1. DOMAIN input = 1..n /\ n \in Nat /\ \A i \in 1..n : input[i] \in Items  BY <1>2
  <2>2. NormalInput(input) = m
    <3>1. input \notin Single  BY <1>2, Zenon DEF InputsApart, Single
    <3> QED BY <2>1, <3>1, Zenon DEF NormalInput
  <2>3. \A i \in 1..n : /\ Q!NormalItem(input[i]) \in Items
                        /\ Q!NormalItem(Q!NormalItem(input[i])) = Q!NormalItem(input[i])
                        /\ Q!Gist(Q!NormalItem(input[i])) = Q!Gist(input[i])
                        /\ ItemAccepted(Q!NormalItem(input[i]))
    BY <2>1, NormalizedItem, Zenon DEF InputsApart, ItemAccepted
  <2>4. m \in Seq(Items)  BY <2>1, <2>3
  <2>5. DOMAIN m = 1..n /\ \A i \in 1..n : m[i] = Q!NormalItem(input[i])  OBVIOUS
  <2>6. m \notin Single
    <3> HIDE DEF m
    <3> QED BY <2>4, Zenon DEF InputsApart, Single
  <2>7. NormalInput(m) = m
    <3>1. NormalInput(m) = [i \in 1..n |-> Q!NormalItem(m[i])]
      <4> HIDE DEF m
      <4> QED BY <2>5, <2>6, Zenon DEF NormalInput
    <3>2. \A i \in 1..n : Q!NormalItem(m[i]) = Q!NormalItem(input[i])
      <4> HIDE DEF m
      <4> QED BY <2>3, <2>5, Zenon
    <3>3. [i \in 1..n |-> Q!NormalItem(m[i])] = m  BY <3>2, Zenon
    <3> QED BY <3>1, <3>3, Zenon
  <2> HIDE DEF m
  <2>8. Q!InputItems(m) = m /\ Q!InputItems(input) = input  BY <1>2, <2>4, InputItemsAre, Zenon
  <2>9. Q!Gists(m) = Q!Gists(input)
    <3>1. \A i \in 1..n : Q!Gist(m[i]) = Q!Gist(input[i])  BY <2>3, <2>5, Zenon
    <3>2. [i \in 1..n |-> Q!Gist(m[i])] = [i \in 1..n |-> Q!Gist(input[i])]  BY <3>1, Zenon
    <3> QED BY <2>1, <2>5, <3>2, Zenon DEF Q!Gists
  <2>10. \A i \in DOMAIN m : ItemAccepted(m[i])  BY <2>3, <2>5, Zenon
  <2>11. m \in Inputs  BY <2>4 DEF Inputs
  <2> QED BY <2>2, <2>7, <2>8, <2>9, <2>10, <2>11, Zenon DEF LeftWhole
<1> QED BY <1>1, <1>2, <1>3 DEF Inputs, Single

\* A body, and what is sent of it.
Heeded(r, w) ==
  /\ Q!Accepted(r)
  /\ Readied(r) = r
  /\ Q!Gists(Q!InputItems(Q!Field(r, Input))) = Q!Gists(Q!InputItems(Q!Field(w, Input)))
  /\ DOMAIN r = (DOMAIN w \ Q!DroppedKeys) \cup {Store, Stream}
  /\ \A k \in DOMAIN w \ (Q!DroppedKeys \cup {Input, Store, Stream}) : r[k] = w[k]

LEMMA ReadiedHeeds ==
  ASSUME InputsApart, NEW w, Q!Field(w, Input) \in Inputs
  PROVE  Heeded(Readied(w), w)
<1> DEFINE r == Readied(w)
           v == Readied(r)
           Gone == Q!DroppedKeys
           old == Q!Field(w, Input)
           new == Q!Field(r, Input)
<1>1. /\ IsFcn(r) /\ DOMAIN r = (DOMAIN w \ Gone) \cup {Store, Stream}
      /\ r[Store] = FALSE /\ r[Stream] = TRUE
      /\ Input \in DOMAIN w => r[Input] = NormalInput(w[Input])
      /\ \A k \in DOMAIN w \ (Gone \cup {Input, Store, Stream}) : r[k] = w[k]
  BY ReadiedIs, Zenon
<1>2. /\ IsFcn(v) /\ DOMAIN v = (DOMAIN r \ Gone) \cup {Store, Stream}
      /\ v[Store] = FALSE /\ v[Stream] = TRUE
      /\ Input \in DOMAIN r => v[Input] = NormalInput(r[Input])
      /\ \A k \in DOMAIN r \ (Gone \cup {Input, Store, Stream}) : v[k] = r[k]
  BY ReadiedIs, Zenon
<1>3. /\ Input \in DOMAIN w => old = w[Input]
      /\ Input \notin DOMAIN w => old = None
      /\ Input \in DOMAIN r => new = r[Input]
      /\ Input \notin DOMAIN r => new = None
  BY FieldIs, Zenon
<1> HIDE DEF r, v, Gone, old, new
<1>4. /\ Input \notin Gone /\ Store \notin Gone /\ Stream \notin Gone
      /\ Input # Store /\ Input # Stream /\ Store # Stream
  BY KeysDiffer DEF Gone
<1>5. Input \in DOMAIN r <=> Input \in DOMAIN w  BY <1>1, <1>4
<1>6. NormalInput(None) = None  BY Zenon DEF NormalInput, Single
<1>7. new = NormalInput(old)  BY <1>1, <1>3, <1>5, <1>6, Zenon
<1>8. LeftWhole(new, old)
  <2>1. old \in Inputs  BY DEF old
  <2> QED BY <1>7, <2>1, InputNormalised, Zenon
<1>9. DOMAIN v = DOMAIN r  BY <1>1, <1>2, <1>4
<1>10. ASSUME NEW k \in DOMAIN r  PROVE v[k] = r[k]
  <2>1. CASE k = Store  BY <1>1, <1>2, <2>1, Zenon
  <2>2. CASE k = Stream  BY <1>1, <1>2, <2>2, Zenon
  <2>3. CASE k = Input
    <3>1. v[Input] = NormalInput(r[Input]) /\ new = r[Input]  BY <1>2, <1>3, <2>3, Zenon
    <3>2. NormalInput(new) = new  BY <1>8, Zenon DEF LeftWhole
    <3> QED BY <2>3, <3>1, <3>2, Zenon
  <2>4. CASE k \notin {Store, Stream, Input}
    <3>1. k \in DOMAIN r \ (Gone \cup {Input, Store, Stream})  BY <1>1, <2>4
    <3> QED BY <1>2, <3>1, Zenon
  <2> QED BY <2>1, <2>2, <2>3, <2>4
<1>11. v = r
  <2>1. v = [k \in DOMAIN r |-> v[k]] /\ r = [k \in DOMAIN r |-> r[k]]
    BY <1>1, <1>2, <1>9, Zenon DEF IsFcn
  <2>2. [k \in DOMAIN r |-> v[k]] = [k \in DOMAIN r |-> r[k]]  BY <1>10, Zenon
  <2> QED BY <2>1, <2>2, Zenon
<1>12. Q!Accepted(r)
  <2>1. DOMAIN r \cap Gone = {}  BY <1>1, <1>4
  <2>2. r.store = FALSE /\ r.stream = TRUE  BY <1>1 DEF Store, Stream
  <2>3. new \notin Objects => \A i \in DOMAIN Q!InputItems(new) : ItemAccepted(Q!InputItems(new)[i])
    BY <1>8, Zenon DEF LeftWhole
  <2> QED BY <2>1, <2>2, <2>3, Zenon DEF Q!Accepted, ItemAccepted, Gone, new, Input
<1>13. Q!Gists(Q!InputItems(new)) = Q!Gists(Q!InputItems(old))  BY <1>8, Zenon DEF LeftWhole
<1> QED BY <1>1, <1>11, <1>12, <1>13, Zenon DEF Heeded, r, v, Gone, old, new

LEMMA SplicedIs ==
  ASSUME NEW body, NEW chain, NEW w, w = Q!Spliced(body, chain)
  PROVE  /\ DOMAIN w = (DOMAIN body \ {Previous}) \cup {Input}
         /\ Q!Field(w, Input) = chain \o Q!InputItems(Q!Field(body, Input))
         /\ \A k \in DOMAIN body \ {Previous, Input} : w[k] = body[k]
<1> DEFINE rest == Q!Without(body, {Previous})
           whole == chain \o Q!InputItems(Q!Field(body, Input))
<1>1. w = Q!Put(rest, Input, whole)  BY Zenon DEF Q!Spliced, Previous, Input
<1>2. /\ DOMAIN rest = DOMAIN body \ {Previous}
      /\ \A k \in DOMAIN body \ {Previous} : rest[k] = body[k]
  BY WithoutIs, Zenon
<1> HIDE DEF rest, whole
<1>3. PutAs(w, rest, Input, whole)  BY <1>1, PutIs
<1>4. DOMAIN w = DOMAIN rest \cup {Input} /\ w[Input] = whole /\ \A k \in DOMAIN rest \ {Input} : w[k] = rest[k]
  BY <1>3, Zenon DEF PutAs
<1>5. Q!Field(w, Input) = whole
  <2>1. Input \in DOMAIN w  BY <1>4
  <2> QED BY <1>4, <2>1, FieldIs, Zenon
<1>6. DOMAIN w = (DOMAIN body \ {Previous}) \cup {Input}  BY <1>2, <1>4
<1>7. ASSUME NEW k \in DOMAIN body \ {Previous, Input}  PROVE w[k] = body[k]
  <2>1. k \in DOMAIN body \ {Previous} /\ k \in DOMAIN rest \ {Input}  BY <1>2
  <2> QED BY <1>2, <1>4, <2>1, Zenon
<1> QED BY <1>5, <1>6, <1>7, Zenon DEF whole

LEMMA PreparedIs ==
  ASSUME NEW body, NEW chain
  PROVE  Q!Prepared(body, chain) = Readied(IF chain = None THEN body ELSE Q!Spliced(body, chain))
BY Zenon DEF Q!Prepared, Readied, Store, Stream

\* What a turn sends of what is said in it.
TurnTold(r, body, chained, after) ==
  /\ Q!Accepted(r)
  /\ chained => Previous \notin DOMAIN r
  /\ Q!Gists(Q!InputItems(Q!Field(r, Input))) = Q!Gists(SubSeq(after, 1, Len(after) - 1))
  /\ Q!Prepared(r, None) = r
  /\ \A k \in DOMAIN body \ (Q!DroppedKeys \cup {Input, Stream, Store, Previous}) :
       k \in DOMAIN r /\ r[k] = body[k]
  /\ after \in Seq(Items)

LEMMA FrontIs ==
  ASSUME NEW T, NEW s \in Seq(T), NEW x \in T
  PROVE  /\ Append(s, x) \in Seq(T)
         /\ SubSeq(Append(s, x), 1, Len(Append(s, x)) - 1) = s
         /\ s \o <<x>> = Append(s, x)
<1>1. Append(s, x) \in Seq(T) /\ Len(Append(s, x)) - 1 = Len(s) /\ s \o <<x>> = Append(s, x)
  OBVIOUS
<1>2. SubSeq(Append(s, x), 1, Len(s)) = s  OBVIOUS
<1> QED BY <1>1, <1>2, Zenon

LEMMA TurnTells ==
  ASSUME InputsApart, NEW body, Q!Field(body, Input) \in Inputs, NEW s \in Seq(Items),
         NEW chained \in BOOLEAN, NEW reply \in Items
  PROVE  TurnTold(Q!Prepared(body, IF chained THEN s ELSE None), body, chained,
                  (IF chained THEN s ELSE <<>>) \o Q!InputItems(Q!Field(body, Input)) \o <<reply>>)
<1> DEFINE given == Q!InputItems(Q!Field(body, Input))
           w == IF chained THEN Q!Spliced(body, s) ELSE body
           r == Readied(w)
           front == (IF chained THEN s ELSE <<>>) \o given
           after == Append(front, reply)
           Gone == Q!DroppedKeys
<1>1. Q!Prepared(body, IF chained THEN s ELSE None) = r
  <2>1. s # None  BY DEF InputsApart
  <2> QED BY <2>1, PreparedIs
<1>2. given \in Seq(Items)  BY InputItemsType
<1>3. front \in Seq(Items) /\ (chained => front = s \o given) /\ (~chained => front = given)
  <2> HIDE DEF given
  <2>1. s \o given \in Seq(Items) /\ <<>> \o given = given  BY <1>2
  <2>2. CASE chained
    <3>1. front = s \o given  BY <2>2, Zenon
    <3> QED BY <2>1, <2>2, <3>1, Zenon
  <2>3. CASE ~chained
    <3>1. front = <<>> \o given  BY <2>3, Zenon
    <3> QED BY <1>2, <2>1, <2>3, <3>1, Zenon
  <2> QED BY <2>2, <2>3
<1>4. /\ Q!Field(w, Input) \in Inputs
      /\ Q!InputItems(Q!Field(w, Input)) = front
      /\ chained => Previous \notin DOMAIN w
      /\ \A k \in DOMAIN body \ {Previous, Input} : k \in DOMAIN w /\ w[k] = body[k]
  <2>1. CASE chained
    <3>1. w = Q!Spliced(body, s)  BY <2>1
    <3> HIDE DEF w
    <3>2. /\ DOMAIN w = (DOMAIN body \ {Previous}) \cup {Input}
          /\ Q!Field(w, Input) = s \o given
          /\ \A k \in DOMAIN body \ {Previous, Input} : w[k] = body[k]
      BY <3>1, SplicedIs
    <3> HIDE DEF given
    <3>3. Q!Field(w, Input) = front /\ front \in Seq(Items)  BY <1>3, <2>1, <3>2, Zenon
    <3> HIDE DEF front
    <3>4. Q!InputItems(front) = front  BY <3>3, InputItemsAre, Zenon
    <3>5. front \in Inputs  BY <3>3 DEF Inputs
    <3>6. Previous \notin DOMAIN w  BY <3>2, KeysDiffer
    <3>7. \A k \in DOMAIN body \ {Previous, Input} : k \in DOMAIN w  BY <3>2
    <3> QED BY <3>2, <3>3, <3>4, <3>5, <3>6, <3>7, Zenon
  <2>2. CASE ~chained
    <3>1. w = body /\ front = given  BY <1>3, <2>2
    <3> HIDE DEF w, front
    <3> QED BY <2>2, <3>1
  <2> QED BY <2>1, <2>2
<1> HIDE DEF w, front, given
<1>5. Heeded(r, w)  BY <1>4, ReadiedHeeds, Zenon
<1> HIDE DEF r
<1>6. after \in Seq(Items) /\ SubSeq(after, 1, Len(after) - 1) = front /\ front \o <<reply>> = after
  BY <1>3, FrontIs, Zenon
<1> HIDE DEF after
<1>7. Q!Accepted(r) /\ Readied(r) = r
      /\ Q!Gists(Q!InputItems(Q!Field(r, Input))) = Q!Gists(Q!InputItems(Q!Field(w, Input)))
      /\ DOMAIN r = (DOMAIN w \ Gone) \cup {Store, Stream}
      /\ \A k \in DOMAIN w \ (Gone \cup {Input, Store, Stream}) : r[k] = w[k]
  BY <1>5, Zenon DEF Heeded
<1> HIDE DEF Gone
<1>8. chained => Previous \notin DOMAIN r
  <2>1. Previous # Store /\ Previous # Stream  BY KeysDiffer
  <2> QED BY <1>4, <1>7, <2>1
<1>9. Q!Prepared(r, None) = r  BY <1>7, PreparedIs
<1>10. ASSUME NEW k \in DOMAIN body \ (Gone \cup {Input, Stream, Store, Previous})
       PROVE  k \in DOMAIN r /\ r[k] = body[k]
  <2>1. k \in DOMAIN body \ {Previous, Input}  OBVIOUS
  <2>2. k \in DOMAIN w /\ w[k] = body[k]  BY <1>4, <2>1, Zenon
  <2>3. k \in DOMAIN w \ (Gone \cup {Input, Store, Stream}) /\ k \in DOMAIN r  BY <1>7, <2>2
  <2> QED BY <1>7, <2>2, <2>3, Zenon
<1>11. Q!Gists(Q!InputItems(Q!Field(r, Input))) = Q!Gists(SubSeq(after, 1, Len(after) - 1))
  BY <1>4, <1>6, <1>7, Zenon
<1>12. TurnTold(r, body, chained, after)
  BY <1>6, <1>7, <1>8, <1>9, <1>10, <1>11, Zenon DEF TurnTold, Gone
<1> QED BY <1>1, <1>6, <1>12, Zenon DEF front, given

\* Requests' promises, of a request and what was forwarded of it.
CodexHeard(f, a, s) ==
  f.to = "codex" =>
    /\ Q!Accepted(f.body)
    /\ a.chained => "previous_response_id" \notin DOMAIN f.body
    /\ Q!Gists(Q!InputItems(Q!Field(f.body, "input"))) = Q!Gists(SubSeq(s, 1, Len(s) - 1))
    /\ Q!Prepared(f.body, None) = f.body
    /\ \A k \in DOMAIN a.body \ (Q!DroppedKeys \cup {"input", "stream", "store", "previous_response_id"}) :
         k \in DOMAIN f.body /\ f.body[k] = a.body[k]

ClaudeHeard(f, a) ==
  f.to = "claude" =>
    /\ Q!IsIdentityBlock(Head(f.system))
    /\ Q!Others(f.system) = Q!Others(Q!Blocks(a.body))
    /\ Q!IdentityFirst(f.system) = f.system
    /\ Head(f.beta) = "oauth" /\ Q!IsInjective(f.beta)
    /\ Q!ToSet(f.beta) = (Q!ToSet(a.betas) \cup {"oauth"}) \ {""}

PathRead(f, a) ==
  f.to = "gate" =>
    /\ f.pool = a.pool
    /\ a.pool # "models" => f.model = Q!ModelFromPath(a.body)
    /\ f.admitted => ProxyKey \in {a.headers.bearer, a.headers.x_api_key}
    /\ a.headers \in [bearer : {None}, x_api_key : {ProxyKey}] \cup [bearer : {ProxyKey}, x_api_key : {None}]
         => f.admitted

LEMMA HeardNow ==
  Q!RequestsAreUnderstood <=>
    CodexHeard(forwarded, wanted, said) /\ ClaudeHeard(forwarded, wanted) /\ PathRead(forwarded, wanted)
BY DEF Q!RequestsAreUnderstood, Q!CodexIsTold, Q!ClaudeIsTold, Q!PathsAreRead, CodexHeard, ClaudeHeard,
       PathRead

LEMMA HeardNext ==
  Q!RequestsAreUnderstood' <=>
    CodexHeard(forwarded', wanted', said') /\ ClaudeHeard(forwarded', wanted') /\ PathRead(forwarded', wanted')
BY DEF Q!RequestsAreUnderstood, Q!CodexIsTold, Q!ClaudeIsTold, Q!PathsAreRead, CodexHeard, ClaudeHeard,
       PathRead

RequestsInv ==
  focus = "requests" =>
    /\ history = said /\ history \in Seq(Items) /\ turns \in Nat
    /\ Q!RequestsAreUnderstood

LEMMA Apart == ASSUME RequestsAssumption PROVE InputsApart
BY Zenon DEF RequestsAssumption, InputsApart

LEMMA ReplyIs == ASSUME turns \in Nat PROVE Q!Reply \in Items
<1> DEFINE X == [text : PartTexts, mark : BOOLEAN]
           a == [text |-> turns, mark |-> FALSE]
           p == <<a>>
<1>1. a \in X  BY DEF PartTexts
<1> HIDE DEF X, a
<1>2. p \in Seq(X)  BY <1>1
<1>3. p \in ItemParts  BY <1>2 DEF ItemParts, X
<1>4. Q!Reply = [role |-> "assistant", mark |-> FALSE, parts |-> p]  BY DEF Q!Reply, a
<1> HIDE DEF p
<1> QED BY <1>3, <1>4 DEF Items

LEMMA OneMore == \A n \in Nat : n + 1 \in Nat
OBVIOUS

LEMMA TurnKeeps ==
  ASSUME RequestsAssumption, history = said, history \in Seq(Items), turns \in Nat, Q!Turn
  PROVE  history' = said' /\ history' \in Seq(Items) /\ turns' \in Nat /\ Q!RequestsAreUnderstood'
<1>1. PICK body \in Bodies :
        LET chained == Q!PreviousResponseId(body) # None
            chain == IF chained THEN history ELSE None
            before(items) == IF chained THEN items ELSE <<>>
        IN  /\ chained => history # <<>>
            /\ forwarded' = [to |-> "codex", body |-> Q!Prepared(body, chain), streams |-> Q!ClientStream(body)]
            /\ wanted' = [body |-> body, chained |-> chained]
            /\ history' = before(history) \o Q!Delta(body, chain) \o <<Q!Reply>>
            /\ said' = before(said) \o Q!InputItems(Q!Field(body, "input")) \o <<Q!Reply>>
  BY Zenon DEF Q!Turn
<1> DEFINE chained == Q!PreviousResponseId(body) # None
           r == Q!Prepared(body, IF chained THEN history ELSE None)
           after == (IF chained THEN history ELSE <<>>) \o Q!InputItems(Q!Field(body, Input)) \o <<Q!Reply>>
<1>2. forwarded' = [to |-> "codex", body |-> r, streams |-> Q!ClientStream(body)]  BY <1>1, Zenon
<1>3. wanted' = [body |-> body, chained |-> chained]  BY <1>1, Zenon
<1>4. said' = after /\ history' = after
  BY <1>1, Zenon DEF Q!Delta, Input
<1>5. turns' \in Nat
  <2>1. turns' = turns + 1  BY DEF Q!Turn
  <2> QED BY <2>1, OneMore, Zenon
<1>6. TurnTold(r, body, chained, after)
  <2>1. InputsApart  BY Apart
  <2>2. Q!Field(body, Input) \in Inputs  BY DEF RequestsAssumption, Inputs, Single, Input
  <2>3. Q!Reply \in Items  BY ReplyIs
  <2>4. chained \in BOOLEAN  OBVIOUS
  <2> HIDE DEF chained
  <2> QED BY <2>1, <2>2, <2>3, <2>4, TurnTells, Zenon
<1> HIDE DEF chained, r, after
<1>7. forwarded'.to = "codex" /\ forwarded'.body = r /\ wanted'.body = body /\ wanted'.chained = chained
  BY <1>2, <1>3
<1>8. CodexHeard(forwarded', wanted', said')
  BY <1>4, <1>6, <1>7, Zenon DEF CodexHeard, TurnTold, Input, Store, Stream, Previous
<1>9. ClaudeHeard(forwarded', wanted') /\ PathRead(forwarded', wanted')
  <2>1. forwarded'.to # "claude" /\ forwarded'.to # "gate"  BY <1>7
  <2> QED BY <2>1, Zenon DEF ClaudeHeard, PathRead
<1>10. after \in Seq(Items)  BY <1>6, Zenon DEF TurnTold
<1> QED BY <1>4, <1>5, <1>8, <1>9, <1>10, HeardNext, Zenon

LEMMA MessageKeeps ==
  ASSUME RequestsAssumption, Q!Message
  PROVE  Q!RequestsAreUnderstood'
<1>1. PICK system \in Systems, headers \in Betas :
        /\ forwarded' = [to |-> "claude", system |-> Q!IdentityFirst(system), beta |-> Q!MergedBeta(headers)]
        /\ wanted' = [body |-> system, betas |-> Q!FlattenSeq(headers)]
  BY Zenon DEF Q!Message
<1>2. /\ forwarded'.to = "claude" /\ forwarded'.system = Q!IdentityFirst(system)
      /\ forwarded'.beta = Q!MergedBeta(headers)
      /\ wanted'.body = system /\ wanted'.betas = Q!FlattenSeq(headers)
  BY <1>1
<1>3. /\ Q!IsIdentityBlock(Head(Q!IdentityFirst(system)))
      /\ Q!Others(Q!IdentityFirst(system)) = Q!Others(Q!Blocks(system))
      /\ Q!IdentityFirst(Q!IdentityFirst(system)) = Q!IdentityFirst(system)
  BY SystemIs, Zenon
<1>4. /\ Head(Q!MergedBeta(headers)) = "oauth" /\ Q!IsInjective(Q!MergedBeta(headers))
      /\ Q!ToSet(Q!MergedBeta(headers)) = (Q!ToSet(Q!FlattenSeq(headers)) \cup {"oauth"}) \ {""}
  BY BetasAre, Zenon
<1>5. ClaudeHeard(forwarded', wanted')  BY <1>2, <1>3, <1>4, Zenon DEF ClaudeHeard
<1>6. CodexHeard(forwarded', wanted', said') /\ PathRead(forwarded', wanted')
  <2>1. forwarded'.to # "codex" /\ forwarded'.to # "gate"  BY <1>2
  <2> QED BY <2>1, Zenon DEF CodexHeard, PathRead
<1> QED BY <1>5, <1>6, HeardNext, Zenon

LEMMA KeyOpens ==
  ASSUME RequestsAssumption,
         NEW headers \in [bearer : {None, ProxyKey, Text}, x_api_key : {None, ProxyKey, Text}]
  PROVE  /\ Q!Admitted(headers) => ProxyKey \in {headers.bearer, headers.x_api_key}
         /\ headers \in [bearer : {None}, x_api_key : {ProxyKey}] \cup [bearer : {ProxyKey}, x_api_key : {None}]
              => Q!Admitted(headers)
<1>1. ProxyKey # None  BY DEF RequestsAssumption
<1> QED BY <1>1 DEF Q!Admitted, Q!PresentedKey

LEMMA KnockKeeps ==
  ASSUME RequestsAssumption, Q!Knock
  PROVE  Q!RequestsAreUnderstood'
<1>1. PICK path \in Paths, pool \in PoolNames \cup {None},
           headers \in [bearer : {None, ProxyKey, Text}, x_api_key : {None, ProxyKey, Text}] :
        LET whole == IF pool = None THEN path ELSE <<"pool", pool>> \o path
        IN  /\ forwarded' = [to |-> "gate", admitted |-> Q!Admitted(headers),
                             pool |-> Q!PoolFromPath(whole), model |-> Q!ModelFromPath(whole)]
            /\ wanted' = [body |-> path, pool |-> pool, headers |-> headers]
  BY Zenon DEF Q!Knock
<1> DEFINE whole == IF pool = None THEN path ELSE <<"pool", pool>> \o path
<1>2. /\ forwarded' = [to |-> "gate", admitted |-> Q!Admitted(headers),
                       pool |-> Q!PoolFromPath(whole), model |-> Q!ModelFromPath(whole)]
      /\ wanted' = [body |-> path, pool |-> pool, headers |-> headers]
  BY <1>1, Zenon
<1>3. Q!PoolFromPath(whole) = pool /\ (pool # "models" => Q!ModelFromPath(whole) = Q!ModelFromPath(path))
  <2>1. CASE pool = None
    <3>1. whole = path  BY <2>1, Zenon
    <3> HIDE DEF whole
    <3> QED BY <2>1, <3>1, BarePath, Zenon
  <2>2. CASE pool # None
    <3>1. whole = <<"pool", pool>> \o path /\ pool \in PoolNames  BY <2>2, Zenon
    <3> HIDE DEF whole
    <3> QED BY <3>1, PoolPath, Zenon
  <2> QED BY <2>1, <2>2
<1> HIDE DEF whole
<1>4. /\ forwarded'.to = "gate" /\ forwarded'.admitted = Q!Admitted(headers)
      /\ forwarded'.pool = Q!PoolFromPath(whole) /\ forwarded'.model = Q!ModelFromPath(whole)
      /\ wanted'.body = path /\ wanted'.pool = pool /\ wanted'.headers = headers
  BY <1>2
<1>5. /\ Q!Admitted(headers) => ProxyKey \in {headers.bearer, headers.x_api_key}
      /\ headers \in [bearer : {None}, x_api_key : {ProxyKey}] \cup [bearer : {ProxyKey}, x_api_key : {None}]
           => Q!Admitted(headers)
  BY KeyOpens, Zenon
<1>6. PathRead(forwarded', wanted')  BY <1>3, <1>4, <1>5, Zenon DEF PathRead
<1>7. CodexHeard(forwarded', wanted', said') /\ ClaudeHeard(forwarded', wanted')
  <2>1. forwarded'.to # "codex" /\ forwarded'.to # "claude"  BY <1>4
  <2> QED BY <2>1, Zenon DEF CodexHeard, ClaudeHeard
<1> QED BY <1>6, <1>7, HeardNext, Zenon

LEMMA RequestsStart == focus = "requests" /\ Q!Init => RequestsInv
<1> SUFFICES ASSUME Q!Init PROVE RequestsInv
  OBVIOUS
<1>1. history = <<>> /\ said = <<>> /\ turns = 0 /\ forwarded.to = "nobody"  BY DEF Q!Init
<1>2. history \in Seq(Items) /\ turns \in Nat  BY <1>1
<1>3. forwarded.to # "codex" /\ forwarded.to # "claude" /\ forwarded.to # "gate"  BY <1>1
<1>4. Q!RequestsAreUnderstood  BY <1>3, HeardNow, Zenon DEF CodexHeard, ClaudeHeard, PathRead
<1> QED BY <1>1, <1>2, <1>4 DEF RequestsInv

LEMMA RequestsSteps ==
  ASSUME RequestsAssumption, RequestsInv, focus = "requests", focus' = focus, Q!Next
  PROVE  RequestsInv'
<1>1. history = said /\ history \in Seq(Items) /\ turns \in Nat  BY DEF RequestsInv
<1>2. CASE Q!Turn  BY <1>1, <1>2, TurnKeeps DEF RequestsInv
<1>3. CASE Q!Message
  <2>1. UNCHANGED <<history, said, turns>>  BY <1>3 DEF Q!Message
  <2> QED BY <1>1, <1>3, <2>1, MessageKeeps DEF RequestsInv
<1>4. CASE Q!Knock
  <2>1. UNCHANGED <<history, said, turns>>  BY <1>4 DEF Q!Knock
  <2> QED BY <1>1, <1>4, <2>1, KnockKeeps DEF RequestsInv
<1> QED BY <1>2, <1>3, <1>4 DEF Q!Next

LEMMA RequestsStay ==
  ASSUME RequestsInv, UNCHANGED <<focus, requestVars>>
  PROVE  RequestsInv'
<1>1. UNCHANGED <<focus, history, said, forwarded, wanted, turns>>  BY DEF requestVars
<1>2. Q!RequestsAreUnderstood' <=> Q!RequestsAreUnderstood  BY <1>1, HeardNow, HeardNext
<1> QED BY <1>1, <1>2 DEF RequestsInv

\* However a request is spelled, the Codex backend is sent what it accepts and all
\* that was said in the conversation, once and in order; Claude is told the identity
\* first, the caller's blocks and betas after it; and a path names the same model
\* under every pool but one called as the route.  For all bodies, prompts and paths.
THEOREM RequestsAlwaysUnderstood == PartsSpec => []RequestsAreUnderstood
<1>1. PartsInit => RequestsInv
  BY RequestsStart DEF PartsInit, RequestsInv
<1>2. RequestsInv /\ [PartsNext]_partsVars => RequestsInv'
  <2> SUFFICES ASSUME RequestsInv, [PartsNext]_partsVars  PROVE RequestsInv'
    OBVIOUS
  <2>1. CASE focus = "requests" /\ Q!Next /\ focus' = focus
    BY <2>1, RequestsAssumption, RequestsSteps
  <2>2. CASE UNCHANGED <<focus, requestVars>>
    BY <2>2, RequestsStay
  <2>3. (focus = "requests" /\ Q!Next /\ focus' = focus) \/ UNCHANGED <<focus, requestVars>>
    BY DEF PartsNext, partsVars
  <2> QED BY <2>1, <2>2, <2>3
<1>3. RequestsInv => RequestsAreUnderstood
  BY DEF RequestsInv, RequestsAreUnderstood
<1> QED BY <1>1, <1>2, <1>3, PTL DEF PartsSpec
=============================================================================
