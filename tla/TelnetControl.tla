---------------------------- MODULE TelnetControl ----------------------------
(***************************************************************************)
(* The client of the Liquidsoap server (liquidsoap_telnet.py): the         *)
(* discovery of the commands that a script has, once in the life of the    *)
(* process, and the calls on them, from several threads, with the planes   *)
(* of the script (liquidsoap/radio.liq and its predecessors).              *)
(*                                                                         *)
(* A command is a prefix and a verb.  A prefix is a space, "sw", "id" or   *)
(* "queue", with a name and a number, for those that Liquidsoap numbers.   *)
(***************************************************************************)
EXTENDS Integers, Sequences, SequencesExt

CONSTANTS
  Scripts,    \* what may run: [planes, help]: prefixes from the lowest plane to
              \* the highest, each plane a set of them, and the lines of help
  Threads,    \* threads that call at once
  Calls,      \* what they call: "push", "reset", "status" or "flush", and a plane
  MaxLine,    \* bound: requests in a plane
  MaxTrouble  \* bound: answers cut off, requests lost, restarts of the server

Command(prefix, verb) == [prefix |-> prefix, verb |-> verb]

Sw(name) == [space |-> "sw", name |-> name, number |-> 0]
Id(name) == [space |-> "id", name |-> name, number |-> 0]
Anonymous(i) == [space |-> "queue", name |-> "request_queue", number |-> i]

Kinds == <<"cycle", "voice_alert", "full_alert">>

ASSUME TelnetAssumption ==
  /\ \A s \in Scripts : s.help \in Seq(Range(s.help))
  /\ \A c \in Calls : c.does \in {"push", "reset", "status", "flush"} /\ c.plane \in 1 .. 3
-------------------------------------------------------------------------------
(* Discovery, from the commands of an answer to "help".                    *)

HasAll(cmds, prefixes) == \A p \in prefixes : Command(p, "push") \in cmds

\* The numbers of the anonymous queues in the order of their declaration.
Declared(cmds) ==
  SetToSortSeq({c.prefix.number : c \in {d \in cmds : d.verb = "push" /\ d.prefix.space = "queue"}},
               <)

\* One queue is used for everything, two for the cycle and the alerts.
ByDeclaration(numbers) ==
  [i \in 1 .. 3 |-> Anonymous(numbers[IF i <= Len(numbers) THEN i ELSE Len(numbers)])]

\* The prefixes of the planes, or none.
PlanePrefixes(cmds) ==
  IF HasAll(cmds, {Sw(k) : k \in Range(Kinds)}) THEN [i \in 1 .. 3 |-> Sw(Kinds[i])]
  ELSE IF HasAll(cmds, {Id(k) : k \in Range(Kinds)}) THEN [i \in 1 .. 3 |-> Id(Kinds[i])]
  ELSE IF HasAll(cmds, {Id("cycle"), Id("alert")}) THEN <<Id("cycle"), Id("alert"), Id("alert")>>
  ELSE IF Declared(cmds) = <<>> THEN <<>>
  ELSE ByDeclaration(Declared(cmds))

\* pick_push, of a prefix
PushVerb(cmds, prefix) ==
  IF Command(prefix, "push_b64") \in cmds THEN "push_b64" ELSE "push"

\* pick_flush
FlushVerb(cmds, prefix) ==
  LET verbs == SelectSeq(<<"flush_and_skip", "flush", "skip">>,
                         LAMBDA v : Command(prefix, v) \in cmds)
  IN  IF verbs = <<>> THEN "flush_and_skip" ELSE Head(verbs)

Reset == Command(Sw("cycle"), "reset")
Status == Command(Sw("interrupt"), "status")

\* What a discovery finds: the commands of pushes and flushes by plane, and
\* those that only the current script has.
Discovered(cmds) ==
  LET prefixes == PlanePrefixes(cmds)
  IN  [push |-> [i \in 1 .. 3 |-> Command(prefixes[i], PushVerb(cmds, prefixes[i]))],
       flush |-> [i \in 1 .. 3 |-> Command(prefixes[i], FlushVerb(cmds, prefixes[i]))],
       reset |-> {Reset} \cap cmds,
       status |-> {Status} \cap cmds]

\* The answer to "help", as far as it came before the deadline.
Answer(script, n) == Range(SubSeq(script.help, 1, n))
-------------------------------------------------------------------------------
VARIABLES
  script,    \* what the server runs
  line,      \* the requests of each plane: [kind, sure]
  skips,     \* the planes in which a skip is pending
  commands,  \* what was discovered: {} or {what}
  sure,      \* history: it was discovered from all the help of this script
  threads,   \* what each thread calls, and its step
  trouble,   \* troubles so far
  killed     \* history: a pending skip ended a request that came later

telnetVars == <<script, line, skips, commands, sure, threads, trouble, killed>>

Planes == 1 .. 3
NoCall == [step |-> "idle", does |-> "none", plane |-> 1]

TelnetInit ==
  /\ script \in Scripts
  /\ line = [p \in Planes |-> <<>>] /\ skips = {}
  /\ commands = {} /\ sure = FALSE
  /\ threads = [t \in Threads |-> NoCall]
  /\ trouble = 0 /\ killed = FALSE

\* The plane of a prefix, and the one that a script has for a kind.
PlaneOf(prefix) == CHOOSE p \in DOMAIN script.planes : prefix \in script.planes[p]
Own(kind) == IF kind <= Len(script.planes) THEN kind ELSE Len(script.planes)

\* push_full_alert, push_voice_alert, push_cycle and the others begin.
Call(t, c) ==
  /\ threads[t].step = "idle"
  /\ threads' = [threads EXCEPT ![t] = [step |-> "ensure", does |-> c.does, plane |-> c.plane]]
  /\ UNCHANGED <<script, line, skips, commands, sure, trouble, killed>>

\* _ensure_discovered: once in the life of the process, behind a lock; a call
\* that finds no command to push with raises.
Ensure(t, n) ==
  /\ threads[t].step = "ensure"
  /\ IF commands # {}
       THEN /\ n = Len(script.help)
            /\ threads' = [threads EXCEPT ![t].step = "send"]
            /\ UNCHANGED <<commands, sure, trouble>>
       ELSE LET cmds == Answer(script, n)
            IN  /\ trouble' = (IF n < Len(script.help) THEN trouble + 1 ELSE trouble)
                /\ trouble' <= MaxTrouble
                /\ IF PlanePrefixes(cmds) = <<>>
                     THEN /\ threads' = [threads EXCEPT ![t] = NoCall]
                          /\ UNCHANGED <<commands, sure>>
                     ELSE /\ threads' = [threads EXCEPT ![t].step = "send"]
                          /\ commands' = {Discovered(cmds)}
                          /\ sure' = (n = Len(script.help))
  /\ UNCHANGED <<script, line, skips, killed>>

\* Mutated form: an older script is flushed.
SafeResetFlushing(f) == IF f.reset = {} THEN {f.flush[1]} ELSE f.reset

\* reset_cycle_safely: no other command stands in for the one it needs.
SafeReset(f) == f.reset

\* The command of a call, if there is one; flush_cycle prefers the reset.
CommandsOf(c, f) ==
  CASE c.does = "push"   -> {f.push[c.plane]}
    [] c.does = "reset"  -> SafeReset(f)
    [] c.does = "status" -> f.status
    [] c.does = "flush"  -> IF c.plane = 1 /\ f.reset # {} THEN f.reset ELSE {f.flush[c.plane]}

\* A request joins its plane, unless a skip was pending there.
Push(plane, kind) ==
  /\ Len(line[plane]) < MaxLine
  /\ IF plane \in skips
       THEN skips' = skips \ {plane} /\ killed' = TRUE /\ UNCHANGED line
       ELSE /\ line' = [line EXCEPT ![plane] = Append(@, [kind |-> kind, sure |-> sure])]
            /\ UNCHANGED <<skips, killed>>

\* The built-in commands: a skip of an empty plane stays pending.
Drop(plane, verb) ==
  /\ line' = [line EXCEPT ![plane] = CASE verb = "flush" -> IF @ = <<>> THEN @ ELSE <<Head(@)>>
                                       [] verb = "skip" -> IF @ = <<>> THEN @ ELSE Tail(@)
                                       [] OTHER -> <<>>]
  /\ skips' = (IF verb # "flush" /\ line[plane] = <<>> THEN skips \cup {plane} ELSE skips)
  /\ UNCHANGED killed

\* What the server does with a command: the reset of radio.liq skips only a
\* request that is there; a command that the script does not have is an error.
Execute(cmd, kind) ==
  IF cmd \notin Range(script.help) \/ cmd = Status THEN UNCHANGED <<line, skips, killed>>
  ELSE IF cmd = Reset THEN line' = [line EXCEPT ![1] = <<>>] /\ UNCHANGED <<skips, killed>>
  ELSE IF cmd.verb \in {"push", "push_b64"} THEN Push(PlaneOf(cmd.prefix), kind)
  ELSE Drop(PlaneOf(cmd.prefix), cmd.verb)

\* _send: the server carries the command out, or never gets it; in both cases
\* the answer may fail to come, and the call returns or raises.
Send(t, arrives) ==
  /\ threads[t].step = "send"
  /\ threads' = [threads EXCEPT ![t] = NoCall]
  /\ \E f \in commands :
       IF arrives /\ CommandsOf(threads[t], f) # {}
         THEN /\ \E cmd \in CommandsOf(threads[t], f) : Execute(cmd, threads[t].plane)
              /\ UNCHANGED trouble
         ELSE /\ UNCHANGED <<line, skips, killed>>
              /\ trouble' = (IF arrives THEN trouble ELSE trouble + 1) /\ trouble' <= MaxTrouble
  /\ UNCHANGED <<script, commands, sure>>

\* The script plays the highest plane that has a request.
Play ==
  /\ \E p \in Planes :
       /\ line[p] # <<>> /\ \A q \in Planes : q > p => line[q] = <<>>
       /\ line' = [line EXCEPT ![p] = Tail(@)]
  /\ UNCHANGED <<script, skips, commands, sure, threads, trouble, killed>>

\* The server restarts, with any script; the process keeps what it found.
ServerRestart(s) ==
  /\ trouble < MaxTrouble /\ trouble' = trouble + 1
  /\ script' = s /\ sure' = (sure /\ s = script)
  /\ line' = [p \in Planes |-> <<>>] /\ skips' = {}
  /\ UNCHANGED <<commands, threads, killed>>

ProcessRestart ==
  /\ trouble < MaxTrouble /\ trouble' = trouble + 1
  /\ commands' = {} /\ sure' = FALSE /\ threads' = [t \in Threads |-> NoCall]
  /\ UNCHANGED <<script, line, skips, killed>>

TelnetNext ==
  \/ \E t \in Threads : \/ \E c \in Calls : Call(t, c)
                       \/ \E n \in 0 .. Len(script.help) : Ensure(t, n)
                       \/ \E arrives \in BOOLEAN : Send(t, arrives)
  \/ Play \/ \E s \in Scripts : ServerRestart(s) \/ ProcessRestart

TelnetSpec == TelnetInit /\ [][TelnetNext]_telnetVars
-------------------------------------------------------------------------------
(* Properties.                                                             *)

\* With every script, once its help was heard to the end, a request gets to
\* the plane of its kind, so that an alert goes before the cycle and a tone-out
\* before a voice alert; and resets of the cycle between the calls of other
\* threads never cost a request that is pushed later.
PushesArrive ==
  /\ \A p \in Planes : \A r \in Range(line[p]) : r.sure => p = Own(r.kind)
  /\ ~killed
===============================================================================
