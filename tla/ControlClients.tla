--------------------------- MODULE ControlClients ---------------------------
(***************************************************************************)
(* Processes of rystemctl and the manager's end of their connections.  A    *)
(* request is written and an answer read in pieces; the manager reads what  *)
(* is there, answers the first line it finds and lets the connection go.    *)
(***************************************************************************)
EXTENDS ControlApi

CONSTANTS
  Clients,                 \* processes of rystemctl
  Menu,                    \* the command lines each may run
  Impatient,               \* bound: the clients that may be interrupted
  MAX_CONCURRENT_CLIENTS,
  MAX_REQUEST,             \* in pieces
  MAX_PENDING_RESPONSE,    \* in pieces
  MaxPolls                 \* bound: polls before the deadline of a wait

ASSUME ControlAssumption ==
  {MAX_CONCURRENT_CLIENTS, MAX_REQUEST, MAX_PENDING_RESPONSE, MaxPolls} \subseteq Nat \ {0}

\* The units that the command lines name
Names == UNION {Range(cmd.units) : cmd \in UNION {Menu[c] : c \in Clients}}

ASSUME MenuAssumption ==
  \A c \in Clients : \A cmd \in Menu[c] :
    /\ cmd.units \in Seq(Names)
    /\ {cmd.size, cmd.resp} \subseteq Nat \ {0}
    /\ {cmd.wait, cmd.no_block, cmd.now} \subseteq BOOLEAN

VARIABLES
  mgr,              \* the manager
  backlog,          \* connections it has not accepted, oldest first
  control_clients,  \* client -> its buffer and what is left of its answer
  conn,             \* the kernel's side of a client's connection
  proc              \* the processes

vars == <<mgr, backlog, control_clients, conn, proc>>

\* up, down: pieces on their way; served: requests of the connection that ran;
\* why: how the manager let go of it
NoConn == [st |-> "none", up |-> 0, down |-> 0, served |-> 0, why |-> "none",
           answer |-> Reply(FALSE, {}), size |-> 0]

NewProc(cmd) ==
  [pc |-> "connect", cmd |-> cmd, step |-> "op", rest |-> cmd.units, sent |-> 0,
   got |-> 0, ids |-> {}, polls |-> 0, exit |-> 0]

Idle == [pc |-> "idle"]

Init ==
  /\ \E active \in [Units -> {"inactive", "running"}] : mgr = NewManager(active)
  /\ backlog = <<>>
  /\ control_clients = [c \in {} |-> c]
  /\ conn = [c \in Clients |-> NoConn]
  /\ proc = [c \in Clients |-> Idle]

Running(c) == proc[c].pc \notin {"idle", "done"}
Up == mgr.status = "running"

-----------------------------------------------------------------------------
(* rystemctl.                                                              *)

Exit(p, code) == [p EXCEPT !.pc = "done", !.exit = code, !.step = "op", !.polls = 0, !.got = 0]
Ask(p, step) == [p EXCEPT !.pc = "connect", !.step = step, !.sent = 0, !.got = 0]

\* Unknown signals, commands that are not implemented, and unit files that
\* cannot be changed end the command before it asks anything
LocalError(cmd) == cmd.verb \in {"kill-unknown-signal", "edit", "journalctl-priority"}
FileVerbs == {"enable", "disable", "reenable"}

JobVerbs == {"start", "stop", "restart", "try_restart"}
IgnoreDependencies(cmd) == cmd.verb = "start" /\ cmd.mode = "ignore-dependencies"

OpOf(cmd) ==
  CASE IgnoreDependencies(cmd) -> "start_ignore_dependencies"
    [] cmd.verb \in FileVerbs -> IF ~cmd.now THEN "daemon_reload"
                                 ELSE IF cmd.verb = "enable" THEN "start" ELSE "stop"
    [] OTHER -> cmd.verb

\* What the process writes: a line of cmd.size pieces, the follow-ups are short
RequestOf(p) ==
  LET cmd == p.cmd
      of(op, units, ids) == [op |-> op, units |-> units, ids |-> ids,
                             mode |-> IF cmd.verb \in JobVerbs THEN cmd.mode ELSE "replace",
                             size |-> IF p.step = "op" THEN cmd.size ELSE 1,
                             resp |-> IF p.step = "op" THEN cmd.resp ELSE 1] IN
  CASE p.step = "op" ->
         of(OpOf(cmd), IF IgnoreDependencies(cmd) THEN <<Head(p.rest)>> ELSE cmd.units, {})
    [] p.step = "jobs" -> of("job_status", <<>>, p.ids)
    [] p.step = "list" -> of("list_jobs", <<>>, {})
    [] OTHER -> of("show", cmd.units, {})

\* A poll that found work left: again after 20 ms, until the deadline
PollAgain(p) ==
  IF p.polls < MaxPolls THEN [Ask(p, p.step) EXCEPT !.polls = @ + 1] ELSE Exit(p, 1)

should_wait(cmd) == cmd.wait \/ (~cmd.no_block /\ cmd.verb \in {"start", "stop"})

\* units_op_with_options, once the last request is answered
AfterOp(p) ==
  IF should_wait(p.cmd) /\ p.ids # {} THEN Ask(p, "jobs")
  ELSE IF p.cmd.wait THEN Ask(p, "list") ELSE Exit(p, 0)

OpAnswered(p, reply) ==
  LET cmd == p.cmd IN
  CASE cmd.verb \in JobVerbs ->
         LET q == [p EXCEPT !.ids = @ \cup reply.data, !.rest = IF @ = <<>> THEN @ ELSE Tail(@)] IN
         IF IgnoreDependencies(cmd) /\ q.rest # <<>> THEN Ask(q, "op") ELSE AfterOp(q)
    [] cmd.verb \in {"is_active", "is_failed", "is_system_running"} -> Exit(p, reply.data)
    [] OTHER -> Exit(p, 0)

\* Mutant: the results of the rows are not looked at
JobsAnsweredAll(p, rows) ==
  IF \E id \in DOMAIN rows : rows[id] = "pending" THEN PollAgain(p)
  ELSE IF p.cmd.wait /\ p.cmd.verb = "start"
  THEN [Ask(p, "terminating") EXCEPT !.polls = 0] ELSE Exit(p, 0)

\* wait_for_jobs: an id without a row counts as done
JobsAnswered(p, rows) ==
  IF \E id \in DOMAIN rows : rows[id] = "pending" THEN PollAgain(p)
  ELSE IF \E id \in DOMAIN rows : rows[id] = "failed" THEN Exit(p, 1)
  ELSE IF p.cmd.wait /\ p.cmd.verb = "start"
  THEN [Ask(p, "terminating") EXCEPT !.polls = 0] ELSE Exit(p, 0)

\* wait_for_units: no job left, then no unit failed
ListAnswered(p, busy) ==
  IF busy \cap Range(p.cmd.units) # {} THEN PollAgain(p) ELSE Ask(p, "show")

ShowAnswered(p, states) == Exit(p, IF "failed" \in states THEN 1 ELSE 0)

\* wait_for_terminating_units
TerminatingAnswered(p, states) ==
  IF states \cap {"activating", "deactivating", "running"} # {} THEN PollAgain(p)
  ELSE ShowAnswered(p, states)

\* An error ends the command, but the reload after a change of files is
\* best effort
Answered(p, reply) ==
  IF ~reply.ok
  THEN Exit(p, IF p.cmd.verb \in FileVerbs /\ ~p.cmd.now THEN 0 ELSE 1)
  ELSE CASE p.step = "op" -> OpAnswered(p, reply)
         [] p.step = "jobs" -> JobsAnswered(p, reply.data)
         [] p.step = "list" -> ListAnswered(p, reply.data)
         [] p.step = "show" -> ShowAnswered(p, reply.data)
         [] OTHER -> TerminatingAnswered(p, reply.data)

\* A start of no units over their dependencies has nothing to ask for
Run(c) ==
  /\ proc[c] = Idle
  /\ \E cmd \in Menu[c] :
       LET p == NewProc(cmd) IN
       \E changed \in {TRUE} \cup (IF cmd.verb \in FileVerbs THEN {FALSE} ELSE {}) :
         proc' = [proc EXCEPT ![c] =
           IF LocalError(cmd) \/ ~changed THEN Exit(p, 1)
           ELSE IF cmd.verb = "disable" /\ ~cmd.now THEN Exit(p, 0)
           ELSE IF IgnoreDependencies(cmd) /\ cmd.units = <<>> THEN AfterOp(p) ELSE p]
  /\ UNCHANGED <<mgr, backlog, control_clients, conn>>

\* The transport failed: connect, write_all, or an answer cut short
Broken(c) == proc' = [proc EXCEPT ![c] = Answered(@, Reply(FALSE, {}))]

Connect(c) ==
  /\ proc[c].pc = "connect"
  /\ IF Up
     THEN /\ backlog' = Append(backlog, c)
          /\ conn' = [conn EXCEPT ![c] = [NoConn EXCEPT !.st = "queued"]]
          /\ proc' = [proc EXCEPT ![c].pc = "write"]
     ELSE Broken(c) /\ UNCHANGED <<backlog, conn>>
  /\ UNCHANGED <<mgr, control_clients>>

Write(c) ==
  LET sent == proc[c].sent + 1 IN
  /\ proc[c].pc = "write"
  /\ IF conn[c].st = "closed" THEN Broken(c) /\ UNCHANGED conn
     ELSE /\ conn' = [conn EXCEPT ![c].up = @ + 1]
          /\ proc' = [proc EXCEPT ![c].sent = sent,
                        ![c].pc = IF sent = RequestOf(proc[c]).size THEN "read" ELSE "write"]
  /\ UNCHANGED <<mgr, backlog, control_clients>>

\* read_line: up to the end of the answer or of the connection
Read(c) ==
  /\ proc[c].pc = "read"
  /\ \/ /\ conn[c].down > 0
        /\ conn' = [conn EXCEPT ![c].down = @ - 1]
        /\ proc' = [proc EXCEPT ![c] =
                      IF proc[c].got + 1 = conn[c].size THEN Answered(@, conn[c].answer)
                      ELSE [proc[c] EXCEPT !.got = @ + 1]]
     \/ /\ conn[c].down = 0 /\ conn[c].st = "closed"
        /\ Broken(c)
        /\ UNCHANGED conn
  /\ UNCHANGED <<mgr, backlog, control_clients>>

\* The process is killed; the kernel closes its end
Interrupt(c) ==
  /\ c \in Impatient /\ proc[c].pc \in {"write", "read"}
  /\ proc' = [proc EXCEPT ![c].pc = "done", ![c].exit = 130]
  /\ conn' = [conn EXCEPT ![c].st = IF @ = "closed" THEN @ ELSE "hangup"]
  /\ UNCHANGED <<mgr, backlog, control_clients>>

-----------------------------------------------------------------------------
(* The manager.                                                            *)

\* Out of the table: the stream is closed
Release(c, why) == [conn EXCEPT ![c].st = "closed", ![c].why = why]
Forget(c) == [d \in DOMAIN control_clients \ {c} |-> control_clients[d]]
Keep(c, entry) ==
  [d \in DOMAIN control_clients \cup {c} |-> IF d = c THEN entry ELSE control_clients[d]]

\* The connection is ended from the other side
HungUp(c) == conn[c].st = "hangup"

\* Mutant: the table is measured once, before the loop
FitsAtFirst(table) == Cardinality(DOMAIN control_clients) < MAX_CONCURRENT_CLIENTS

Fits(table) == Cardinality(DOMAIN table) < MAX_CONCURRENT_CLIENTS

\* Mutant: a peer that is not known passes
PeerTrusted(c) == "manager"

peer_uid(c) == proc[c].cmd.uid

\* One stream of the backlog; streams that are refused are dropped
Accept1(acc, c) ==
  LET open == [buffer |-> 0, out |-> 0] IN
  IF ~Fits(acc.table) THEN [acc EXCEPT !.conn[c].st = "closed", !.conn[c].why = "cap"]
  ELSE IF peer_uid(c) # "manager" THEN [acc EXCEPT !.conn[c].st = "closed", !.conn[c].why = "uid"]
  ELSE [acc EXCEPT !.table = [d \in DOMAIN @ \cup {c} |-> IF d = c THEN open ELSE @[d]],
                   !.conn[c].st = IF @ = "hangup" THEN @ ELSE "open"]

accept_connections ==
  /\ Up /\ backlog # <<>>
  /\ LET acc == FoldLeft(Accept1, [table |-> control_clients, conn |-> conn], backlog) IN
     /\ control_clients' = acc.table
     /\ conn' = acc.conn
  /\ backlog' = <<>>
  /\ UNCHANGED <<mgr, proc>>

\* Mutant: a short write ends the connection too
FlushedShort(c, entry, table, cn, n) ==
  [table |-> [d \in DOMAIN table \ {c} |-> table[d]],
   conn |-> [cn EXCEPT ![c].st = "closed", ![c].why = "done", ![c].down = @ + n]]

\* What a write does: the kernel takes some of it, n pieces
Flushed(c, entry, table, cn, n) ==
  IF cn[c].st = "hangup"
  THEN [table |-> [d \in DOMAIN table \ {c} |-> table[d]],
        conn |-> [cn EXCEPT ![c].st = "closed", ![c].why = "hangup"]]
  ELSE IF n = entry.out
  THEN [table |-> [d \in DOMAIN table \ {c} |-> table[d]],
        conn |-> [cn EXCEPT ![c].st = "closed", ![c].why = "done", ![c].down = @ + n]]
  ELSE [table |-> [d \in DOMAIN table \cup {c} |->
                     IF d = c THEN [entry EXCEPT !.out = @ - n] ELSE table[d]],
        conn |-> [cn EXCEPT ![c].down = @ + n]]

\* Mutant: POLLOUT is not asked for
FlushOnHangup(c) ==
  /\ Up /\ c \in DOMAIN control_clients
  /\ control_clients[c].out > 0 /\ HungUp(c)
  /\ control_clients' = Forget(c) /\ conn' = Release(c, "hangup")
  /\ UNCHANGED <<mgr, backlog, proc>>

\* POLLOUT, or POLLIN while an answer is left
flush_control_response(c) ==
  /\ Up /\ c \in DOMAIN control_clients
  /\ control_clients[c].out > 0
  /\ \E n \in 1 .. control_clients[c].out :
       LET w == Flushed(c, control_clients[c], control_clients, conn, n) IN
       control_clients' = w.table /\ conn' = w.conn
  /\ UNCHANGED <<mgr, backlog, proc>>

\* An answer over the cap gives way to an error
Capped(reply, resp) ==
  IF resp > MAX_PENDING_RESPONSE THEN [reply |-> Reply(FALSE, {}), size |-> 1]
  ELSE [reply |-> reply, size |-> resp]

\* The manager is gone: the kernel closes every stream it had
AllClosed(cn, why) ==
  [c \in Clients |-> IF cn[c].st \in {"queued", "open"}
                     THEN [cn[c] EXCEPT !.st = "closed", !.why = why] ELSE cn[c]]

\* The line ran with result r, and its answer is written as far as it goes
LineRan(c, r) ==
  /\ mgr' = r.m
  /\ LET out == Capped(r.reply, RequestOf(proc[c]).resp)
         cn == [conn EXCEPT ![c].up = 0, ![c].served = @ + 1,
                            ![c].answer = out.reply, ![c].size = out.size] IN
     IF r.m.status # "running"
     THEN control_clients' = [d \in {} |-> d] /\ conn' = AllClosed(cn, "panic")
     ELSE \E n \in 0 .. out.size :
            LET w == Flushed(c, [buffer |-> 0, out |-> out.size], control_clients, cn, n) IN
            control_clients' = w.table /\ conn' = w.conn

\* The first line is there: it runs, whichever units have processes
ServeLine(c) == \E live \in SUBSET Units : LineRan(c, dispatch(mgr, RequestOf(proc[c]), live))

\* Reads all there is; the end of the stream comes before a look for the line
drain_control_client(c) ==
  /\ Up /\ c \in DOMAIN control_clients
  /\ control_clients[c].out = 0
  /\ conn[c].up > 0 \/ HungUp(c)
  /\ LET buffer == control_clients[c].buffer + conn[c].up IN
     IF HungUp(c)
     THEN control_clients' = Forget(c) /\ conn' = Release(c, "hangup") /\ UNCHANGED mgr
     ELSE IF buffer = RequestOf(proc[c]).size
     THEN ServeLine(c)
     ELSE IF buffer >= MAX_REQUEST
     THEN control_clients' = Forget(c) /\ conn' = Release(c, "long") /\ UNCHANGED mgr
     ELSE /\ control_clients' = Keep(c, [buffer |-> buffer, out |-> 0])
          /\ conn' = [conn EXCEPT ![c].up = 0]
          /\ UNCHANGED mgr
  /\ UNCHANGED <<backlog, proc>>

\* Jobs end and units change as the engine and the processes have it
FinishJob(id, ok) ==
  /\ Up
  /\ LET job == mgr.jobs[id]
         m == [Record(mgr, id, ok) EXCEPT !.active[job.unit] =
                 IF ~ok THEN "failed" ELSE IF job.kind = "Stop" THEN "inactive" ELSE @] IN
     \E st \in IF ok /\ job.kind = "Start" THEN {"running", "exited"} ELSE {m.active[job.unit]} :
       mgr' = IF ok /\ job.again /\ ~m.shutting_down
              THEN new_job(m, job.unit, "Start", FALSE, FALSE)
              ELSE [m EXCEPT !.active[job.unit] = st]
  /\ UNCHANGED <<backlog, control_clients, conn, proc>>

Becomes(u, from, to) ==
  mgr.active[u] = from /\ mgr' = [mgr EXCEPT !.active[u] = to]

UnitChanges(u) ==
  /\ Up
  /\ \/ PendingKind(mgr, u) = "Start" /\ Becomes(u, "inactive", "activating")
     \/ PendingKind(mgr, u) = "Stop" /\ Becomes(u, "running", "deactivating")
     \/ \E end \in {"inactive", "failed"} : Becomes(u, "running", end)
  /\ UNCHANGED <<backlog, control_clients, conn, proc>>

\* The loop ends
ManagerExits ==
  /\ Up /\ mgr.shutting_down /\ DOMAIN mgr.jobs = {}
  /\ mgr' = [mgr EXCEPT !.status = "exited"]
  /\ conn' = AllClosed(conn, "exit")
  /\ control_clients' = [c \in {} |-> c]
  /\ backlog' = <<>>
  /\ UNCHANGED proc

ClientNext == \E c \in Clients : Run(c) \/ Connect(c) \/ Write(c) \/ Read(c) \/ Interrupt(c)
LoopNext ==
  \/ accept_connections
  \/ \E c \in Clients : drain_control_client(c) \/ flush_control_response(c)
EngineNext ==
  \/ \E id \in DOMAIN mgr.jobs, ok \in BOOLEAN : FinishJob(id, ok)
  \/ \E u \in Units : UnitChanges(u)
  \/ ManagerExits

Next == ClientNext \/ LoopNext \/ EngineNext

Spec == Init /\ [][Next]_vars

\* The loop polls again after every batch, and the clients are left to run
Fairness ==
  /\ WF_vars(accept_connections)
  /\ \A c \in Clients :
       /\ WF_vars(drain_control_client(c))
       /\ WF_vars(flush_control_response(c))
       /\ WF_vars(Connect(c) \/ Write(c) \/ Read(c))

FairSpec == Spec /\ Fairness

-----------------------------------------------------------------------------
(* Properties.                                                             *)

\* However connections and requests arrive, the table of clients, what is kept
\* of an incomplete request and what is left of an answer stay below their
\* caps once a handler is done (accept_connections, drain_control_client).
TableBounded ==
  /\ Cardinality(DOMAIN control_clients) <= MAX_CONCURRENT_CLIENTS
  /\ \A c \in DOMAIN control_clients :
       /\ control_clients[c].buffer < MAX_REQUEST
       /\ control_clients[c].out <= MAX_PENDING_RESPONSE

\* A connection runs one request, whatever comes after its line, and a request
\* that was not written to the end or came from another user never runs
\* (drain_control_client removes the client before it dispatches).
RunsOnce ==
  \A c \in Clients :
    /\ conn[c].served <= 1
    /\ conn[c].served = 1 =>
         /\ proc[c].cmd.uid = "manager"
         /\ proc[c].pc \in {"write", "read"} \/ proc[c].exit = 130
              => proc[c].sent = RequestOf(proc[c]).size

\* An answer the manager wrote off as delivered reaches a client that waits
\* for it: the client is never left with part of it (flush_control_response).
AnswerArrives ==
  \A c \in Clients :
    Running(c) /\ proc[c].pc = "read" /\ conn[c].why = "done"
      => proc[c].got + conn[c].down = conn[c].size

\* A connection is bounded, has one effect, and ends with its whole answer.
ConnectionServed == TableBounded /\ RunsOnce /\ AnswerArrives

\* A start or a stop that waited and reports success saw every job it was
\* given leave the queue, and none of them fail (wait_for_jobs over job_status,
\* while other clients cancel, replace and withdraw jobs).
SuccessMeansDone ==
  \A c \in Clients :
    LET p == proc[c] IN
    p.pc = "done" /\ p.exit = 0 /\ p.cmd.verb \in {"start", "stop"} /\ should_wait(p.cmd)
      => \A id \in p.ids : /\ id \notin DOMAIN mgr.jobs
                           /\ id \in DOMAIN mgr.completed => mgr.completed[id]

\* Every command ends, however its connection fares and whatever becomes of
\* its jobs: the manager answers or closes the stream, and a wait has its
\* deadline.
CommandsEnd == \A c \in Clients : Running(c) ~> ~Running(c)
=============================================================================
