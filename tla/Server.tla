-------------------------------- MODULE Server --------------------------------
(***************************************************************************)
(* Connections of the server: the event thread that accepts them and reads *)
(* requests (net/server.cpp, the read_event of the communicators), the     *)
(* worker threads of the session stage (session/session_stage.cpp) that    *)
(* run a statement and write its answer (write_result), and what the end   *)
(* of a statement does to the session's transaction                        *)
(* (sql/executor/sql_result.cpp).                                          *)
(*                                                                         *)
(* Texts are left out: a request is a kind of statement, an answer is a    *)
(* sequence of parts.  A connection object that is used after it was       *)
(* deleted makes the model stop (corrupt).                                 *)
(***************************************************************************)
EXTENDS Integers, Sequences, FiniteSets

CONSTANTS
  Clients,          \* connections; each client connects once
  Workers,          \* threads of the session stage
  Fds,              \* bound: file descriptors
  Mysql,            \* the connections that speak the MySQL protocol
  Scripts,          \* bound: what the clients may ask for, one request after the other:
                    \* functions from Clients to sequences of [stmt, half]
  None

(* "blank"  an empty text                "syntax"  refused by parser or resolver      *)
(* "noplan" refused by the optimizer     "create"  a command that opens a file        *)
(* "set"    SET sql_debug                "begin", "commit", "rollback"                *)
(* "select" rows with columns            "change"  INSERT or DELETE: rows, no columns *)
(* "login"  the first packet of a MySQL client, "version" the question it asks next      *)
Kinds == {"blank", "syntax", "noplan", "create", "set", "begin", "commit", "rollback", "select", "change", "login", "version"}

ASSUME ServerAssumption ==
  /\ Mysql \subseteq Clients /\ Fds \subseteq Nat /\ None \notin Clients \cup Fds
  /\ \A s \in Scripts, c \in Clients : s[c] \in Seq([stmt : Kinds, half : BOOLEAN])
  /\ \A s \in Scripts, c \in Clients : \A i \in 1 .. Len(s[c]) :
       /\ s[c][i].stmt = "login" <=> c \in Mysql /\ i = 1
       /\ s[c][i].stmt = "version" => c \in Mysql

VARIABLES
  owner,      \* what a descriptor belongs to: a connection, "file" or None
  comm,       \* communicator of a connection: "none", "live", "closing" or "freed"
  fd,         \* its descriptor, as the communicator and its writer know it
  session,    \* [multi, debug, active, work]: mode, sql_debug, Trx started, its changes
  authed,     \* MysqlCommunicator::authed_
  out,        \* what the writer has buffered
  net,        \* requests on their way: [id, stmt, half], those still to come, and whether the client has closed
  ev,         \* the event thread
  queue,      \* events of the session stage
  wk,         \* the workers
  got,        \* what a client has received
  sent,       \* the requests a client has sent
  committed,  \* changes committed: <<client, request>>
  failed,     \* requests whose statement has failed
  hasty,      \* history: clients that sent or closed before they had their answer
  corrupt     \* a deleted object was used: "early", or "late", when the answer was out

conns == <<owner, comm, fd, session, authed, out>>
truth == <<got, sent, committed, failed, hasty>>
vars == <<conns, net, ev, queue, wk, truth, corrupt>>

Sound == corrupt = "no"

NoSession == [multi |-> FALSE, debug |-> FALSE, active |-> FALSE, work |-> {}]
EvIdle == [pc |-> "idle", c |-> None]
WkIdle == [pc |-> "idle", c |-> None, req |-> None, op |-> FALSE, rc |-> TRUE, drop |-> FALSE]

-----------------------------------------------------------------------------
(* BufferedWriter: what is buffered goes to whatever its descriptor is now. *)

SeqRange(q) == {q[i] : i \in 1 .. Len(q)}
Part(c, req, what) == [c |-> c, id |-> req.id, what |-> what]

Reaches(c) == owner[fd[c]]
Usable(c) == comm[c] \in {"live", "closing"}

(* ::write succeeds unless the peer is gone or the descriptor is closed *)
CanWrite(c) == Reaches(c) # None /\ (Reaches(c) \in Clients => ~net[Reaches(c)].closed)

Flush(c, parts) ==
  IF CanWrite(c)
  THEN /\ out' = [out EXCEPT ![c] = <<>>]
       /\ got' = [x \in DOMAIN got |-> IF x = Reaches(c) THEN got[x] \o parts ELSE got[x]]
  ELSE /\ out' = [out EXCEPT ![c] = parts]
       /\ UNCHANGED got

(* writen: the parts are buffered, or the buffer is full and goes out first; then it *)
(* fails if the connection is broken. *)
Buffered(c, parts) == out' = [out EXCEPT ![c] = @ \o parts] /\ UNCHANGED got
WriteFails(c) == ~CanWrite(c)

\* Mutant: the statement's result is committed although a transaction is open
EndTrx_Always(c) ==
  /\ session' = [session EXCEPT ![c].active = FALSE, ![c].work = {}]
  /\ committed' = committed \cup {<<c, id>> : id \in session[c].work}

(* SqlResult::close: the operator closes without error, so that the transaction is *)
(* committed, whatever became of the statement, unless BEGIN has opened it. *)
EndTrx(c) ==
  IF session[c].multi THEN UNCHANGED <<session, committed>>
  ELSE /\ session' = [session EXCEPT ![c].active = FALSE, ![c].work = {}]
       /\ committed' = committed \cup {<<c, id>> : id \in session[c].work}

-----------------------------------------------------------------------------
(* Clients.  External: modelled from what the server reads and writes. *)

Terminators == {"ok", "fail", "end", "eof", "login"}
Ends(q, c) == {i \in 1 .. Len(q) : q[i].c = c /\ q[i].what \in Terminators}
Waiting(c) == Cardinality(Ends(got[c], c)) < Len(sent[c])

(* the next request, in one piece or in two *)
Send(c) ==
  LET n == Len(sent[c]) + 1
      req == [id |-> n, stmt |-> net[c].script[n].stmt]
  IN  /\ Sound /\ comm[c] # "none" /\ ~net[c].closed /\ n <= Len(net[c].script)
      /\ \A i \in 1 .. Len(net[c].reqs) : ~net[c].reqs[i].half
      /\ net' = [net EXCEPT ![c].reqs = Append(@, [id |-> n, stmt |-> req.stmt, half |-> net[c].script[n].half])]
      /\ sent' = [sent EXCEPT ![c] = Append(@, req)]
      /\ hasty' = IF Waiting(c) THEN hasty \cup {c} ELSE hasty
      /\ UNCHANGED <<conns, ev, queue, wk, got, committed, failed, corrupt>>

SendRest(c) ==
  /\ Sound
  /\ \E i \in 1 .. Len(net[c].reqs) : net[c].reqs[i].half
  /\ net' = [net EXCEPT ![c].reqs = [i \in 1 .. Len(@) |-> [@[i] EXCEPT !.half = FALSE]]]
  /\ UNCHANGED <<conns, ev, queue, wk, truth, corrupt>>

Close(c) ==
  /\ Sound /\ comm[c] # "none" /\ ~net[c].closed
  /\ net' = [net EXCEPT ![c].closed = TRUE]
  /\ hasty' = IF Waiting(c) THEN hasty \cup {c} ELSE hasty
  /\ UNCHANGED <<conns, ev, queue, wk, got, sent, committed, failed, corrupt>>

-----------------------------------------------------------------------------
(* The event thread *)

FreeFd == CHOOSE f \in {g \in Fds : owner[g] = None} : \A g \in Fds : owner[g] = None => f <= g

(* Server::accept: a copy of the default session; a MySQL connection is greeted *)
Accept(c) ==
  /\ Sound /\ ev.pc = "idle" /\ comm[c] = "none" /\ net[c].script # <<>> /\ \E f \in Fds : owner[f] = None
  /\ owner' = [owner EXCEPT ![FreeFd] = c]
  /\ fd' = [fd EXCEPT ![c] = FreeFd]
  /\ comm' = [comm EXCEPT ![c] = "live"]
  /\ UNCHANGED <<session, authed, out, net, ev, queue, wk, truth, corrupt>>

(* libevent calls recv for a live connection that has something to read. *)
Recv(c) ==
  /\ Sound /\ ev.pc = "idle" /\ comm[c] = "live" /\ (net[c].reqs # <<>> \/ net[c].closed)
  /\ ev' = [pc |-> "read", c |-> c]
  /\ UNCHANGED <<conns, net, queue, wk, truth, corrupt>>

(* read_event: the loop around ::read goes on, without giving up the thread, until *)
(* the message is complete or the peer has closed. *)
Complete(c) == IF net[c].reqs = <<>> THEN FALSE ELSE ~net[c].reqs[1].half

ReadClosed ==
  /\ Sound /\ ev.pc = "read" /\ net[ev.c].closed /\ ~Complete(ev.c)
  /\ ev' = [ev EXCEPT !.pc = "close"]
  /\ UNCHANGED <<conns, net, queue, wk, truth, corrupt>>

(* PlainCommunicator drops what has come after the first message. *)
ReadMessage(c, req) ==
  /\ Sound /\ ev.pc = "read" /\ ev.c = c /\ Complete(c)
  /\ req = net[c].reqs[1]
  /\ net' = [net EXCEPT ![c].reqs = IF c \in Mysql THEN Tail(@) ELSE <<>>]
  /\ ev' = EvIdle

ReadLogin(c) ==
  /\ c \in Mysql /\ ~authed[c]
  /\ \E req \in SeqRange(net[c].reqs) :
       ReadMessage(c, req) /\ Flush(c, out[c] \o <<Part(c, req, "login")>>)
  /\ authed' = [authed EXCEPT ![c] = TRUE]
  /\ UNCHANGED <<owner, comm, fd, session, queue, wk, sent, committed, failed, hasty, corrupt>>

(* handle_version_comment: answered by the event thread, as a statement with its commit *)
ReadVersion(c) ==
  /\ c \in Mysql /\ authed[c]
  /\ \E req \in SeqRange(net[c].reqs) :
       /\ ReadMessage(c, req) /\ req.stmt = "version"
       /\ Flush(c, out[c] \o <<Part(c, req, "cols"), Part(c, req, "row"), Part(c, req, "eof")>>)
  /\ EndTrx(c)
  /\ UNCHANGED <<owner, comm, fd, authed, queue, wk, sent, failed, hasty, corrupt>>

ReadQuery(c) ==
  /\ c \in Mysql => authed[c]
  /\ \E req \in SeqRange(net[c].reqs) :
       /\ ReadMessage(c, req) /\ req.stmt # "version"
       /\ queue' = Append(queue, [c |-> c, req |-> req])
  /\ UNCHANGED <<conns, wk, truth, corrupt>>

(* Communicator::~Communicator: the descriptor, the session with its transaction, and *)
(* then the writer, which flushes what it still has. *)
CloseFd(c) ==
  /\ owner' = [owner EXCEPT ![fd[c]] = None]
  /\ comm' = [comm EXCEPT ![c] = "closing"]

FreeRest(c) ==
  /\ comm' = [comm EXCEPT ![c] = "freed"]
  /\ session' = [session EXCEPT ![c] = NoSession]
  /\ Flush(c, out[c])

EvClose ==
  /\ Sound /\ ev.pc = "close"
  /\ CloseFd(ev.c) /\ ev' = [ev EXCEPT !.pc = "free"]
  /\ UNCHANGED <<fd, session, authed, out, net, queue, wk, truth, corrupt>>

EvFree ==
  /\ Sound /\ ev.pc = "free"
  /\ FreeRest(ev.c) /\ ev' = EvIdle
  /\ UNCHANGED <<owner, fd, authed, net, queue, wk, sent, committed, failed, hasty, corrupt>>

-----------------------------------------------------------------------------
(* The workers *)

SetW(w, r) == wk' = [wk EXCEPT ![w] = r]

(* Every step uses the connection: *)
Touch(w) ==
  /\ Sound /\ wk[w].pc # "idle"
  /\ comm[wk[w].c] = "freed" \/ (wk[w].pc = "close" /\ comm[wk[w].c] = "closing")
  /\ corrupt' = IF wk[w].pc = "finish" THEN "late" ELSE "early"
  /\ UNCHANGED <<conns, net, ev, queue, wk, truth>>

TakeEvent(w) ==
  /\ Sound /\ wk[w].pc = "idle" /\ queue # <<>>
  /\ queue' = Tail(queue)
  /\ SetW(w, [WkIdle EXCEPT !.pc = "sql", !.c = Head(queue).c, !.req = Head(queue).req])
  /\ UNCHANGED <<conns, net, ev, truth, corrupt>>

(* TrxBeginExecutor, TrxEndExecutor, SetVariableExecutor, and the executors that open a file *)
BeginTrx(c) == session' = [session EXCEPT ![c].multi = TRUE, ![c].active = TRUE] /\ UNCHANGED <<committed, owner>>

StopTrx(c, done) ==
  /\ session' = [session EXCEPT ![c].multi = FALSE, ![c].active = FALSE, ![c].work = {}]
  /\ committed' = committed \cup done
  /\ UNCHANGED owner

SetVariable(c) == session' = [session EXCEPT ![c].debug = TRUE] /\ UNCHANGED <<committed, owner>>

OpenFile ==
  /\ IF \E f \in Fds : owner[f] = None THEN owner' = [owner EXCEPT ![FreeFd] = "file"] ELSE UNCHANGED owner
  /\ UNCHANGED <<session, committed>>

Command(c, stmt) ==
  CASE stmt = "begin" -> BeginTrx(c)
    [] stmt = "commit" -> StopTrx(c, {<<c, id>> : id \in session[c].work})
    [] stmt = "rollback" -> StopTrx(c, {})
    [] stmt = "set" -> SetVariable(c)
    [] stmt = "create" -> OpenFile
    [] OTHER -> UNCHANGED <<session, committed, owner>>

\* Mutant: a statement that fails is not answered
HandleSql_Silent(w) ==
  LET c == wk[w].c
      stmt == wk[w].req.stmt
  IN  /\ Sound /\ wk[w].pc = "sql" /\ Usable(c)
      /\ Command(c, stmt)
      /\ failed' = IF stmt \in {"syntax", "noplan"} THEN failed \cup {<<c, wk[w].req.id>>} ELSE failed
      /\ IF stmt \in {"blank", "syntax"} THEN SetW(w, WkIdle)
         ELSE SetW(w, [wk[w] EXCEPT !.pc = "open", !.rc = TRUE, !.op = stmt \in {"select", "change"}])
      /\ UNCHANGED <<comm, fd, authed, out, net, ev, queue, got, sent, hasty, corrupt>>

(* SessionStage::handle_sql.  The optimizer's failures do not reach the result, whose *)
(* return code stays SUCCESS. *)
HandleSql(w) ==
  LET c == wk[w].c
      stmt == wk[w].req.stmt
  IN  /\ Sound /\ wk[w].pc = "sql" /\ Usable(c)
      /\ Command(c, stmt)
      /\ failed' = IF stmt \in {"syntax", "noplan"} THEN failed \cup {<<c, wk[w].req.id>>} ELSE failed
      /\ IF stmt = "blank" THEN SetW(w, WkIdle)
         ELSE SetW(w, [wk[w] EXCEPT !.pc = "open", !.rc = stmt # "syntax", !.op = stmt \in {"select", "change"}])
      /\ UNCHANGED <<comm, fd, authed, out, net, ev, queue, got, sent, hasty, corrupt>>

(* write_state *)
State(w, rc) == <<Part(wk[w].c, wk[w].req, IF rc THEN "ok" ELSE "fail")>>

(* need_disconnect is what a failing write makes it *)
WriteState(w, rc) ==
  LET c == wk[w].c
  IN  \/ Buffered(c, State(w, rc)) /\ SetW(w, [wk[w] EXCEPT !.pc = "debug"])
      \/ WriteFails(c) /\ SetW(w, [wk[w] EXCEPT !.pc = "flush", !.drop = TRUE]) /\ UNCHANGED <<out, got>>

(* no operator, or an error: only the state is written *)
AnswerState(w) ==
  /\ Sound /\ wk[w].pc = "open" /\ Usable(wk[w].c) /\ ~(wk[w].op /\ wk[w].rc)
  /\ WriteState(w, wk[w].rc)
  /\ UNCHANGED <<owner, comm, fd, session, authed, net, ev, queue, sent, committed, failed, hasty, corrupt>>

Started(c, ids) == [session EXCEPT ![c].active = TRUE, ![c].work = @ \cup ids]

(* The plain communicator closes a result that could not be opened, which commits it. *)
CloseFailed(c, ids) ==
  IF session[c].multi THEN session' = Started(c, ids) /\ UNCHANGED committed
  ELSE /\ session' = [session EXCEPT ![c].active = FALSE, ![c].work = {}]
       /\ committed' = committed \cup {<<c, id>> : id \in session[c].work \cup ids}

(* sql_result->open: INSERT makes its changes here, and may fail after some of them. *)
OpenResult(w) ==
  LET c == wk[w].c
      ids == IF wk[w].req.stmt = "change" THEN {wk[w].req.id} ELSE {}
  IN  /\ Sound /\ wk[w].pc = "open" /\ Usable(c) /\ wk[w].op /\ wk[w].rc
      /\ \/ /\ session' = Started(c, ids)
            /\ SetW(w, [wk[w] EXCEPT !.pc = "rows"])
            /\ UNCHANGED <<committed, failed, out, got>>
         \/ /\ wk[w].req.stmt = "change"
            /\ failed' = failed \cup {<<c, wk[w].req.id>>}
            /\ IF c \in Mysql THEN session' = Started(c, ids) /\ UNCHANGED committed     \* the result is not closed
               ELSE CloseFailed(c, ids)
            /\ WriteState(w, FALSE)
      /\ UNCHANGED <<owner, comm, fd, authed, net, ev, queue, sent, hasty, corrupt>>

Rows(c, req) == IF req.stmt = "select" THEN <<Part(c, req, "row")>> ELSE <<>>

(* Plain text: the names of the columns, the rows and the delimiter; a row that fails *)
(* is followed by FAILURE.  A name whose separator cannot be written leaves the result *)
(* open. *)
SendRowsPlain(w) ==
  LET c == wk[w].c
      req == wk[w].req
      end == IF req.stmt = "change" THEN State(w, TRUE) ELSE <<Part(c, req, "end")>>
  IN  /\ Sound /\ wk[w].pc = "rows" /\ Usable(c) /\ c \notin Mysql
      /\ \/ /\ EndTrx(c)
            /\ Buffered(c, Rows(c, req) \o end)
            /\ SetW(w, [wk[w] EXCEPT !.pc = "debug"]) /\ UNCHANGED failed
         \/ /\ EndTrx(c)
            /\ failed' = failed \cup {<<c, req.id>>}
            /\ Buffered(c, State(w, FALSE))
            /\ SetW(w, [wk[w] EXCEPT !.pc = "debug"])
         \/ /\ WriteFails(c)
            /\ EndTrx(c) \/ (req.stmt = "select" /\ UNCHANGED <<session, committed>>)
            /\ SetW(w, [wk[w] EXCEPT !.pc = "flush", !.drop = TRUE])
            /\ UNCHANGED <<out, got, failed>>
      /\ UNCHANGED <<owner, comm, fd, authed, net, ev, queue, sent, hasty, corrupt>>

(* send_column_definition: the number of columns, one packet each, and an EOF *)
ColumnDefinition(c, req) == IF req.stmt = "select" THEN <<Part(c, req, "cols")>> ELSE <<>>

(* MySQL: a row that fails ends the rows, and the last packet is sent as always; that *)
(* it cannot be written is not looked at. *)
SendRowsMysql(w) ==
  LET c == wk[w].c
      req == wk[w].req
      end == IF req.stmt = "change" THEN State(w, TRUE) ELSE <<Part(c, req, "eof")>>
  IN  /\ Sound /\ wk[w].pc = "rows" /\ Usable(c) /\ c \in Mysql
      /\ EndTrx(c)
      /\ \/ /\ Buffered(c, ColumnDefinition(c, req) \o Rows(c, req) \o end)
            /\ SetW(w, [wk[w] EXCEPT !.pc = "debug"]) /\ UNCHANGED failed
         \/ /\ failed' = failed \cup {<<c, req.id>>}
            /\ Buffered(c, ColumnDefinition(c, req) \o end)
            /\ SetW(w, [wk[w] EXCEPT !.pc = "debug"])
         \/ /\ WriteFails(c)
            /\ SetW(w, [wk[w] EXCEPT !.pc = "flush", !.drop = req.stmt # "change"])
            /\ UNCHANGED <<out, got, failed>>
      /\ UNCHANGED <<owner, comm, fd, authed, net, ev, queue, sent, hasty, corrupt>>

\* Mutant: the state is written after the rows as well
WriteDebug_State(w) ==
  /\ Sound /\ wk[w].pc = "debug" /\ Usable(wk[w].c)
  /\ Buffered(wk[w].c, State(w, wk[w].rc)) /\ SetW(w, [wk[w] EXCEPT !.pc = "flush"])
  /\ UNCHANGED <<owner, comm, fd, session, authed, net, ev, queue, sent, committed, failed, hasty, corrupt>>

(* write_debug: after the end of the answer *)
WriteDebug(w) ==
  LET c == wk[w].c
  IN  /\ Sound /\ wk[w].pc = "debug" /\ Usable(c)
      /\ IF session[c].debug /\ c \notin Mysql
         THEN \/ Buffered(c, <<Part(c, wk[w].req, "debug")>>) /\ SetW(w, [wk[w] EXCEPT !.pc = "flush"])
              \/ /\ WriteFails(c) /\ UNCHANGED <<out, got>>
                 /\ SetW(w, [wk[w] EXCEPT !.pc = "flush", !.drop = TRUE])
         ELSE SetW(w, [wk[w] EXCEPT !.pc = "flush"]) /\ UNCHANGED <<out, got>>
      /\ UNCHANGED <<owner, comm, fd, session, authed, net, ev, queue, sent, committed, failed, hasty, corrupt>>

\* Mutant: the connection is closed before the flush
FlushResult_Closed(w) ==
  /\ Sound /\ wk[w].pc = "flush" /\ Usable(wk[w].c)
  /\ FreeRest(wk[w].c)
  /\ UNCHANGED <<owner, fd, authed, net, ev, queue, wk, sent, committed, failed, hasty, corrupt>>

(* writer_->flush(), whose error is not looked at *)
FlushResult(w) ==
  LET c == wk[w].c
  IN  /\ Sound /\ wk[w].pc = "flush" /\ Usable(c)
      /\ Flush(c, out[c])
      /\ SetW(w, [wk[w] EXCEPT !.pc = IF wk[w].drop THEN "close" ELSE "finish"])
      /\ UNCHANGED <<owner, comm, fd, session, authed, net, ev, queue, sent, committed, failed, hasty, corrupt>>

(* Server::close_connection by the worker; event_del waits for a recv of the connection *)
WkClose(w) ==
  /\ Sound /\ wk[w].pc = "close" /\ comm[wk[w].c] = "live" /\ ev.c # wk[w].c
  /\ CloseFd(wk[w].c)
  /\ SetW(w, [wk[w] EXCEPT !.pc = "free"])
  /\ UNCHANGED <<fd, session, authed, out, net, ev, queue, truth, corrupt>>

WkFree(w) ==
  /\ Sound /\ wk[w].pc = "free" /\ Usable(wk[w].c)
  /\ FreeRest(wk[w].c)
  /\ SetW(w, [wk[w] EXCEPT !.pc = "finish"])
  /\ UNCHANGED <<owner, fd, authed, net, ev, queue, sent, committed, failed, hasty, corrupt>>

(* sev->session()->set_current_request(nullptr) *)
Finish(w) ==
  /\ Sound /\ wk[w].pc = "finish" /\ Usable(wk[w].c)
  /\ SetW(w, WkIdle)
  /\ UNCHANGED <<conns, net, ev, queue, truth, corrupt>>

-----------------------------------------------------------------------------
Init ==
  /\ owner = [f \in Fds |-> None] /\ comm = [c \in Clients |-> "none"] /\ fd = [c \in Clients |-> None]
  /\ session = [c \in Clients |-> NoSession] /\ authed = [c \in Clients |-> FALSE]
  /\ out = [c \in Clients |-> <<>>]
  /\ \E s \in Scripts : net = [c \in Clients |-> [reqs |-> <<>>, closed |-> FALSE, script |-> s[c]]]
  /\ ev = EvIdle /\ queue = <<>> /\ wk = [w \in Workers |-> WkIdle]
  /\ got = [x \in Clients \cup {"file"} |-> <<>>] /\ sent = [c \in Clients |-> <<>>]
  /\ committed = {} /\ failed = {} /\ hasty = {} /\ corrupt = "no"

EventThread ==
  \/ \E c \in Clients : Accept(c) \/ Recv(c) \/ ReadLogin(c) \/ ReadVersion(c) \/ ReadQuery(c)
  \/ ReadClosed \/ EvClose \/ EvFree

WorkerStep(w) ==
  \/ TakeEvent(w) \/ HandleSql(w) \/ AnswerState(w) \/ OpenResult(w) \/ SendRowsPlain(w) \/ SendRowsMysql(w) \/ WriteDebug(w)
  \/ FlushResult(w) \/ WkClose(w) \/ WkFree(w) \/ Finish(w) \/ Touch(w)

ClientStep(c) == Send(c) \/ SendRest(c) \/ Close(c)

Next == EventThread \/ (\E w \in Workers : WorkerStep(w)) \/ (\E c \in Clients : ClientStep(c))

Spec == Init /\ [][Next]_vars

(* The threads of the server go on; clients need not. *)
FairSpec ==
  /\ Spec
  /\ WF_vars(EventThread)
  /\ \A w \in Workers : WF_vars(WorkerStep(w))

-----------------------------------------------------------------------------
(* Properties *)

(* A descriptor belongs to one connection, a deleted connection has no session. *)
TypeOK ==
  /\ \A c \in Clients : comm[c] \in {"none", "live", "closing", "freed"} /\ (comm[c] = "freed" => session[c] = NoSession)
  /\ \A c \in Clients : comm[c] = "live" => owner[fd[c]] = c
  /\ \A w \in Workers : wk[w].pc # "idle" => wk[w].c \in Clients

(* Before its answer is out, a connection is deleted under the worker that serves   *)
(* it, or twice, only if a client sends or closes before it has its answers: one    *)
(* request at a time is what the comment in read_event supports.                    *)
FreedInTime == corrupt = "early" => hasty # {}

(* A client that waits for its answers gets one for each request, in their order,   *)
(* whichever worker serves it, and no part of another client's answer: the answers  *)
(* of connections that broke off are the only bytes that may end up in a descriptor *)
(* that was used again.                                                             *)
NoStrayBytes ==
  \A x \in DOMAIN got : \A i \in 1 .. Len(got[x]) : got[x][i].c = x \/ got[x][i].c \in hasty

AnswersInOrder ==
  \A c \in Clients \ hasty : \A i, j \in 1 .. Len(got[c]) :
    i < j /\ got[c][i].c = c /\ got[c][j].c = c =>
      /\ got[c][i].id <= got[c][j].id
      /\ got[c][i].what \in Terminators /\ got[c][j].what # "debug" => got[c][i].id < got[c][j].id

(* An answer says how the statement went.  The exceptions are those of the code: a  *)
(* statement the optimizer refuses is answered SUCCESS, and over MySQL a row that   *)
(* fails ends the rows without an error packet (the TODO in send_result_rows).      *)
AnswersTruthful ==
  \A c \in Clients \ hasty : \A i \in 1 .. Len(got[c]) :
    LET p == got[c][i]
        bad == <<c, p.id>> \in failed
    IN  /\ p.c = c /\ p.what = "fail" => bad
        /\ p.c = c /\ p.what \in {"ok", "end", "eof"} /\ bad =>
             sent[c][p.id].stmt = "noplan" \/ (c \in Mysql /\ sent[c][p.id].stmt # "syntax")

(* Connections are taken apart in an order (~Communicator, ~Session, SessionStage)     *)
(* in which nothing is used after it is deleted and no byte goes to a stranger, for    *)
(* clients that wait for their answers.                                                *)
NoUseAfterFree == TypeOK /\ FreedInTime /\ NoStrayBytes

(* A client that waits gets its answers in order, and they are true.                   *)
AnswersRight == AnswersInOrder /\ AnswersTruthful

Opened(c, id) == \E i \in 1 .. id : /\ sent[c][i].stmt = "begin"
                                    /\ \A j \in i + 1 .. id : sent[c][j].stmt \notin {"commit", "rollback"}
Asked(c, id) == \E i \in id .. Len(sent[c]) : /\ sent[c][i].stmt = "commit"
                                              /\ \A j \in id .. i : sent[c][j].stmt # "rollback"

(* What is changed after BEGIN is committed by COMMIT and by nothing else: not by    *)
(* the end of a statement, not by the end of the connection.  What is changed        *)
(* outside is committed before the client is told.                                   *)
CommitsAsAsked ==
  \A c \in Clients \ hasty :
    /\ \A id \in 1 .. Len(sent[c]) : <<c, id>> \in committed /\ Opened(c, id) => Asked(c, id)
    /\ \A i \in 1 .. Len(got[c]) :
         LET id == got[c][i].id
         IN  got[c][i].c = c /\ got[c][i].what = "ok" /\ sent[c][id].stmt = "change" /\ ~Opened(c, id)
               => <<c, id>> \in committed

Stalled == ev.pc = "read" /\ net[ev.c].reqs # <<>> /\ net[ev.c].reqs[1].half /\ ~net[ev.c].closed

Blank(c) == \E i \in 1 .. Len(sent[c]) : sent[c][i].stmt = "blank"

(* Every request of a client that waits is answered, but for blank ones, and unless  *)
(* some client leaves a message half sent for ever: the event thread does not give   *)
(* up reading it.                                                                    *)
Answered ==
  \A c \in Clients :
    <>[]Stalled \/ (Waiting(c) ~> ~Waiting(c) \/ c \in hasty \/ Blank(c) \/ ~Sound)
=============================================================================
