----------------------------- MODULE HttpServer -----------------------------
(***************************************************************************)
(* The HTTP server of src/net/http on the TCP server of src/concurrent/net:*)
(* Server.c keeps a pool of workers, one per connection, and Http_Server.c *)
(* with Request.c and Response.c reads requests and writes answers in the  *)
(* workers' callbacks, files piece by piece whenever the socket is         *)
(* writable.                                                               *)
(*                                                                         *)
(* All of it runs on the event thread. A callback is one step, except that *)
(* the loop of __write_body keeps the thread until the client has made     *)
(* room. A request is Hdr units of start line and headers and then its     *)
(* body; a receive takes all that has arrived. An answer is one unit of    *)
(* headers and then the units of the body.                                 *)
(***************************************************************************)
EXTENDS Integers, Sequences, SequencesExt, FiniteSets

CONSTANTS
    Client,
    Cap,      \* units the kernel holds for a client that does not read
    Setups,   \* what the clients do, see SetupOK
    None

Hdr == 2

\* What a request asks for: a file or a handler's answer of size units; a HEAD
\* or not; its Content-Length; "Connection: close" or not.
Request == [file : BOOLEAN, head : BOOLEAN, size : Nat, body : Nat, close : BOOLEAN]

\* The requests of each client, one connection at a time; the clients that do
\* not wait for an answer before the next request; those whose headers may
\* come in two segments; how many of the connections are aborted.
SetupOK(s) ==
    /\ s.script \in [Client -> Seq(Request)]
    /\ s.eager \subseteq Client /\ s.split \subseteq Client /\ s.aborts \in Nat

ASSUME HttpAssumption ==
    /\ Cap \in Nat \ {0} /\ IsFiniteSet(Client)
    /\ None \notin Client /\ None \notin [w : Nat, n : Nat]
    /\ \A s \in Setups : SetupOK(s)

VARIABLES
    up,       \* the server's process has not died
    conn,     \* per client: its connection, see Conn
    inb,      \* per client: what the server has not received yet
    out,      \* per client: what the server has sent and the client not read
    sent,     \* per client: units of its requests sent so far
    got,      \* per client: what it has read
    made,     \* workers allocated so far
    worker,   \* the workers: connection, task->cache, EV_WRITE, flags
    working,  \* server->working_workers
    leisure,  \* server->leisure_workers
    stuck,    \* the worker in whose __write_body the thread is, and its progress
    aborts,   \* connections aborted so far
    setup     \* the arrangement of this behaviour

poolVars   == <<made, worker, working, leisure>>
clientVars == <<sent, got, aborts, setup>>
vars       == <<up, conn, inb, out, poolVars, stuck, clientVars>>

\* st: not connected, in the backlog, accepted, closed by the server.
Conn == [st : {"idle", "backlog", "open", "closed"}, peer : {"on", "fin", "rst"}]

\* A worker is made only when none is at leisure: one too many can be told.
MaxWorkers == Cardinality(Client) + 1
Worker     == 1..MaxWorkers

\* A request being served: the client's request it began as, body units read,
\* whether a file is open for it and how much of it was written.
NoReq  == [r |-> 0]
NewReq == [r |-> 0, len |-> 0, file |-> FALSE, written |-> 0]

Asked(c, r)  == setup.script[c][r]
Requests(c)  == DOMAIN setup.script[c]

\* What a client sends, and what it should get.
Units(c, r)  == [p \in 1..(Hdr + Asked(c, r).body) |-> <<r, p>>]
Answer(c, r) == [p \in 1..(1 + (IF Asked(c, r).head THEN 0 ELSE Asked(c, r).size)) |-> <<r, p>>]
Stream(c)    == FlattenSeq([r \in Requests(c) |-> Units(c, r)])
Expected(c)  == FlattenSeq([r \in Requests(c) |-> Answer(c, r)])
\* How many of its answers a client has read.
Answered(c)  ==
    Cardinality({r \in Requests(c) : Last(Answer(c, r)) \in ToSet(got[c])})

Room(c) == Cap - Len(out[c])

-----------------------------------------------------------------------------
(* Clients and kernel: external.                                           *)

\* A client connects, also again after the server has closed.
Connect(c) ==
    /\ Answered(c) < Len(setup.script[c])
    /\ \/ conn[c].st = "idle"
       \/ /\ conn[c].st = "closed" /\ conn[c].peer = "on" /\ out[c] = <<>>
          /\ sent[c] = Len(FlattenSeq([r \in 1..Answered(c) |-> Units(c, r)]))
    /\ conn' = [conn EXCEPT ![c] = [st |-> "backlog", peer |-> "on"]]
    /\ inb' = [inb EXCEPT ![c] = <<>>]
    /\ UNCHANGED <<up, out, poolVars, stuck, clientVars>>

\* The next k units in one segment. A polite client has read the answers to
\* its earlier requests.
Segment(c, k) == SubSeq(Stream(c), sent[c] + 1, sent[c] + k)
Send(c, k) ==
    /\ conn[c] = [st |-> "open", peer |-> "on"] /\ sent[c] + k <= Len(Stream(c))
    /\ c \notin setup.eager => \A i \in 1..k : Segment(c, k)[i][1] = Answered(c) + 1
    /\ c \notin setup.split => Segment(c, k)[k][2] # 1
    /\ sent' = [sent EXCEPT ![c] = @ + k]
    /\ inb' = [inb EXCEPT ![c] = @ \o Segment(c, k)]
    /\ UNCHANGED <<up, conn, out, poolVars, stuck, got, aborts, setup>>

ReadAnswer(c) ==
    /\ out[c] # <<>> /\ conn[c].peer = "on"
    /\ got' = [got EXCEPT ![c] = Append(@, Head(out[c]))]
    /\ out' = [out EXCEPT ![c] = Tail(@)]
    /\ UNCHANGED <<up, conn, inb, poolVars, stuck, sent, aborts, setup>>

\* A client that has everything closes.
Fin(c) ==
    /\ conn[c] = [st |-> "open", peer |-> "on"] /\ Answered(c) = Len(setup.script[c])
    /\ conn' = [conn EXCEPT ![c].peer = "fin"]
    /\ UNCHANGED <<up, inb, out, poolVars, stuck, clientVars>>

\* A client disappears: its connection is reset.
Abort(c) ==
    /\ conn[c] = [st |-> "open", peer |-> "on"] /\ aborts < setup.aborts
    /\ aborts' = aborts + 1
    /\ conn' = [conn EXCEPT ![c].peer = "rst"]
    /\ out' = [out EXCEPT ![c] = <<>>] /\ inb' = [inb EXCEPT ![c] = <<>>]
    /\ UNCHANGED <<up, poolVars, stuck, sent, got, setup>>

-----------------------------------------------------------------------------
(* Server.c                                                                *)

Awake(w) == up /\ stuck = None /\ w \in working /\ conn[worker[w].c].st = "open"

\* __listenfd_ev_callback with __get_worker: a worker from the leisure list, or
\* a new one. assign sets its events and flags; its cache stays as it was.
Accept(c) ==
    /\ up /\ stuck = None /\ conn[c].st = "backlog"
    /\ \E w \in Worker :
        /\ IF leisure # <<>>
           THEN w = Head(leisure) /\ leisure' = Tail(leisure) /\ UNCHANGED made
           ELSE w = made + 1 /\ made' = w /\ UNCHANGED leisure
        /\ worker' = [worker EXCEPT ![w] = [@ EXCEPT !.c = c, !.write = FALSE, !.resigned = FALSE]]
        /\ working' = working \cup {w}
    /\ conn' = [conn EXCEPT ![c].st = "open"]
    /\ UNCHANGED <<up, inb, out, stuck, clientVars>>

\* Mutant: a worker that has resigned is put on the list again.
IntoLeisureEach(list, w, n) == list \o [i \in 1..n |-> w]

\* n calls of close_subsocket for one worker: resign says 1 only the first time.
IntoLeisure(list, w, n) == IF n = 0 THEN list ELSE Append(list, w)

\* The worker w goes on with the request q, after n calls of close_subsocket.
Goes(w, q, write, n) ==
    /\ worker' = [worker EXCEPT ![w] = [@ EXCEPT !.req = q, !.write = write /\ n = 0,
                                                !.resigned = n > 0,
                                                !.c = IF n > 0 THEN None ELSE worker[w].c]]
    /\ working' = IF n > 0 THEN working \ {w} ELSE working
    /\ leisure' = IntoLeisure(leisure, w, n)
    /\ conn' = IF n > 0 THEN [conn EXCEPT ![worker[w].c].st = "closed"] ELSE conn
    /\ UNCHANGED made

\* The destructor of a request that was read to its end closes the connection
\* if the client asked for it.
Closes(c, q) == IF Asked(c, q.r).close THEN 1 ELSE 0

-----------------------------------------------------------------------------
(* Http_Server.c, Request.c, Response.c                                    *)

Die == up' = FALSE /\ UNCHANGED <<conn, out, poolVars, stuck>>

\* Request read: the lines of the header must all be in the first chunk; then
\* everything that comes is body.
HasHeader(chunk) == \E i \in DOMAIN chunk : chunk[i][2] = Hdr
BodyOf(chunk)    == Len(chunk) - Hdr
Parsed(q, chunk) ==
    IF q = NoReq THEN [NewReq EXCEPT !.r = chunk[1][1], !.len = BodyOf(chunk)]
    ELSE [q EXCEPT !.len = @ + Len(chunk)]
Complete(c, q) == q.len = Asked(c, q.r).body

\* __write_headers: what does not fit is lost.
WithHeader(c, r) == IF Room(c) > 0 THEN Append(out[c], <<r, 1>>) ELSE out[c]

\* Mutant: the worker is not told to wait until the socket is writable.
NeverWaits(a) == FALSE
\* __response: adjust for every file, before Response write looks for a HEAD.
WaitsWritable(a) == a.file

\* process_request with response and write: the headers at once; of a file the
\* rest later; a handler's body now, which may take the thread along.
Respond(w, q) ==
    LET c == worker[w].c
        asked == Asked(c, q.r)
        write == worker[w].write \/ WaitsWritable(asked)
    IN /\ out' = [out EXCEPT ![c] = WithHeader(c, q.r)]
       /\ \/ /\ asked.file /\ ~asked.head
             /\ Goes(w, [q EXCEPT !.file = TRUE], write, 0)
             /\ UNCHANGED stuck
          \/ /\ asked.head \/ (~asked.file /\ asked.size = 0)
             /\ Goes(w, NoReq, write, Closes(c, q))
             /\ UNCHANGED stuck
          \/ /\ ~asked.head /\ ~asked.file /\ asked.size > 0
             /\ Goes(w, q, write, 0)
             /\ stuck' = [w |-> w, n |-> 0]

\* __http_work_for_read_callback with data. Without a whole header the request
\* is released through its socket, which is not set yet: the process dies.
OnRead(w) ==
    LET c     == worker[w].c
        chunk == inb[c]
        q     == Parsed(worker[w].req, chunk)
    IN /\ Awake(w) /\ chunk # <<>>
       /\ inb' = [inb EXCEPT ![c] = <<>>]
       /\ \/ /\ worker[w].req = NoReq /\ ~HasHeader(chunk)
             /\ Die
          \/ /\ worker[w].req # NoReq \/ HasHeader(chunk)
             /\ ~Complete(c, q)
             /\ Goes(w, q, worker[w].write, 0)
             /\ UNCHANGED <<up, out, stuck>>
          \/ /\ worker[w].req # NoReq \/ HasHeader(chunk)
             /\ Complete(c, q)
             /\ Respond(w, q)
             /\ UNCHANGED up
       /\ UNCHANGED clientVars

\* Response __write_body: try again until there is room; a connection that is
\* gone ends the process. Then the request is released.
WriteBody ==
    /\ up /\ stuck # None
    /\ LET w == stuck.w
           c == worker[w].c
           q == worker[w].req
           n == stuck.n + 1
       IN \/ /\ conn[c].peer = "rst"
             /\ Die
          \/ /\ conn[c].peer # "rst" /\ Room(c) > 0
             /\ out' = [out EXCEPT ![c] = Append(@, <<q.r, n + 1>>)]
             /\ IF n < Asked(c, q.r).size
                THEN stuck' = [stuck EXCEPT !.n = n] /\ UNCHANGED <<poolVars, conn>>
                ELSE stuck' = None /\ Goes(w, NoReq, worker[w].write, Closes(c, q))
             /\ UNCHANGED up
    /\ UNCHANGED <<inb, clientVars>>

\* The callbacks for a receive of nothing or an error: the request is released,
\* the connection closed.
OnEnd(w) ==
    LET c == worker[w].c
        q == worker[w].req
    IN /\ Awake(w) /\ inb[c] = <<>> /\ conn[c].peer # "on"
       /\ Goes(w, NoReq, FALSE, 1 + (IF q # NoReq /\ q.file THEN Closes(c, q) ELSE 0))
       /\ UNCHANGED <<up, inb, out, stuck, clientVars>>

\* Mutant: the file is not rewound after a partial send.
NoRewind(c, q)  == [pieces |-> IF Room(c) < Asked(c, q.r).size - q.written THEN Room(c)
                               ELSE Asked(c, q.r).size - q.written,
                    written |-> Asked(c, q.r).size]

\* __http_write_file: until the socket is full or the file is written.
FileChunk(c, q) ==
    LET left == Asked(c, q.r).size - q.written
        n    == IF Room(c) < left THEN Room(c) ELSE left
    IN [pieces |-> n, written |-> q.written + n]

\* __http_work_for_write_callback; any end of it closes the connection, also
\* that the request has no file to write.
OnWrite(w) ==
    LET c == worker[w].c
        q == worker[w].req
        f == FileChunk(c, q)
    IN /\ Awake(w) /\ worker[w].write /\ q # NoReq
       /\ Room(c) > 0 \/ conn[c].peer = "rst"
       /\ \/ /\ ~q.file
             /\ Goes(w, NoReq, FALSE, 1)
             /\ UNCHANGED <<up, out>>
          \/ /\ q.file /\ conn[c].peer = "rst"
             /\ Goes(w, NoReq, FALSE, 1 + Closes(c, q))
             /\ UNCHANGED <<up, out>>
          \/ /\ q.file /\ conn[c].peer # "rst"
             /\ out' = [out EXCEPT ![c] = @ \o [i \in 1..f.pieces |-> <<q.r, 1 + q.written + i>>]]
             /\ IF f.written = Asked(c, q.r).size
                THEN Goes(w, NoReq, FALSE, 1 + Closes(c, q))
                ELSE Goes(w, [q EXCEPT !.written = f.written], TRUE, 0)
             /\ UNCHANGED up
          \/ \* The log line after an empty file uses a variable that is not set.
             /\ q.file /\ Asked(c, q.r).size = 0
             /\ Die
       /\ UNCHANGED <<inb, stuck, clientVars>>

-----------------------------------------------------------------------------
Init ==
    /\ setup \in Setups
    /\ up = TRUE
    /\ conn = [c \in Client |-> [st |-> "idle", peer |-> "on"]]
    /\ inb = [c \in Client |-> <<>>] /\ out = [c \in Client |-> <<>>]
    /\ sent = [c \in Client |-> 0] /\ got = [c \in Client |-> <<>>]
    /\ made = 0 /\ working = {} /\ leisure = <<>> /\ stuck = None /\ aborts = 0
    /\ worker = [w \in Worker |-> [c |-> None, req |-> NoReq, write |-> FALSE, resigned |-> TRUE]]

Peer(c) == Connect(c) \/ ReadAnswer(c) \/ Fin(c) \/ Abort(c) \/ \E k \in 1..4 : Send(c, k)
Serve(w) == OnRead(w) \/ OnEnd(w) \/ OnWrite(w)

Next == (\E c \in Client : Peer(c) \/ Accept(c)) \/ (\E w \in Worker : Serve(w)) \/ WriteBody

Spec == Init /\ [][Next]_vars

\* Clients go on with what they do, and so does the event thread: each
\* descriptor has its turn.
FairSpec ==
    /\ Spec
    /\ \A c \in Client :
        /\ WF_vars(Connect(c)) /\ WF_vars(ReadAnswer(c)) /\ WF_vars(Accept(c))
        /\ WF_vars(\E k \in 1..4 : Send(c, k))
    /\ \A w \in Worker : WF_vars(Serve(w))
    /\ WF_vars(WriteBody)

-----------------------------------------------------------------------------
ReqOK(c, q) ==
    q # NoReq => /\ q.r \in Requests(c) /\ q.len \in Nat /\ q.file \in BOOLEAN
                 /\ q.written \in 0..Asked(c, q.r).size

\* Type invariant: no socket holds more than it can, and no file is written
\* past its end.
TypeOK ==
    /\ up \in BOOLEAN /\ conn \in [Client -> Conn]
    /\ \A c \in Client : Len(out[c]) <= Cap /\ sent[c] \in 0..Len(Stream(c))
    /\ made \in 0..MaxWorkers /\ working \subseteq Worker /\ ToSet(leisure) \subseteq Worker
    /\ \A w \in Worker :
        /\ worker[w].c \in Client \cup {None} /\ worker[w].write \in BOOLEAN
        /\ ReqOK(worker[w].c, worker[w].req)
    /\ stuck = None \/ stuck.w \in working

\* Every worker is working or at leisure, once; the working ones have one open
\* connection each, and every open connection has one; a worker at leisure has
\* nothing left of its last connection. Whatever order ends, errors, closes
\* asked for by the client and reuse come in; types included.
PoolSound ==
    /\ TypeOK
    /\ working \cap ToSet(leisure) = {} /\ working \cup ToSet(leisure) = 1..made
    /\ IsInjective(leisure)
    /\ \A c \in Client :
        Cardinality({w \in working : worker[w].c = c}) = (IF conn[c].st = "open" THEN 1 ELSE 0)
    /\ \A w \in working : worker[w].c # None
    /\ \A w \in ToSet(leisure) : worker[w].req = NoReq /\ ~worker[w].write /\ worker[w].resigned

\* A client that waits for its answers gets them in order, without a gap or
\* anything of another's, however the files are cut by full sockets; and the
\* server closes its connection only between two answers.
OwnResponses ==
    \A c \in Client \ setup.eager :
        /\ IsPrefix(got[c] \o out[c], Expected(c))
        /\ conn[c] = [st |-> "closed", peer |-> "on"]
            => \E n \in 0..Len(setup.script[c]) :
                   got[c] \o out[c] = FlattenSeq([r \in 1..n |-> Answer(c, r)])

\* A HEAD of a file leaves the worker waiting for writability; a later request
\* on that connection whose body comes in pieces is then cut off.
HeadBeforeBody(c) ==
    \E r, s \in Requests(c) : r < s /\ Asked(c, r).file /\ Asked(c, r).head /\ Asked(c, s).body > 0
\* What may end the process: a header in two segments, a connection aborted
\* under a handler's body, an empty file.
Harmless ==
    /\ setup.split = {} /\ setup.aborts = 0
    /\ \A c \in Client : \A r \in Requests(c) : Asked(c, r).file => Asked(c, r).size > 0

\* Every client that waits for its answers gets all of them, whatever the
\* other clients do short of what may end the process: a pipelining client
\* that is never answered, a slow one that holds the thread in __write_body.
EveryoneAnswered ==
    \A c \in Client :
        Harmless /\ c \notin setup.eager /\ ~HeadBeforeBody(c)
            => <>(Answered(c) = Len(setup.script[c]))
=============================================================================
