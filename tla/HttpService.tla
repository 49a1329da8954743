----------------------------- MODULE HttpService -----------------------------
(***************************************************************************)
(* on_device_llm_http_service (src/launcher/http_service.cpp): one thread  *)
(* that accepts a client, reads its request, generates, answers and hangs  *)
(* up, with the LLMRuntime of module Runtime inside.                       *)
(*                                                                         *)
(* What interleaves is the network: clients connect while another one is   *)
(* served, their bytes arrive in pieces of any size, they hang up at any   *)
(* time.  recv() has no timeout.                                           *)
(*                                                                         *)
(* A request is told by how many of its pieces have arrived.  The headers  *)
(* are two pieces, a header line and the rest up to the blank line, and    *)
(* the body is cut where extract_prompt can be misled by a missing rest:   *)
(*                                                                         *)
(*     {"prompt":    "te    xt"}                                           *)
(***************************************************************************)
EXTENDS Runtime

CONSTANTS
  Clients,
  Requests,   \* the requests clients send (a subset of Request)
  NetFaults   \* what may fail: "setup" (socket, bind or listen), "accept"

Request ==
  [prompt : {"text", "empty", "absent"},  \* the value of the "prompt" key
   length : {"exact",     \* Content-Length: and the body's length
             "short",     \* Content-Length: and less, as when characters are
                          \* counted that take several bytes
             "long",      \* Content-Length: and more than is ever sent
             "lower",     \* the length in another spelling: content-length:
             "absent",    \* no such header
             "bad"}]      \* no number, or one too large for std::stoi

ASSUME RequestsAssumption == Requests \subseteq Request
ASSUME ClientsAssumption  == NULL \notin Clients

HeaderPieces == 2
Pieces       == 5

VARIABLES
  at,       \* where main is
  queue,    \* connections waiting for accept, oldest first
  conn,     \* clientSock; NULL between clients
  got,      \* pieces of the request read so far
  prompt,   \* what extract_prompt made of them
  request,  \* client -> its request
  sent,     \* client -> pieces that have arrived on its connection
  gone,     \* clients that have hung up
  outcome   \* client -> "new", "waiting", or the reply sent to it: "missing",
            \* "response", or "failure" (the error text of generate, which is
            \* sent as a response, too)

netVars     == << at, queue, conn, got, prompt, request, sent, gone, outcome >>
clientVars  == << request, sent, gone >>

Serving == {"headers", "body", "extract", "generate", "send"}
Replies == {"missing", "response", "failure"}

HttpInit ==
  /\ Init
  /\ at = "start"
  /\ queue = << >>
  /\ conn = NULL
  /\ got = 0
  /\ prompt = "empty"
  /\ request \in [Clients -> Requests]
  /\ sent = [c \in Clients |-> 0]
  /\ gone = {}
  /\ outcome = [c \in Clients |-> "new"]

-----------------------------------------------------------------------------
(* The clients and the network. *)

Connect(c) ==
  /\ at \notin {"start", "leaving", "exited", "terminated"}
  /\ outcome[c] = "new"
  /\ outcome' = [outcome EXCEPT ![c] = "waiting"]
  /\ queue' = Append(queue, c)
  /\ UNCHANGED << at, conn, got, prompt, clientVars, vars >>

Arrive(c) ==
  /\ outcome[c] = "waiting"
  /\ c \notin gone
  /\ sent[c] < Pieces
  /\ sent' = [sent EXCEPT ![c] = @ + 1]
  /\ UNCHANGED << at, queue, conn, got, prompt, request, gone, outcome, vars >>

HangUp(c) ==
  /\ outcome[c] = "waiting"
  /\ c \notin gone
  /\ gone' = gone \cup {c}
  /\ UNCHANGED << at, queue, conn, got, prompt, request, sent, outcome, vars >>

-----------------------------------------------------------------------------
(* main up to its loop: the runtime is initialized first; then a socket    *)
(* call may fail, and main returns.                                        *)
Start ==
  /\ at = "start"
  /\ Initialize
  /\ \/ at' = "accept"
     \/ "setup" \in NetFaults /\ at' = "leaving"
  /\ UNCHANGED << queue, conn, got, prompt, clientVars, outcome >>

(* Faulty variant: the newest connection is served first.                  *)
AcceptNewest ==
  /\ at = "accept"
  /\ queue # << >>
  /\ conn' = Last(queue)
  /\ queue' = Front(queue)
  /\ at' = "headers"
  /\ UNCHANGED << got, prompt, clientVars, outcome, vars >>

Accept ==
  /\ at = "accept"
  /\ queue # << >>
  /\ conn' = Head(queue)
  /\ queue' = Tail(queue)
  /\ at' = "headers"
  /\ UNCHANGED << got, prompt, clientVars, outcome, vars >>

AcceptFails ==
  /\ at = "accept"
  /\ "accept" \in NetFaults
  /\ at' = "closing"
  /\ UNCHANGED << queue, conn, got, prompt, clientVars, outcome, vars >>

(* How far recv_all reads for the body: the announced length counts from   *)
(* the end of the headers, and no length is found under another spelling.  *)
Announced(r) ==
  CASE r.length = "exact"              -> Pieces
    [] r.length = "short"              -> Pieces - 1
    [] r.length = "long"               -> Pieces + 1
    [] r.length \in {"lower", "absent"} -> 0

(* Faulty variants: the body is waited for although it came with the       *)
(* headers; it is not waited for at all.                                   *)
AfterHeadersForgetting(r, n) == IF r.length = "exact" THEN "body" ELSE "extract"

AfterHeadersUnread(r, n) == "extract"

(* recv_all after its first loop, with n pieces read. *)
AfterHeaders(r, n) ==
  IF r.length = "bad" THEN "terminated"
  ELSE IF n < Announced(r) THEN "body"
  ELSE "extract"

(* recv returns some of what has arrived. *)
RecvHeaders ==
  /\ at = "headers"
  /\ \E n \in got + 1 .. sent[conn] :
       /\ got' = n
       /\ at' = IF n >= HeaderPieces THEN AfterHeaders(request[conn], n) ELSE at
  /\ UNCHANGED << queue, conn, prompt, clientVars, outcome, vars >>

RecvBody ==
  /\ at = "body"
  /\ \E n \in got + 1 .. sent[conn] :
       /\ got' = n
       /\ at' = AfterHeaders(request[conn], n)
  /\ UNCHANGED << queue, conn, prompt, clientVars, outcome, vars >>

(* Faulty variants: recv's -1 is added to the bytes read; a client that    *)
(* has hung up is skipped.                                                 *)
RecvEndsCounted ==
  /\ at \in {"headers", "body"}
  /\ conn \in gone
  /\ got' = got - 1
  /\ at' = "extract"
  /\ UNCHANGED << queue, conn, prompt, clientVars, outcome, vars >>

RecvEndsSkipping ==
  /\ at \in {"headers", "body"}
  /\ conn \in gone
  /\ at' = "accept"
  /\ conn' = NULL
  /\ UNCHANGED << queue, got, prompt, clientVars, outcome, vars >>

(* Faulty variant: recv's -1 is added and the loop goes on.                *)
RecvEndsLooping ==
  /\ at \in {"headers", "body"}
  /\ conn \in gone
  /\ got > 0
  /\ got' = got - 1
  /\ UNCHANGED << at, queue, conn, prompt, clientVars, outcome, vars >>

(* recv returns 0 or an error: the client has hung up.  What it had sent   *)
(* may be lost.                                                            *)
RecvEnds ==
  /\ at \in {"headers", "body"}
  /\ conn \in gone
  /\ at' = "extract"
  /\ UNCHANGED << queue, conn, got, prompt, clientVars, outcome, vars >>

(* extract_prompt on the first n pieces.  With the value missing, its      *)
(* opening quote is at npos, the search for the closing one wraps around   *)
(* to the start, and "{" is the prompt; with the closing quote missing     *)
(* the rest of the string is.                                              *)
Extracted(r, n) ==
  CASE r.prompt = "absent" \/ n < 3  -> "empty"
    [] r.prompt # "absent" /\ n = 3  -> "junk"
    [] r.prompt = "empty"  /\ n > 3  -> "empty"
    [] r.prompt = "text"   /\ n = 4  -> "cut"
    [] r.prompt = "text"   /\ n = 5  -> "whole"

(* No prompt: the answer is an error message, and generate is not called.  *)
NoPrompt ==
  /\ at = "extract"
  /\ Extracted(request[conn], got) = "empty"
  /\ prompt' = "empty"
  /\ at' = "send"
  /\ UNCHANGED << queue, conn, got, clientVars, outcome, vars >>

GenerateStarts ==
  /\ at = "extract"
  /\ Extracted(request[conn], got) # "empty"
  /\ prompt' = Extracted(request[conn], got)
  /\ Call("generate")
  /\ at' = "generate"
  /\ UNCHANGED << queue, conn, got, clientVars, outcome >>

(* Faulty variant: a handler catches the exception and serves the next.    *)
GenerateRunsGuarded ==
  /\ at = "generate"
  /\ Step
  /\ at' = IF stack' = << >> THEN "send" ELSE at
  /\ UNCHANGED << queue, conn, got, prompt, clientVars, outcome >>

(* runtime->generate.  main catches nothing: an exception that leaves      *)
(* generate ends the process.                                              *)
GenerateRuns ==
  /\ at = "generate"
  /\ Step
  /\ at' = IF stack' # << >> THEN at
           ELSE IF reply' = "threw" THEN "terminated" ELSE "send"
  /\ UNCHANGED << queue, conn, got, prompt, clientVars, outcome >>

(* send, closesocket, and the end of the iteration's local variables.      *)
(* Whether the client is still there is not looked at.                     *)
SendReply ==
  /\ at = "send"
  /\ outcome' = [outcome EXCEPT ![conn] =
                   IF prompt = "empty" THEN "missing"
                   ELSE IF reply = "ok" THEN "response" ELSE "failure"]
  /\ conn' = NULL
  /\ sent' = [sent EXCEPT ![conn] = 0]
  /\ got' = 0
  /\ prompt' = "empty"
  /\ at' = "accept"
  /\ UNCHANGED << queue, request, gone, vars >>

(* After the loop: shutdown, then main returns and destroys the runtime.   *)
ServiceShutdown ==
  /\ at = "closing"
  /\ Shutdown
  /\ at' = "leaving"
  /\ UNCHANGED << queue, conn, got, prompt, clientVars, outcome >>

ServiceLeaves ==
  /\ at = "leaving"
  /\ Destroy
  /\ at' = "exited"
  /\ UNCHANGED << queue, conn, got, prompt, clientVars, outcome >>

Server ==
  \/ Start \/ Accept
  \/ RecvHeaders \/ RecvBody \/ RecvEnds
  \/ NoPrompt \/ GenerateStarts \/ GenerateRuns \/ SendReply
  \/ ServiceShutdown \/ ServiceLeaves

HttpNext ==
  \/ Server
  \/ AcceptFails
  \/ \E c \in Clients : Connect(c) \/ Arrive(c) \/ HangUp(c)

HttpSpec == HttpInit /\ [][HttpNext]_<< vars, netVars >>

(* The server's thread runs whenever it is not waiting for the network,    *)
(* and a client that has connected sends its whole request unless it hangs *)
(* up; one that has announced more does hang up.  Without a timeout in     *)
(* recv the service depends on both.                                       *)
FairHttpSpec ==
  /\ HttpSpec
  /\ WF_<< vars, netVars >>(Server)
  /\ \A c \in Clients :
       /\ WF_<< vars, netVars >>(Arrive(c))
       /\ WF_<< vars, netVars >>(request[c].length = "long" /\ HangUp(c))

-----------------------------------------------------------------------------
HttpTypeOK ==
  /\ at \in {"start", "accept", "closing", "leaving", "exited", "terminated"} \cup Serving
  /\ queue \in Seq(Clients)
  /\ conn \in Clients \cup {NULL}
  /\ got \in 0 .. Pieces
  /\ prompt \in {"empty", "junk", "cut", "whole"}
  /\ request \in [Clients -> Requests]
  /\ sent \in [Clients -> 0 .. Pieces]
  /\ gone \subseteq Clients
  /\ outcome \in [Clients -> {"new", "waiting"} \cup Replies]

(* However a request is cut into pieces, and whoever connects or hangs up  *)
(* meanwhile: a client that announces its body and stays gets a response   *)
(* to its whole prompt, or is told the prompt is missing when it is.       *)
ChunksAreHarmless ==
  /\ \A c \in Clients \ gone :
       request[c].length = "exact" =>
         /\ outcome[c] \in {"response", "failure"} => request[c].prompt = "text"
         /\ outcome[c] = "missing"  => request[c].prompt # "text"
  /\ at = "generate" /\ request[conn].length = "exact" /\ conn \notin gone =>
       prompt = "whole"

(* A client is answered once, in its turn: the one being served and those  *)
(* in the queue are the ones waiting, each in one place.                   *)
EachInOnePlace ==
  /\ \A i, j \in DOMAIN queue : queue[i] = queue[j] => i = j
  /\ conn \notin ToSet(queue)
  /\ {c \in Clients : outcome[c] = "waiting"} = ToSet(queue) \cup ({conn} \ {NULL})

(* Between requests the service holds no model memory, whatever failed     *)
(* inside generate: every path that does not end the process unloads.      *)
LeanBetweenRequests ==
  at \notin {"generate", "terminated"} =>
    heap = {} /\ ~ backend /\ MemoryStats.allocated = 0

(* The service does not wear out: while the backend can be had, generate   *)
(* succeeds for every client or for none, whoever was served before, with  *)
(* whatever request.                                                       *)
SameVerdict ==
  "backend" \notin upset => ~ {"response", "failure"} \subseteq {outcome[c] : c \in Clients}

(* Every step of the server brings the answer of the client it serves      *)
(* nearer, and nothing the others do, or the client itself, puts it off:   *)
(* no recv loop turns without reading, no path leads back to an earlier    *)
(* part of a request.  EveryoneServed rests on this.                       *)
Left ==
  CASE at = "headers"       -> 30 - got
    [] at = "body"          -> 24 - got
    [] at = "extract"       -> 18
    [] at = "generate"      -> 1 + Remaining
    [] at = "send"          -> 1
    [] at \notin Serving    -> 0

RequestsAdvance ==
  [][(at \in Serving) =>
       IF Server THEN Left' < Left ELSE Left' = Left]_<< vars, netVars >>

(* Every client that connects is served, unless the process ends first.    *)
EveryoneServed ==
  \A c \in Clients :
    outcome[c] = "waiting" ~>
      outcome[c] # "waiting" \/ at \in {"exited", "terminated"}

-----------------------------------------------------------------------------
(* What the invariants above need to be inductive.                         *)

(* main has a client exactly between accept and send; one that is neither  *)
(* served nor in the queue has been answered or has not come.              *)
ConnInv ==
  /\ conn # NULL <=> at \in Serving \cup {"terminated"}
  /\ at = "start" => \A c \in Clients : outcome[c] = "new"

(* main calls the runtime in order and passes no on_token, so it is never  *)
(* disturbed by more than a failing backend, or the process has ended.     *)
QuietInv ==
  at # "terminated" =>
    /\ upset \subseteq {"backend"}
    /\ phase = IF at = "exited" THEN "destroyed" ELSE "alive"
    /\ at = "start" => mgr = NULL
    /\ at # "generate" => stack = << >>
    /\ at = "generate" =>
         /\ Len(stack) = 1
         /\ ~ Last(stack).on_token
         /\ Last(stack).pc \in Loading \cup {"unload"}

(* What main knows of a client that announced its body and has not left.   *)
UnderstoodInv ==
  at \in Serving /\ request[conn].length = "exact" /\ conn \notin gone =>
    /\ at = "extract"  => got = Pieces
    /\ at = "generate" => prompt = "whole" /\ request[conn].prompt = "text"
    /\ at = "send"     => prompt = "empty" <=> request[conn].prompt # "text"

(* What the answers so far say of the budget, which stays as it is.        *)
VerdictInv ==
  /\ at # "start" => mgr # NULL
  /\ at = "send" /\ prompt # "empty" => reply \in {"ok", "error"}
  /\ "backend" \notin upset =>
       \A c \in Clients :
         /\ outcome[c] = "response" => mgr.max >= WeightSize[tier] + KvSize[tier]
         /\ outcome[c] = "failure"  => mgr.max < WeightSize[tier] + KvSize[tier]

HttpIInv ==
  /\ HttpTypeOK
  /\ EachInOnePlace
  /\ ConnInv
  /\ QuietInv
  /\ UnderstoodInv
  /\ ChunksAreHarmless

-----------------------------------------------------------------------------
(* The service seen as a waiting line: the client being served is at its   *)
(* head until it is answered.                                              *)
Line ==
  INSTANCE WaitingLine
  WITH Customers <- Clients,
       line      <- IF conn = NULL THEN queue ELSE << conn >> \o queue,
       answered  <- {c \in Clients : outcome[c] \in Replies},
       door      <- IF at = "start" THEN "shut"
                    ELSE IF at \in {"accept", "closing"} \cup Serving THEN "open"
                    ELSE "closed"

(* Clients are answered once each, in the order in which they connected,   *)
(* whatever arrives meanwhile and whoever hangs up; once the service ends, *)
(* nobody is.                                                              *)
ImplementsLine == Line!Spec

-----------------------------------------------------------------------------
(* What the repository says and the code does not do.                      *)

(* "then read Content-Length bytes if present" (http_service.cpp:18).      *)
ReadsAnnouncedBody ==
  at = "extract" /\ request[conn].length \in {"exact", "lower"} /\ conn \notin gone =>
    got = Pieces
=============================================================================
