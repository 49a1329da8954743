------------------------------ MODULE HttpProofs ------------------------------
(***************************************************************************)
(* The HTTP service for any number of clients, any requests and any        *)
(* machine.                                                                *)
(*                                                                         *)
(* Every step of the service is one of the runtime or leaves it alone, so  *)
(* Runtime's theorems hold inside it.  That nothing is held between        *)
(* requests is then IdleHoldsNothing, once it is known that main calls the *)
(* runtime in an order that disturbs it by nothing but a failing backend,  *)
(* and ends the process at every exception (QuietInv).  The queue and the  *)
(* clients' outcomes are related by EachInOnePlace, which is inductive     *)
(* with ConnInv; what becomes of a request by UnderstoodInv.               *)
(***************************************************************************)
EXTENDS HttpService, LazyLoadingProofs

(* The steps of the service, by what they do to the runtime.               *)
LEMMA ServiceStepIsRuntimeStep ==
  ASSUME [HttpNext]_<< vars, netVars >>
  PROVE  [Next]_vars
<1>1. CASE Start
  BY <1>1 DEF Start, Next
<1>2. CASE GenerateStarts
  BY <1>2 DEF GenerateStarts, Next, Ops
<1>3. CASE GenerateRuns
  BY <1>3 DEF GenerateRuns, Next
<1>4. CASE ServiceShutdown \/ ServiceLeaves
  BY <1>4 DEF ServiceShutdown, ServiceLeaves, Next
<1>5. CASE Accept \/ AcceptFails \/ RecvHeaders \/ RecvBody \/ RecvEnds \/ NoPrompt \/ SendReply
  BY <1>5 DEF Accept, AcceptFails, RecvHeaders, RecvBody, RecvEnds, NoPrompt, SendReply
<1>6. CASE \E c \in Clients : Connect(c) \/ Arrive(c) \/ HangUp(c)
  BY <1>6 DEF Connect, Arrive, HangUp
<1>7. CASE UNCHANGED << vars, netVars >>
  BY <1>7
<1> QED BY <1>1, <1>2, <1>3, <1>4, <1>5, <1>6, <1>7 DEF HttpNext, Server

(* Inside the service the runtime behaves as Runtime says.                 *)
LEMMA ServiceRunsRuntime == HttpSpec => Spec
<1>1. HttpInit => Init
  BY DEF HttpInit
<1> QED BY <1>1, ServiceStepIsRuntimeStep, PTL DEF HttpSpec, Spec

-----------------------------------------------------------------------------
(* What the queue holds after a client has joined it, and after its head   *)
(* has left.                                                               *)
LEMMA QueueJoined ==
  ASSUME NEW T, NEW q \in Seq(T), NEW x \in T, x \notin ToSet(q),
         \A i, j \in DOMAIN q : q[i] = q[j] => i = j
  PROVE  /\ Append(q, x) \in Seq(T)
         /\ ToSet(Append(q, x)) = ToSet(q) \cup {x}
         /\ \A i, j \in DOMAIN Append(q, x) :
              Append(q, x)[i] = Append(q, x)[j] => i = j
<1> DEFINE a == Append(q, x)
           n == Len(q)
<1>1. /\ a \in Seq(T) /\ DOMAIN a = 1 .. n + 1 /\ a[n + 1] = x
      /\ \A i \in 1 .. n : a[i] = q[i]
      /\ DOMAIN q = 1 .. n /\ n \in Nat
  BY PushFacts
<1>2. 1 .. n + 1 = 1 .. n \cup {n + 1} /\ n + 1 \notin 1 .. n
  BY <1>1
<1> HIDE DEF a, n
<1>3. ToSet(a) = ToSet(q) \cup {x}
  BY <1>1, <1>2 DEF ToSet
<1>4. \A i \in 1 .. n : a[i] # x
  BY <1>1 DEF ToSet
<1>5. \A i, j \in DOMAIN a : a[i] = a[j] => i = j
  BY <1>1, <1>2, <1>4
<1> QED BY <1>1, <1>3, <1>5 DEF a

LEMMA QueueServed ==
  ASSUME NEW T, NEW q \in Seq(T), q # << >>,
         \A i, j \in DOMAIN q : q[i] = q[j] => i = j
  PROVE  /\ Tail(q) \in Seq(T) /\ Head(q) \in T
         /\ Head(q) \notin ToSet(Tail(q))
         /\ ToSet(q) = ToSet(Tail(q)) \cup {Head(q)}
         /\ \A i, j \in DOMAIN Tail(q) : Tail(q)[i] = Tail(q)[j] => i = j
<1> DEFINE t == Tail(q)
           n == Len(q)
<1>1. /\ t \in Seq(T) /\ DOMAIN t = 1 .. n - 1
      /\ \A i \in 1 .. n - 1 : t[i] = q[i + 1]
      /\ DOMAIN q = 1 .. n /\ n \in Nat \ {0}
      /\ Head(q) = q[1] /\ Head(q) \in T
  BY HeadTailProperties, EmptySeq
<1>2. /\ \A i \in 1 .. n - 1 : i + 1 \in 1 .. n /\ i + 1 # 1
      /\ \A i \in 1 .. n : i = 1 \/ (i - 1 \in 1 .. n - 1 /\ (i - 1) + 1 = i)
      /\ \A i, j \in 1 .. n - 1 : i + 1 = j + 1 => i = j
      /\ 1 \in 1 .. n
  BY <1>1
<1> HIDE DEF t, n
<1>3. Head(q) \notin ToSet(t)
  <2>1. SUFFICES ASSUME NEW i \in 1 .. n - 1
                 PROVE  t[i] # q[1]
    BY <1>1 DEF ToSet
  <2>2. i + 1 \in DOMAIN q /\ 1 \in DOMAIN q /\ i + 1 # 1 /\ t[i] = q[i + 1]
    BY <1>1, <1>2
  <2> QED BY <2>2
<1>4. ToSet(q) \subseteq ToSet(t) \cup {Head(q)}
  <2>1. SUFFICES ASSUME NEW i \in 1 .. n, i # 1
                 PROVE  q[i] \in ToSet(t)
    BY <1>1 DEF ToSet
  <2>2. t[i - 1] = q[i] /\ i - 1 \in DOMAIN t
    BY <1>1, <1>2, <2>1
  <2> QED BY <2>2 DEF ToSet
<1>5. ToSet(t) \cup {Head(q)} \subseteq ToSet(q)
  <2>1. \A i \in DOMAIN t : i + 1 \in DOMAIN q /\ t[i] = q[i + 1]
    BY <1>1, <1>2
  <2>2. \A i \in DOMAIN t : t[i] \in ToSet(q)
    BY <2>1 DEF ToSet
  <2>3. q[1] \in ToSet(q)
    BY <1>1, <1>2 DEF ToSet
  <2> QED BY <1>1, <2>2, <2>3 DEF ToSet
<1>6. \A i, j \in DOMAIN t : t[i] = t[j] => i = j
  <2>1. SUFFICES ASSUME NEW i \in 1 .. n - 1, NEW j \in 1 .. n - 1, t[i] = t[j]
                 PROVE  i = j
    BY <1>1
  <2>2. /\ i + 1 \in DOMAIN q /\ t[i] = q[i + 1]
        /\ j + 1 \in DOMAIN q /\ t[j] = q[j + 1]
    BY <1>1, <1>2
  <2>3. i + 1 = j + 1
    BY <2>1, <2>2
  <2> QED BY <1>2, <2>3
<1> QED BY <1>1, <1>3, <1>4, <1>5, <1>6 DEF t

(* Main's places are different, so that a step is enabled at one of them.  *)
Ats == {"start", "accept", "closing", "leaving", "exited", "terminated"} \cup Serving

(* The service's variables keep their types. *)
LEMMA HttpTyped ==
  ASSUME HttpTypeOK, ConnInv, EachInOnePlace, [HttpNext]_<< vars, netVars >>
  PROVE  HttpTypeOK'
<1>1. CASE Start
  BY <1>1 DEF Start, HttpTypeOK, clientVars
<1>2. CASE Accept
  <2>1. queue' \in Seq(Clients) /\ conn' \in Clients
    BY <1>2, QueueServed DEF Accept, HttpTypeOK, EachInOnePlace
  <2> QED BY <1>2, <2>1 DEF Accept, HttpTypeOK, clientVars, Serving
<1>3. CASE RecvHeaders \/ RecvBody
  <2>1. conn \in Clients
    BY <1>3 DEF RecvHeaders, RecvBody, ConnInv, HttpTypeOK, Serving
  <2>2. sent[conn] \in 0 .. Pieces /\ got \in 0 .. Pieces
    BY <2>1 DEF HttpTypeOK
  <2>3. got' \in 0 .. Pieces
    BY <1>3, <2>2 DEF RecvHeaders, RecvBody, Pieces
  <2>4. \A r, n : AfterHeaders(r, n) \in {"terminated", "body", "extract"}
    BY DEF AfterHeaders
  <2>5. at' \in Ats
    BY <1>3, <2>4 DEF RecvHeaders, RecvBody, Ats, Serving, HttpTypeOK
  <2> QED BY <1>3, <2>3, <2>5 DEF RecvHeaders, RecvBody, HttpTypeOK, clientVars, Ats
<1>4. CASE RecvEnds
  BY <1>4 DEF RecvEnds, HttpTypeOK, clientVars, Serving
<1>5. CASE NoPrompt
  BY <1>5 DEF NoPrompt, HttpTypeOK, clientVars, Serving
<1>6. CASE GenerateStarts
  <2>1. conn \in Clients /\ got \in 0 .. Pieces
    BY <1>6 DEF GenerateStarts, ConnInv, HttpTypeOK, Serving
  <2>2. request[conn].prompt \in {"text", "empty", "absent"}
    BY <2>1, RequestsAssumption DEF HttpTypeOK, Request
  <2>3. Extracted(request[conn], got) \in {"empty", "junk", "cut", "whole"}
    BY <2>1, <2>2 DEF Extracted, Pieces
  <2> QED BY <1>6, <2>3 DEF GenerateStarts, HttpTypeOK, clientVars, Serving
<1>7. CASE GenerateRuns
  BY <1>7 DEF GenerateRuns, HttpTypeOK, clientVars, Serving
<1>8. CASE SendReply
  <2>1. /\ 0 \in 0 .. Pieces
        /\ {"missing", "response", "failure"} \subseteq {"new", "waiting"} \cup Replies
    BY DEF Pieces, Replies
  <2>2. sent' \in [Clients -> 0 .. Pieces]
    BY <1>8, <2>1 DEF SendReply, HttpTypeOK
  <2>3. outcome' \in [Clients -> {"new", "waiting"} \cup Replies]
    BY <1>8, <2>1 DEF SendReply, HttpTypeOK
  <2> QED BY <1>8, <2>1, <2>2, <2>3 DEF SendReply, HttpTypeOK
<1>9. CASE ServiceShutdown \/ ServiceLeaves \/ AcceptFails
  BY <1>9 DEF ServiceShutdown, ServiceLeaves, AcceptFails, HttpTypeOK, clientVars
<1>10. ASSUME NEW c \in Clients, Connect(c)
       PROVE  HttpTypeOK'
  <2>1. queue' \in Seq(Clients)
    BY <1>10, PushFacts DEF Connect, HttpTypeOK
  <2> QED BY <1>10, <2>1 DEF Connect, HttpTypeOK, clientVars
<1>11. ASSUME NEW c \in Clients, Arrive(c)
       PROVE  HttpTypeOK'
  BY <1>11 DEF Arrive, HttpTypeOK, Pieces
<1>12. ASSUME NEW c \in Clients, HangUp(c)
       PROVE  HttpTypeOK'
  BY <1>12 DEF HangUp, HttpTypeOK
<1>13. CASE UNCHANGED << vars, netVars >>
  BY <1>13 DEF HttpTypeOK, netVars
<1> QED BY <1>1, <1>2, <1>3, <1>4, <1>5, <1>6, <1>7, <1>8, <1>9, <1>10, <1>11,
           <1>12, <1>13 DEF HttpNext, Server

(* Clients stay in one place each, and main has one when it says so.       *)
LEMMA PlacesStep ==
  ASSUME HttpTypeOK, ConnInv, EachInOnePlace, [HttpNext]_<< vars, netVars >>
  PROVE  ConnInv' /\ EachInOnePlace'
<1>0. NULL \notin Clients
  BY ClientsAssumption
<1>1. CASE Accept
  <2>1. /\ conn = NULL /\ queue # << >>
        /\ conn' = Head(queue) /\ queue' = Tail(queue)
        /\ at' = "headers" /\ outcome' = outcome
    BY <1>1 DEF Accept, ConnInv, Serving
  <2>2. /\ Head(queue) \in Clients
        /\ Head(queue) \notin ToSet(Tail(queue))
        /\ ToSet(queue) = ToSet(Tail(queue)) \cup {Head(queue)}
        /\ \A i, j \in DOMAIN Tail(queue) : Tail(queue)[i] = Tail(queue)[j] => i = j
    BY <2>1, QueueServed DEF EachInOnePlace, HttpTypeOK
  <2>3. ConnInv'
    BY <1>0, <2>1, <2>2 DEF ConnInv, Serving
  <2>4. EachInOnePlace'
    BY <1>0, <2>1, <2>2 DEF EachInOnePlace
  <2> QED BY <2>3, <2>4
<1>2. CASE SendReply
  <2>1. /\ conn \in Clients /\ conn \notin ToSet(queue)
        /\ conn' = NULL /\ queue' = queue /\ at' = "accept"
    BY <1>2 DEF SendReply, ConnInv, EachInOnePlace, HttpTypeOK, Serving
  <2>2. /\ outcome'[conn] # "waiting"
        /\ \A c \in Clients \ {conn} : outcome'[c] = outcome[c]
    BY <1>2, <2>1 DEF SendReply, HttpTypeOK
  <2>3. NULL \notin ToSet(queue)
    BY <1>0 DEF EachInOnePlace
  <2> QED BY <2>1, <2>2, <2>3 DEF ConnInv, EachInOnePlace, Serving
<1>3. ASSUME NEW c \in Clients, Connect(c)
      PROVE  ConnInv' /\ EachInOnePlace'
  <2>1. /\ outcome[c] = "new" /\ queue' = Append(queue, c)
        /\ conn' = conn /\ at' = at /\ at # "start"
        /\ outcome' = [outcome EXCEPT ![c] = "waiting"]
    BY <1>3 DEF Connect
  <2>2. c \notin ToSet(queue) /\ c # conn
    BY <1>0, <2>1 DEF EachInOnePlace
  <2>3. /\ ToSet(queue') = ToSet(queue) \cup {c}
        /\ \A i, j \in DOMAIN queue' : queue'[i] = queue'[j] => i = j
    BY <2>1, <2>2, QueueJoined DEF EachInOnePlace, HttpTypeOK
  <2>4. \A d \in Clients : outcome'[d] = IF d = c THEN "waiting" ELSE outcome[d]
    BY <2>1 DEF HttpTypeOK
  <2> QED BY <2>1, <2>2, <2>3, <2>4 DEF ConnInv, EachInOnePlace
<1>4. ASSUME UNCHANGED << queue, conn, outcome >>
      PROVE  EachInOnePlace'
  BY <1>4 DEF EachInOnePlace
<1>5. CASE Start \/ ServiceShutdown \/ ServiceLeaves \/ AcceptFails
  BY <1>4, <1>5 DEF Start, ServiceShutdown, ServiceLeaves, AcceptFails, ConnInv, Serving
<1>6. CASE RecvHeaders \/ RecvBody
  <2>1. \A r, n : AfterHeaders(r, n) \in {"terminated", "body", "extract"}
    BY DEF AfterHeaders
  <2> QED BY <1>4, <1>6, <2>1 DEF RecvHeaders, RecvBody, ConnInv, Serving
<1>7. CASE RecvEnds \/ NoPrompt \/ GenerateStarts \/ GenerateRuns
  BY <1>4, <1>7 DEF RecvEnds, NoPrompt, GenerateStarts, GenerateRuns, ConnInv, Serving
<1>8. CASE (\E c \in Clients : Arrive(c) \/ HangUp(c)) \/ UNCHANGED << vars, netVars >>
  BY <1>4, <1>8 DEF Arrive, HangUp, ConnInv, netVars
<1> QED BY <1>1, <1>2, <1>3, <1>5, <1>6, <1>7, <1>8 DEF HttpNext, Server

-----------------------------------------------------------------------------
(* One step of a call of generate, without an on_token: it goes on, ends,  *)
(* or is left by an exception.                                             *)
LEMMA GenerateStep ==
  ASSUME IInv, Step, Len(stack) = 1, ~ Last(stack).on_token,
         Last(stack).pc \in Loading \cup {"unload"}, upset \subseteq {"backend"}
  PROVE  \/ stack' = << >> /\ reply' = "threw"
         \/ /\ upset' \subseteq {"backend"}
            /\ phase' = phase
            /\ stack' = << >> => reply' \in {"ok", "error"}
            /\ stack' # << >> =>
                 /\ Len(stack') = 1
                 /\ ~ Last(stack').on_token
                 /\ Last(stack').pc \in Loading \cup {"unload"}
<1>1. stack \in Seq(Frame) /\ stack # << >>
  BY DEF IInv, TypeOK
<1>2. \A r : Return(r) => stack' = << >> /\ reply' = r
  <2>1. Front(stack) = << >>
    BY <1>1, PopFacts, EmptySeq
  <2> QED BY <2>1 DEF Return
<1>3. ASSUME NEW pc \in Loading \cup {"unload"}, Goto(pc)
      PROVE  /\ Len(stack') = 1
             /\ stack' # << >>
             /\ ~ Last(stack').on_token
             /\ Last(stack').pc \in Loading \cup {"unload"}
  BY <1>1, <1>3, GotoStack DEF Pcs
<1>4. CASE WeightsAllocated \/ KvAllocated \/ CreateBackend
  BY <1>3, <1>4 DEF WeightsAllocated, KvAllocated, CreateBackend, Loading
<1>5. CASE InitBackend
  BY <1>3, <1>5 DEF InitBackend
<1>6. CASE WeightsRefused \/ KvRefused \/ CreateFails \/ InitFails \/ Unload
  BY <1>2, <1>6 DEF WeightsRefused, KvRefused, CreateFails, InitFails, Unload
<1>7. CASE WeightsThrow \/ KvThrows \/ TokenThrows
  BY <1>2, <1>7 DEF WeightsThrow, KvThrows, AllocationThrows, TokenThrows
<1>8. CASE TokenReturns \/ ThirdTokenCrashes
  BY <1>8 DEF TokenReturns, ThirdTokenCrashes, At, Loading
<1> QED BY <1>4, <1>5, <1>6, <1>7, <1>8 DEF Step

(* Main disturbs the runtime by nothing but a failing backend.             *)
LEMMA QuietStep ==
  ASSUME IInv, IdleHoldsNothing, HttpTypeOK, QuietInv, [HttpNext]_<< vars, netVars >>
  PROVE  QuietInv'
<1>1. CASE Start
  <2>1. heap = {} /\ stack = << >> /\ upset \subseteq {"backend"} /\ phase = "alive"
    BY <1>1 DEF Start, QuietInv, IInv, ManagerInv
  <2> QED BY <1>1, <2>1 DEF Start, Initialize, InitializeOn, Nested, QuietInv
<1>2. CASE GenerateStarts
  <2>1. stack = << >> /\ upset \subseteq {"backend"} /\ phase = "alive"
    BY <1>2 DEF GenerateStarts, QuietInv
  <2>2. Held = {}
    BY <2>1 DEF IdleHoldsNothing, Losing
  <2>3. PICK f \in [op : {"generate"}, pc : {"weights"}, on_token : BOOLEAN] :
          /\ f.on_token => "generate" = "streaming"
          /\ stack' = Append(stack, f)
    BY <1>2 DEF GenerateStarts, Call
  <2>4. Len(stack') = 1 /\ Last(stack') = f
    BY <2>1, <2>3 DEF Last
  <2>5. ~ Last(stack').on_token /\ Last(stack').pc \in Loading
    BY <2>3, <2>4 DEF Loading
  <2> QED BY <1>2, <2>1, <2>2, <2>4, <2>5 DEF GenerateStarts, Call, Nested, QuietInv
<1>3. CASE GenerateRuns
  BY <1>3, GenerateStep DEF GenerateRuns, QuietInv
<1>4. CASE ServiceShutdown
  BY <1>4 DEF ServiceShutdown, Shutdown, Nested, QuietInv
<1>5. CASE ServiceLeaves
  BY <1>5 DEF ServiceLeaves, Destroy, QuietInv
<1>6. CASE UNCHANGED vars /\ at' = at
  BY <1>6 DEF QuietInv, vars
<1>7. CASE RecvHeaders \/ RecvBody
  <2>1. \A r, n : AfterHeaders(r, n) \in {"terminated", "body", "extract"}
    BY DEF AfterHeaders
  <2> QED BY <1>7, <2>1 DEF RecvHeaders, RecvBody, QuietInv, vars
<1>8. CASE Accept \/ AcceptFails \/ RecvEnds \/ NoPrompt \/ SendReply
  BY <1>8 DEF Accept, AcceptFails, RecvEnds, NoPrompt, SendReply, QuietInv, vars
<1> QED BY <1>1, <1>2, <1>3, <1>4, <1>5, <1>6, <1>7, <1>8
        DEF HttpNext, Server, Connect, Arrive, HangUp, netVars

-----------------------------------------------------------------------------
(* A client that announced its body and stays is understood.               *)
LEMMA UnderstoodStep ==
  ASSUME HttpTypeOK, ConnInv, UnderstoodInv, ChunksAreHarmless,
         [HttpNext]_<< vars, netVars >>
  PROVE  UnderstoodInv' /\ ChunksAreHarmless'
<1>0. at \in Serving => conn \in Clients
  BY DEF ConnInv, HttpTypeOK
<1>1. CASE RecvHeaders \/ RecvBody
  <2>1. /\ UNCHANGED << conn, request, gone, outcome >>
        /\ conn \in Clients /\ at' # "generate" /\ at' # "send"
    BY <1>0, <1>1 DEF RecvHeaders, RecvBody, AfterHeaders, clientVars, Serving
  <2>2. ASSUME at' = "extract", request[conn].length = "exact"
        PROVE  got' = Pieces
    <3>1. got' \in got + 1 .. sent[conn] /\ AfterHeaders(request[conn], got') = "extract"
      BY <1>1, <2>2 DEF RecvHeaders, RecvBody
    <3>2. sent[conn] \in 0 .. Pieces /\ got \in 0 .. Pieces
      BY <2>1 DEF HttpTypeOK
    <3>3. ~ (got' < Pieces)
      BY <2>2, <3>1 DEF AfterHeaders, Announced
    <3> QED BY <3>1, <3>2, <3>3 DEF Pieces
  <2> QED BY <2>1, <2>2 DEF UnderstoodInv, ChunksAreHarmless
<1>2. CASE RecvEnds
  BY <1>2 DEF RecvEnds, UnderstoodInv, ChunksAreHarmless, clientVars
<1>3. CASE NoPrompt \/ GenerateStarts
  <2>1. /\ UNCHANGED << conn, request, gone, outcome >>
        /\ conn \in Clients /\ at = "extract" /\ at \in Serving
    BY <1>0, <1>3 DEF NoPrompt, GenerateStarts, clientVars, Serving
  <2>2. request[conn].prompt \in {"text", "empty", "absent"}
    BY <2>1, RequestsAssumption DEF HttpTypeOK, Request
  <2>3. ASSUME request[conn].length = "exact", conn \notin gone
        PROVE  Extracted(request[conn], got)
                 = IF request[conn].prompt = "text" THEN "whole" ELSE "empty"
    <3>1. got = 5
      BY <2>1, <2>3 DEF UnderstoodInv, Pieces
    <3> QED BY <2>2, <3>1 DEF Extracted
  <2> QED BY <1>3, <2>1, <2>3
          DEF NoPrompt, GenerateStarts, UnderstoodInv, ChunksAreHarmless
<1>4. CASE GenerateRuns
  BY <1>4 DEF GenerateRuns, UnderstoodInv, ChunksAreHarmless, clientVars, Serving
<1>5. CASE SendReply
  <2>1. /\ UNCHANGED << request, gone >> /\ at' = "accept"
        /\ conn \in Clients
        /\ at = "send" /\ at \in Serving
    BY <1>0, <1>5 DEF SendReply, Serving
  <2>2. \A c \in Clients \ {conn} : outcome'[c] = outcome[c]
    BY <1>5 DEF SendReply, HttpTypeOK
  <2>3. /\ prompt = "empty" => outcome'[conn] = "missing"
        /\ prompt # "empty" => outcome'[conn] \in {"response", "failure"}
    BY <1>5, <2>1 DEF SendReply, HttpTypeOK
  <2>4. request[conn].length = "exact" /\ conn \notin gone =>
          (prompt = "empty" <=> request[conn].prompt # "text")
    BY <2>1 DEF UnderstoodInv
  <2> QED BY <2>1, <2>2, <2>3, <2>4 DEF UnderstoodInv, ChunksAreHarmless, Serving
<1>6. CASE Start \/ Accept \/ AcceptFails \/ ServiceShutdown \/ ServiceLeaves
  BY <1>6 DEF Start, Accept, AcceptFails, ServiceShutdown, ServiceLeaves,
              UnderstoodInv, ChunksAreHarmless, clientVars, Serving
<1>7. ASSUME NEW c \in Clients, Connect(c)
      PROVE  UnderstoodInv' /\ ChunksAreHarmless'
  <2>1. \A d \in Clients : outcome'[d] = IF d = c THEN "waiting" ELSE outcome[d]
    BY <1>7 DEF Connect, HttpTypeOK
  <2> QED BY <1>7, <2>1 DEF Connect, UnderstoodInv, ChunksAreHarmless, clientVars
<1>8. CASE (\E c \in Clients : Arrive(c) \/ HangUp(c)) \/ UNCHANGED << vars, netVars >>
  BY <1>8 DEF Arrive, HangUp, UnderstoodInv, ChunksAreHarmless, netVars
<1> QED BY <1>1, <1>2, <1>3, <1>4, <1>5, <1>6, <1>7, <1>8 DEF HttpNext, Server

-----------------------------------------------------------------------------
(* The invariant of the service. *)
LEMMA ServiceIInv == HttpSpec => []HttpIInv
<1>1. HttpInit => HttpIInv
  <2>1. SUFFICES ASSUME HttpInit PROVE HttpIInv
    OBVIOUS
  <2>2. ToSet(<< >>) = {} /\ << >> \in Seq(Clients)
    BY DEF ToSet
  <2>3. HttpTypeOK
    BY <2>1, <2>2 DEF HttpInit, HttpTypeOK, Pieces
  <2>4. EachInOnePlace
    BY <2>1, <2>2 DEF HttpInit, EachInOnePlace
  <2>5. ConnInv /\ QuietInv /\ UnderstoodInv /\ ChunksAreHarmless
    BY <2>1 DEF HttpInit, Init, ConnInv, QuietInv, UnderstoodInv, ChunksAreHarmless, Serving
  <2> QED BY <2>3, <2>4, <2>5 DEF HttpIInv
<1>2. HttpIInv /\ IInv /\ IdleHoldsNothing /\ [HttpNext]_<< vars, netVars >> => HttpIInv'
  BY HttpTyped, PlacesStep, QuietStep, UnderstoodStep DEF HttpIInv
<1>3. HttpSpec => []IInv /\ []IdleHoldsNothing
  BY ServiceRunsRuntime, SpecIInv, IdleIsEmpty, PTL
<1> QED BY <1>1, <1>2, <1>3, PTL DEF HttpSpec

(* The service's variables keep their types. *)
THEOREM ServiceTypeCorrect == HttpSpec => []HttpTypeOK
<1>1. HttpIInv => HttpTypeOK
  BY DEF HttpIInv
<1> QED BY <1>1, ServiceIInv, PTL

(* However many clients there are: the queue holds nobody twice, and those *)
(* in it and the one being served are the ones still unanswered.           *)
THEOREM ClientsInOnePlace == HttpSpec => []EachInOnePlace
<1>1. HttpIInv => EachInOnePlace
  BY DEF HttpIInv
<1> QED BY <1>1, ServiceIInv, PTL

(* A client that announces its body and stays is answered for its whole    *)
(* prompt, however its bytes are cut and whatever the others do.           *)
THEOREM ChunksNeverMatter == HttpSpec => []ChunksAreHarmless
<1>1. HttpIInv => ChunksAreHarmless
  BY DEF HttpIInv
<1> QED BY <1>1, ServiceIInv, PTL

(* Between requests the service holds no model memory, on any machine and  *)
(* whatever failed in generate.                                            *)
THEOREM ServiceStaysLean == HttpSpec => []LeanBetweenRequests
<1>1. HttpIInv /\ IdleHoldsNothing => LeanBetweenRequests
  BY DEF HttpIInv, QuietInv, IdleHoldsNothing, LeanBetweenRequests, Losing
<1>2. HttpSpec => []IdleHoldsNothing
  BY ServiceRunsRuntime, IdleIsEmpty, PTL
<1> QED BY <1>1, <1>2, ServiceIInv, PTL

-----------------------------------------------------------------------------
(* Only Start changes the budget the answers depend on, and an answer sent *)
(* is the runtime's reply on that budget.                                  *)
LEMMA VerdictStep ==
  ASSUME IInv, IInv', ChargedInv, HttpIInv, VerdictInv, [HttpNext]_<< vars, netVars >>
  PROVE  VerdictInv'
<1> DEFINE demand == WeightSize[tier] + KvSize[tier]
<1>1. CASE Start
  <2>1. /\ at' # "send" /\ outcome' = outcome
        /\ \A c \in Clients : outcome[c] = "new"
    BY <1>1 DEF Start, HttpIInv, ConnInv
  <2>2. mgr' # NULL
    <3>1. PICK m \in Machines : mgr' = NewManager(m.available)
      BY <1>1 DEF Start, Initialize, InitializeOn
    <3>2. m.available \in Budgets
      BY MachinesAssumption
    <3> QED BY <3>1, <3>2, NewManagerConsistent, ManagerNotNull
  <2> QED BY <2>1, <2>2 DEF VerdictInv
<1>2. ASSUME at # "start",
             "backend" \in upset => "backend" \in upset',
             tier' = tier, mgr # NULL <=> mgr' # NULL, mgr # NULL => mgr'.max = mgr.max,
             outcome' = outcome,
             at' = "send" /\ prompt' # "empty" => reply' \in {"ok", "error"}
      PROVE  VerdictInv'
  BY <1>2 DEF VerdictInv
<1>3. CASE GenerateStarts \/ GenerateRuns \/ ServiceShutdown \/ ServiceLeaves
  <2>1. \/ \E op \in Ops : Call(op) \/ CallTooEarly(op)
        \/ Step \/ Shutdown \/ Destroy
    BY <1>3 DEF GenerateStarts, GenerateRuns, ServiceShutdown, ServiceLeaves, Ops
  <2>2. /\ tier' = tier /\ (mgr # NULL <=> mgr' # NULL)
        /\ mgr # NULL => mgr'.max = mgr.max
    BY <2>1, MachineUnchanged
  <2>3. upset \subseteq upset'
    BY <2>1 DEF Call, CallTooEarly, Shutdown, Destroy, Step,
       WeightsAllocated, WeightsRefused, WeightsThrow, KvAllocated, KvRefused,
       KvThrows, AllocationThrows, CreateBackend, CreateFails, InitBackend,
       InitFails, TokenReturns, ThirdTokenCrashes, TokenThrows, Unload
  <2>4. at # "start" /\ outcome' = outcome
    BY <1>3 DEF GenerateStarts, GenerateRuns, ServiceShutdown, ServiceLeaves
  <2>5. at' = "send" => reply' \in {"ok", "error"}
    <3>1. at' = "send" => GenerateRuns /\ stack' = << >> /\ reply' # "threw"
      BY <1>3 DEF GenerateStarts, GenerateRuns, ServiceShutdown, ServiceLeaves
    <3>2. GenerateRuns => /\ Step /\ Len(stack) = 1 /\ ~ Last(stack).on_token
                          /\ Last(stack).pc \in Loading \cup {"unload"}
                          /\ upset \subseteq {"backend"}
      BY DEF GenerateRuns, HttpIInv, QuietInv
    <3> QED BY <3>1, <3>2, GenerateStep
  <2> QED BY <1>2, <2>2, <2>3, <2>4, <2>5
<1>4. CASE SendReply
  <2>1. /\ at = "send" /\ at' = "accept" /\ UNCHANGED << mgr, tier, upset >>
        /\ conn \in Clients
    BY <1>4 DEF SendReply, vars, HttpIInv, ConnInv, HttpTypeOK, Serving
  <2>2. /\ \A c \in Clients \ {conn} : outcome'[c] = outcome[c]
        /\ outcome'[conn] = IF prompt = "empty" THEN "missing"
                            ELSE IF reply = "ok" THEN "response" ELSE "failure"
    BY <1>4, <2>1 DEF SendReply, HttpIInv, HttpTypeOK
  <2>3. mgr # NULL /\ (prompt # "empty" => reply \in {"ok", "error"})
    BY <2>1 DEF VerdictInv
  <2>4. "backend" \notin upset => upset = {}
    BY <2>1 DEF HttpIInv, QuietInv
  <2>5. "backend" \notin upset =>
          /\ reply = "error" => mgr.max < demand
          /\ reply = "ok" => mgr.max >= demand
    BY <2>3, <2>4 DEF ChargedInv, OutcomeInv, Demand
  <2> QED BY <2>1, <2>2, <2>3, <2>5 DEF VerdictInv
<1>5. ASSUME NEW c \in Clients, Connect(c)
      PROVE  VerdictInv'
  <2>1. \A d \in Clients : outcome'[d] = IF d = c THEN "waiting" ELSE outcome[d]
    BY <1>5 DEF Connect, HttpIInv, HttpTypeOK
  <2> QED BY <1>5, <2>1 DEF Connect, VerdictInv, vars
<1>6. CASE RecvHeaders \/ RecvBody
  <2>1. \A r, n : AfterHeaders(r, n) \in {"terminated", "body", "extract"}
    BY DEF AfterHeaders
  <2> QED BY <1>2, <1>6, <2>1 DEF RecvHeaders, RecvBody, vars
<1>7. CASE Accept \/ AcceptFails \/ RecvEnds \/ NoPrompt
  BY <1>2, <1>7 DEF Accept, AcceptFails, RecvEnds, NoPrompt, vars
<1>8. CASE (\E c \in Clients : Arrive(c) \/ HangUp(c)) \/ UNCHANGED << vars, netVars >>
  BY <1>8 DEF Arrive, HangUp, VerdictInv, vars, netVars
<1> QED BY <1>1, <1>3, <1>4, <1>5, <1>6, <1>7, <1>8 DEF HttpNext, Server

(* The service does not wear out: with the backend available, one verdict  *)
(* on generate holds for all clients, whatever was served before.          *)
THEOREM ServiceDoesNotWear == HttpSpec => []SameVerdict
<1>1. HttpInit => VerdictInv
  BY DEF HttpInit, VerdictInv
<1>2. HttpSpec => []IInv /\ []ChargedInv
  BY ServiceRunsRuntime, SpecIInv, SpecCharged, PTL
<1>3. HttpSpec => []VerdictInv
  BY <1>1, <1>2, ServiceIInv, VerdictStep, PTL DEF HttpSpec
<1>4. IInv /\ HttpIInv /\ VerdictInv => SameVerdict
  <2>1. SUFFICES ASSUME IInv, HttpIInv, VerdictInv, "backend" \notin upset,
                        NEW c \in Clients, outcome[c] = "response",
                        NEW d \in Clients, outcome[d] = "failure"
                 PROVE  FALSE
    BY DEF SameVerdict
  <2>2. mgr # NULL
    BY <2>1 DEF HttpIInv, ConnInv, VerdictInv
  <2>3. mgr.max \in Nat /\ WeightSize[tier] + KvSize[tier] \in Nat
    <3>1. tier \in Tiers /\ mgr.max \in Budgets
      BY <2>1, <2>2 DEF IInv, ManagerInv, Consistent
    <3>2. WeightSize[tier] \in Nat /\ KvSize[tier] \in Nat
      BY <3>1, SizesAssumption
    <3>3. mgr.max \in Nat
      BY <3>1, WidthAssumption
    <3>4. \A a, b \in Nat : a + b \in Nat
      OBVIOUS
    <3> QED BY <3>2, <3>3, <3>4
  <2>4. mgr.max >= WeightSize[tier] + KvSize[tier] /\ mgr.max < WeightSize[tier] + KvSize[tier]
    BY <2>1 DEF VerdictInv
  <2> QED BY <2>3, <2>4
<1> QED BY <1>2, <1>3, <1>4, ServiceIInv, PTL

-----------------------------------------------------------------------------
(* A sequence with x put before its head. *)
LEMMA ConsFacts ==
  ASSUME NEW T, NEW q \in Seq(T), NEW x \in T
  PROVE  /\ << x >> \o q \in Seq(T)
         /\ << x >> \o q # << >>
         /\ Head(<< x >> \o q) = x
         /\ Tail(<< x >> \o q) = q
         /\ ToSet(<< x >> \o q) = ToSet(q) \cup {x}
<1> DEFINE s == << x >> \o q
           n == Len(q)
<1>1. /\ << x >> \in Seq(T) /\ Len(<< x >>) = 1 /\ << x >>[1] = x
      /\ n \in Nat /\ DOMAIN q = 1 .. n
  OBVIOUS
<1>2. /\ s \in Seq(T) /\ Len(s) = 1 + n
      /\ \A i \in 1 .. 1 + n : s[i] = IF i <= 1 THEN << x >>[i] ELSE q[i - 1]
  BY <1>1, ConcatProperties
<1>3. DOMAIN s = 1 .. n + 1 /\ s # << >> /\ Len(s) = n + 1
  BY <1>1, <1>2
<1>4. s[1] = x
  BY <1>1, <1>2
<1>5. \A i \in 1 .. n : s[i + 1] = q[i]
  BY <1>1, <1>2
<1> HIDE DEF s
<1>6. Head(s) = x
  BY <1>3, <1>4
<1>7. Tail(s) = q
  <2>1. /\ Tail(s) \in Seq(T) /\ Len(Tail(s)) = n
        /\ \A i \in 1 .. n : Tail(s)[i] = s[i + 1]
    BY <1>1, <1>2, <1>3, HeadTailProperties
  <2> QED BY <1>1, <1>5, <2>1, SeqEqual
<1>8. ToSet(s) = ToSet(q) \cup {x}
  <2>1. \A i \in 1 .. n + 1 : s[i] \in ToSet(q) \cup {x}
    <3>1. SUFFICES ASSUME NEW i \in 1 .. n + 1, i # 1
                   PROVE  s[i] \in ToSet(q)
      BY <1>4
    <3>2. i - 1 \in 1 .. n /\ (i - 1) + 1 = i
      BY <1>1, <3>1
    <3>3. s[i] = q[i - 1] /\ i - 1 \in DOMAIN q
      BY <1>1, <1>5, <3>2
    <3> QED BY <3>3 DEF ToSet
  <2>2. \A i \in 1 .. n : q[i] \in ToSet(s)
    <3>1. SUFFICES ASSUME NEW i \in 1 .. n PROVE q[i] \in ToSet(s)
      OBVIOUS
    <3>2. i + 1 \in DOMAIN s /\ s[i + 1] = q[i]
      BY <1>1, <1>3, <1>5
    <3> QED BY <3>2 DEF ToSet
  <2>3. x \in ToSet(s)
    <3>1. 1 \in DOMAIN s
      BY <1>1, <1>3
    <3> QED BY <1>4, <3>1 DEF ToSet
  <2> QED BY <1>1, <1>3, <2>1, <2>2, <2>3 DEF ToSet
<1> QED BY <1>2, <1>3, <1>6, <1>7, <1>8 DEF s

LEMMA ConsHeadTail ==
  ASSUME NEW T, NEW q \in Seq(T), q # << >>
  PROVE  << Head(q) >> \o Tail(q) = q
<1> DEFINE t == Tail(q)
           s == << Head(q) >> \o t
<1>1. /\ Head(q) \in T /\ t \in Seq(T) /\ Len(t) = Len(q) - 1
      /\ \A i \in 1 .. Len(t) : t[i] = q[i + 1]
      /\ Head(q) = q[1] /\ Len(q) \in Nat
  BY HeadTailProperties
<1> HIDE DEF t
<1>2. << Head(q) >> \in Seq(T) /\ Len(<< Head(q) >>) = 1 /\ << Head(q) >>[1] = q[1]
  BY <1>1
<1>3. /\ s \in Seq(T) /\ Len(s) = 1 + Len(t)
      /\ \A i \in 1 .. 1 + Len(t) :
           s[i] = IF i <= 1 THEN << Head(q) >>[i] ELSE t[i - 1]
  BY <1>1, <1>2, ConcatProperties
<1> HIDE DEF s
<1>4. \A i \in 1 .. Len(q) : s[i] = q[i]
  <2>1. SUFFICES ASSUME NEW i \in 1 .. Len(q) PROVE s[i] = q[i]
    OBVIOUS
  <2>2. CASE i = 1
    BY <1>1, <1>2, <1>3, <2>2
  <2>3. CASE i # 1
    <3>1. i - 1 \in 1 .. Len(t) /\ (i - 1) + 1 = i /\ i \in 1 .. 1 + Len(t) /\ ~ (i <= 1)
      BY <1>1, <2>3
    <3> QED BY <1>1, <1>3, <3>1
  <2> QED BY <2>2, <2>3
<1>5. s = q
  BY <1>1, <1>3, <1>4, SeqEqual
<1> QED BY <1>5 DEF s, t

LEMMA ConsAppend ==
  ASSUME NEW T, NEW q \in Seq(T), NEW x \in T, NEW y \in T
  PROVE  Append(<< x >> \o q, y) = << x >> \o Append(q, y)
<1>1. << x >> \in Seq(T) /\ << y >> \in Seq(T)
  OBVIOUS
<1>2. << x >> \o q \in Seq(T)
  BY ConsFacts
<1>3. /\ Append(<< x >> \o q, y) = (<< x >> \o q) \o << y >>
      /\ Append(q, y) = q \o << y >>
  BY <1>2, AppendIsConcat
<1> QED BY <1>1, <1>3, ConcatAssociative

(* The refinement mapping of module HttpService.                           *)
InLine   == IF conn = NULL THEN queue ELSE << conn >> \o queue
Answered == {c \in Clients : outcome[c] \in Replies}
Door     == IF at = "start" THEN "shut"
            ELSE IF at \in {"accept", "closing"} \cup Serving THEN "open"
            ELSE "closed"

(* Those in line are the clients that wait. *)
LEMMA LineFacts ==
  ASSUME HttpTypeOK, EachInOnePlace
  PROVE  /\ InLine \in Seq(Clients)
         /\ ToSet(InLine) = {c \in Clients : outcome[c] = "waiting"}
         /\ Answered \cap ToSet(InLine) = {}
<1>1. /\ InLine \in Seq(Clients)
      /\ ToSet(InLine) = ToSet(queue) \cup ({conn} \ {NULL})
  <2>1. CASE conn = NULL
    BY <2>1 DEF InLine, HttpTypeOK
  <2>2. CASE conn # NULL
    BY <2>2, ConsFacts DEF InLine, HttpTypeOK
  <2> QED BY <2>1, <2>2
<1>2. ToSet(InLine) = {c \in Clients : outcome[c] = "waiting"}
  BY <1>1 DEF EachInOnePlace
<1> QED BY <1>1, <1>2 DEF Answered, Replies

(* A step of the service is a step of the line, or is not seen from there. *)
LEMMA LineStep ==
  ASSUME HttpTypeOK, EachInOnePlace, ConnInv, HttpTypeOK',
         [HttpNext]_<< vars, netVars >>
  PROVE  [Line!Next]_(Line!lineVars)
<1> USE DEF InLine, Answered, Door
<1>0. at \in Serving => at # "start" /\ conn \in Clients /\ conn # NULL
  BY DEF ConnInv, HttpTypeOK, Serving
<1>1. CASE Start
  <2>1. /\ InLine' = InLine /\ Answered' = Answered
        /\ Door = "shut" /\ Door' \in {"open", "closed"}
    BY <1>1 DEF Start, clientVars
  <2> QED BY <2>1 DEF Line!Next, Line!Open, Line!Close
<1>2. CASE Accept
  <2>1. /\ conn = NULL /\ queue # << >> /\ queue \in Seq(Clients)
        /\ conn' = Head(queue) /\ queue' = Tail(queue)
    BY <1>2 DEF Accept, ConnInv, HttpTypeOK, Serving
  <2>2. conn' # NULL
    BY <2>1, ClientsAssumption, HeadTailProperties
  <2>3. InLine' = InLine
    BY <2>1, <2>2, ConsHeadTail
  <2>4. Answered' = Answered /\ Door' = Door
    BY <1>2 DEF Accept, Serving
  <2> QED BY <2>3, <2>4 DEF Line!lineVars
<1>3. CASE SendReply
  <2>1. /\ conn \in Clients /\ conn # NULL /\ conn' = NULL
        /\ queue' = queue /\ queue \in Seq(Clients)
    BY <1>0, <1>3 DEF SendReply, HttpTypeOK, Serving
  <2>2. InLine # << >> /\ Head(InLine) = conn /\ InLine' = Tail(InLine)
    BY <2>1, ConsFacts
  <2>3. /\ outcome'[conn] \in Replies
        /\ \A c \in Clients \ {conn} : outcome'[c] = outcome[c]
    BY <1>3, <2>1 DEF SendReply, HttpTypeOK, Replies
  <2>4. Answered' = Answered \cup {Head(InLine)}
    BY <2>1, <2>2, <2>3
  <2>5. Door = "open" /\ Door' = "open"
    BY <1>3 DEF SendReply, Serving
  <2> QED BY <2>2, <2>4, <2>5 DEF Line!Next, Line!Answer
<1>4. ASSUME NEW c \in Clients, Connect(c)
      PROVE  Line!Next
  <2>1. /\ outcome[c] = "new" /\ queue' = Append(queue, c) /\ conn' = conn
        /\ at' = at /\ at \in {"accept", "closing"} \cup Serving
        /\ queue \in Seq(Clients)
    BY <1>4 DEF Connect, HttpTypeOK
  <2>2. \A d \in Clients : outcome'[d] = IF d = c THEN "waiting" ELSE outcome[d]
    BY <1>4 DEF Connect, HttpTypeOK
  <2>3. c \notin Answered /\ c \notin ToSet(InLine)
    BY <2>1, LineFacts DEF Replies
  <2>4. InLine' = Append(InLine, c)
    <3>1. CASE conn = NULL
      BY <2>1, <3>1
    <3>2. CASE conn # NULL
      <4>1. conn \in Clients
        BY <3>2 DEF HttpTypeOK
      <4>2. Append(<< conn >> \o queue, c) = << conn >> \o Append(queue, c)
        BY <2>1, <4>1, ConsAppend
      <4> QED BY <2>1, <3>2, <4>2
    <3> QED BY <3>1, <3>2
  <2>5. Answered' = Answered
    BY <2>1, <2>2 DEF Replies
  <2>6. Door = "open" /\ Door' = "open"
    BY <2>1 DEF Serving
  <2>7. Line!Join(c)
    BY <2>3, <2>4, <2>5, <2>6 DEF Line!Join, Line!ToSet, ToSet
  <2> QED BY <2>7 DEF Line!Next
<1>5. ASSUME UNCHANGED << queue, conn, outcome >>,
             Door' = Door \/ (Door # "closed" /\ Door' = "closed")
      PROVE  [Line!Next]_(Line!lineVars)
  <2>1. InLine' = InLine /\ Answered' = Answered
    BY <1>5
  <2> QED BY <1>5, <2>1 DEF Line!Next, Line!Close, Line!lineVars
<1>6. CASE RecvHeaders \/ RecvBody \/ RecvEnds \/ NoPrompt \/ GenerateStarts \/ GenerateRuns
  <2>1. at \in Serving /\ at' \in Serving \cup {"terminated"}
    BY <1>6 DEF RecvHeaders, RecvBody, RecvEnds, NoPrompt, GenerateStarts,
                GenerateRuns, AfterHeaders, Serving
  <2>2. UNCHANGED << queue, conn, outcome >>
    BY <1>6 DEF RecvHeaders, RecvBody, RecvEnds, NoPrompt, GenerateStarts, GenerateRuns
  <2> QED BY <1>5, <2>1, <2>2 DEF Serving
<1>7. CASE AcceptFails \/ ServiceShutdown \/ ServiceLeaves
  BY <1>5, <1>7 DEF AcceptFails, ServiceShutdown, ServiceLeaves, Serving
<1>8. CASE (\E c \in Clients : Arrive(c) \/ HangUp(c)) \/ UNCHANGED << vars, netVars >>
  BY <1>5, <1>8 DEF Arrive, HangUp, netVars
<1> QED BY <1>1, <1>2, <1>3, <1>4, <1>6, <1>7, <1>8 DEF HttpNext, Server

(* The service is a line: clients are answered once each and in the order  *)
(* in which they connected, and nobody is once it has ended.               *)
THEOREM ServiceIsALine == HttpSpec => ImplementsLine
<1>1. HttpInit => Line!Init
  BY DEF HttpInit, Line!Init, Replies
<1>2. HttpIInv => HttpTypeOK /\ EachInOnePlace /\ ConnInv
  BY DEF HttpIInv
<1> QED BY <1>1, <1>2, ServiceIInv, LineStep, PTL DEF HttpSpec, ImplementsLine, Line!Spec

-----------------------------------------------------------------------------
(* The part of a request the server is at, and how far it is.              *)
LeftView ==
  /\ at = "headers"    => Left = 30 - got
  /\ at = "body"       => Left = 24 - got
  /\ at = "extract"    => Left = 18
  /\ at = "generate"   => Left = 1 + Remaining
  /\ at = "send"       => Left = 1
  /\ at \notin Serving => Left = 0

LEMMA LeftFacts == LeftView /\ LeftView'
BY DEF LeftView, Left, Serving

(* Reading: a piece more, or the end of it. *)
LEMMA ReadingAdvances ==
  ASSUME HttpTypeOK, HttpTypeOK', RecvHeaders \/ RecvBody \/ RecvEnds
  PROVE  Left' < Left
<1>1. got \in 0 .. 5 /\ got' \in 0 .. 5
  BY DEF HttpTypeOK, Pieces
<1>2. /\ at = "headers" => Left = 30 - got
      /\ at = "body" => Left = 24 - got
      /\ at' = "headers" => Left' = 30 - got'
      /\ at' = "body" => Left' = 24 - got'
      /\ at' = "extract" => Left' = 18
      /\ at' = "terminated" => Left' = 0
  BY LeftFacts DEF LeftView, Serving
<1>3. \A r, n : AfterHeaders(r, n) \in {"terminated", "body", "extract"}
  BY DEF AfterHeaders
<1>4. CASE RecvHeaders \/ RecvBody
  <2>1. /\ at \in {"headers", "body"} /\ got < got'
        /\ at' \in {"terminated", "body", "extract"} \/ at' = at
        /\ at = "body" => at' \in {"terminated", "body", "extract"}
    <3>1. \A n \in got + 1 .. sent[conn] : got < n
      BY <1>1, <1>4 DEF HttpTypeOK
    <3> QED BY <1>3, <1>4, <3>1 DEF RecvHeaders, RecvBody
  <2> QED BY <1>1, <1>2, <2>1
<1>5. CASE RecvEnds
  <2>1. at \in {"headers", "body"} /\ at' = "extract"
    BY <1>5 DEF RecvEnds
  <2> QED BY <1>1, <1>2, <2>1
<1> QED BY <1>4, <1>5

(* Generating: a statement of the call more, or the end of it.             *)
LEMMA GeneratingAdvances ==
  ASSUME IInv, IInv', HttpIInv, GenerateStarts \/ GenerateRuns
  PROVE  Left' < Left
<1>1. /\ Remaining \in Nat /\ (stack # << >> => Remaining > 8)
      /\ Remaining' \in Nat
      /\ stack' # << >> /\ Len(stack') = 1 => Remaining' <= 16
  <2>1. IInv => /\ Remaining \in Nat /\ (stack # << >> => Remaining > 8)
                /\ stack # << >> /\ Len(stack) = 1 => Remaining <= 16
    BY RemainingFacts
  <2>2. (IInv => /\ Remaining \in Nat /\ (stack # << >> => Remaining > 8)
                 /\ stack # << >> /\ Len(stack) = 1 => Remaining <= 16)'
    BY RemainingFacts, PTL
  <2> QED BY <2>1, <2>2
<1>2. CASE GenerateStarts
  <2>1. stack = << >> /\ at = "extract" /\ at' = "generate"
    BY <1>2 DEF GenerateStarts, HttpIInv, QuietInv
  <2>2. stack' # << >> /\ Len(stack') = 1
    BY <1>2, <2>1 DEF GenerateStarts, Call
  <2>3. Left = 18 /\ Left' = 1 + Remaining'
    BY <2>1, LeftFacts DEF LeftView
  <2>4. Remaining' \in Nat /\ Remaining' <= 16
    BY <1>1, <2>2
  <2>5. \A r \in Nat : r <= 16 => 1 + r < 18
    OBVIOUS
  <2> QED BY <2>3, <2>4, <2>5
<1>3. CASE GenerateRuns
  <2>1. /\ at = "generate" /\ Step /\ stack # << >> /\ phase = "alive"
        /\ Last(stack).pc \in Loading \cup {"unload"}
    BY <1>3 DEF GenerateRuns, HttpIInv, QuietInv, Step, WeightsAllocated,
       WeightsRefused, WeightsThrow, KvAllocated, KvRefused, KvThrows,
       CreateBackend, CreateFails, InitBackend, InitFails, TokenReturns,
       ThirdTokenCrashes, TokenThrows, Unload, At
  <2>2. phase' = "alive"
    BY <2>1 DEF Step, WeightsAllocated, WeightsRefused, WeightsThrow,
       KvAllocated, KvRefused, KvThrows, AllocationThrows, CreateBackend,
       CreateFails, InitBackend, InitFails, TokenReturns, ThirdTokenCrashes,
       TokenThrows, Unload, At, Loading
  <2>3. Remaining' < Remaining
    BY <2>1, <2>2, StepAdvances
  <2>4. at' \in {"generate", "terminated", "send"}
    BY <1>3 DEF GenerateRuns
  <2>5. /\ Left = 1 + Remaining
        /\ at' = "generate" => Left' = 1 + Remaining'
        /\ at' = "send" => Left' = 1
        /\ at' = "terminated" => Left' = 0
    BY <2>1, LeftFacts DEF LeftView, Serving
  <2> QED BY <1>1, <2>1, <2>3, <2>4, <2>5
<1> QED BY <1>2, <1>3

(* What is left of a request shrinks with every step of the server and is  *)
(* nobody else's to change.                                                *)
LEMMA RequestStep ==
  ASSUME IInv, IInv', HttpIInv, HttpTypeOK', HttpNext, at \in Serving
  PROVE  IF Server THEN Left' < Left ELSE Left' = Left
<1>1. ASSUME Server
      PROVE  Left' < Left
  <2>1. CASE RecvHeaders \/ RecvBody \/ RecvEnds
    BY <2>1, ReadingAdvances DEF HttpIInv
  <2>2. CASE GenerateStarts \/ GenerateRuns
    BY <2>2, GeneratingAdvances
  <2>3. CASE NoPrompt
    <3>1. Left = 18 /\ Left' = 1
      BY <2>3, LeftFacts DEF LeftView, NoPrompt
    <3> QED BY <3>1
  <2>4. CASE SendReply
    <3>1. Left = 1 /\ Left' = 0
      BY <2>4, LeftFacts DEF LeftView, SendReply, Serving
    <3> QED BY <3>1
  <2>5. CASE Start \/ Accept \/ ServiceShutdown \/ ServiceLeaves
    BY <2>5 DEF Start, Accept, ServiceShutdown, ServiceLeaves, Serving
  <2> QED BY <1>1, <2>1, <2>2, <2>3, <2>4, <2>5 DEF Server
<1>2. ASSUME ~ Server
      PROVE  Left' = Left
  <2>1. UNCHANGED << at, got, stack >>
    BY <1>2 DEF HttpNext, AcceptFails, Connect, Arrive, HangUp, vars, Serving
  <2> QED BY <2>1 DEF Left, Remaining
<1> QED BY <1>1, <1>2

(* A request takes a bounded number of the server's steps, from its first  *)
(* byte to its answer, whatever its client and the others do.              *)
THEOREM RequestsGetNearer == HttpSpec => RequestsAdvance
<1>1. IInv /\ IInv' /\ HttpIInv /\ HttpIInv' /\ [HttpNext]_<< vars, netVars >>
      => [(at \in Serving) =>
            IF Server THEN Left' < Left ELSE Left' = Left]_<< vars, netVars >>
  BY RequestStep DEF HttpIInv
<1>2. HttpSpec => []IInv
  BY ServiceRunsRuntime, SpecIInv, PTL
<1> QED BY <1>1, <1>2, ServiceIInv, PTL DEF HttpSpec, RequestsAdvance

(* The runtime inside the service keeps the promise of lazy loading.       *)
THEOREM ServiceLoadsLazily == HttpSpec => ImplementsLazyLoading
BY ServiceRunsRuntime, RefinesLazyLoading, PTL
=============================================================================
